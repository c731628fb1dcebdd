---------------------------- MODULE SessionRequests ----------------------------
(***************************************************************************)
(* The owner's requests on one session together: the history route reads a  *)
(* page and brings both durable projections, subagents and approvals, up to *)
(* date from it; the approvals, subagent list and subagent routes work on   *)
(* the same rows at the same time; the server may die in any of them.       *)
(***************************************************************************)
EXTENDS SubagentSupervisor, SessionApprovals

vars == <<log, child, detached, mail, req, opened, faults, record, spawned, reported, lost, shown, approval>>

Init == InitHistory /\ InitRecords /\ InitApprovals

\* A request dies between two steps.
Dies(p) ==
    /\ req[p] # Idle /\ Fault /\ Go(p, Idle)
    /\ lost' = IF req[p].pc = "project" \/ (req[p].pc = "retire" /\ ~req[p].close)
               THEN lost \union {req[p].child} ELSE lost
    /\ UNCHANGED <<runtime, opened, record, spawned, reported, shown>>

StartSupervisor(p) ==
    \/ PollChildren(p) \/ Spawn(p)
    \/ InspectChildren(p, {c \in Children : record[c] # "none"})
    \/ \E c \in Children :
          \/ InspectChildren(p, {c}) \/ Close(p, c) \/ Interrupt(p, c)
          \/ \E resume \in BOOLEAN : Send(p, c, resume)

StepSupervisor(p) ==
    \/ Write(p) \/ SyncStart(p) \/ SyncCalled(p) \/ SyncReported(p) \/ SyncStore(p)
    \/ SpawnRefused(p) \/ SpawnProject(p)
    \/ Retire(p) \/ Recheck(p) \/ Reconcile(p) \/ SteerInspect(p) \/ Enqueue(p) \/ InterruptInspect(p)
    \/ \E c \in Children :
          RefreshInspect(p, c) \/ RefreshWrite(p, c) \/ CascadeStep(p, c)
          \/ SpawnChild(p, c) \/ SpawnUnanswered(p, c)

Continue(p) ==
    \/ StepSupervisor(p) /\ UNCHANGED approval
    \/ (SyncApproval(p) \/ ListPending(p)) /\ UNCHANGED records

Next ==
    \/ RuntimeNext /\ UNCHANGED <<records, approval>>
    \/ \E p \in Requests :
          \/ \E from \in 0..MaxEvents : ReadPage(p, from) /\ UNCHANGED <<records, approval>>
          \/ ReadApprovals(p) /\ UNCHANGED records
          \/ StartSupervisor(p) /\ UNCHANGED approval
          \/ Continue(p)
          \/ Dies(p) /\ UNCHANGED approval

\* Requests run to their end, and the workspace of the session's thread, as
\* long as that is the open and visible one, asks for the children every five
\* seconds while one of them looks active in it (agent-workspace.tsx).  The
\* number of requests at one time is a bound of the model, so that a poll may
\* have to wait for a free one; it does not wait for ever.
Spec ==
    /\ Init /\ [][Next]_vars
    /\ \A p \in Requests : WF_vars(Continue(p))
    /\ SF_vars(\E p \in Requests : PollChildren(p) /\ UNCHANGED approval)

-----------------------------------------------------------------------------

\* The status a short page shows is what the session's boundary was when the
\* page was read or is when the answer is built, or it says that it does not
\* know (readAgentSession).
PageStatusTrue ==
    \A p \in Requests :
        LET o == req[p] IN
        o.pc = "page" /\ o.to - o.from < PageLimit =>
            ShownStatuses(o.from, o.to) \subseteq {o.was, Boundary, "unknown"}

\* A child started by a spawn request runs without a record only while the
\* request has it in hand, after an orphan error named it to the operator, or
\* if it was lost: its start was not answered, or the server died in between
\* (spawnAgentSubagent).
OrphansAccounted ==
    \A c \in spawned : child[c].state \in {"running", "waiting"} /\ record[c] = "none" =>
        \/ c \in reported \union lost
        \/ \E p \in Requests : req[p].pc \in {"project", "retire"} /\ req[p].child = c

\* A record is not about to say interrupted while the turn whose cancellation
\* was accepted still runs (interruptAgentSubagent).
InterruptedAtBoundary ==
    \A p \in Requests :
        LET o == req[p] IN
        o.pc = "write" /\ o.status = "interrupted" =>
            child[o.child].turn > o.turn \/ child[o.child].state # "running"

\* The end of the parent never fails a detached child: its record says failed
\* only if its session or its result did (syncAgentSubagentsFromEvents).
DetachedOutlivesParent ==
    \A c \in detached : record[c] = "failed" =>
        \/ child[c].state = "failed"
        \/ \E i \in DOMAIN log : log[i].type = "reported" /\ log[i].child = c /\ log[i].failed

\* A resolved approval says what the user answered, in whatever order and
\* however often the pages were projected; and once the approvals route has
\* projected the history it read, that history's requests are open exactly if
\* they are unanswered (syncAgentSessionApprovalsFromEvents).
ApprovalAgrees ==
    /\ \A r \in Approvals : approval[r] \in {"approved", "rejected"} =>
        /\ Mentioned("answered", "request", r)
        /\ approval[r] = (IF Answer(r) = "approve" THEN "approved" ELSE "rejected")
    /\ \A p \in Requests :
        LET o == req[p]
            Said(type, r) == \E i \in 1..o.to : log[i].type = type /\ log[i].request = r IN
        (o.pc = "approvals" /\ o.from = 0 /\ NextApprovalEvent(o.at, o.to) = 0) =>
            \A r \in Approvals :
                /\ Said("answered", r) => approval[r] # "requested"
                /\ Said("asked", r) /\ ~Mentioned("answered", "request", r) => approval[r] = "requested"

\* A lost result cannot leave a child marked as running for ever in the open
\* workspace: if its session rests while the workspace shows it active, the
\* record says something else, or the session runs again, or the workspace
\* shows it as ended (listAgentSubagents).
RecordCatchesUp ==
    \A c \in Children :
        LET Stale == record[c] \in {"starting", "running"} /\ child[c].state # "running" IN
        (Stale /\ ActiveInWorkspace(c)) ~> (~Stale \/ ~ActiveInWorkspace(c))
=============================================================================
