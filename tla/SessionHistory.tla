---------------------------- MODULE SessionHistory ----------------------------
(***************************************************************************)
(* One parent Agent session as its owner's requests see it: the durable     *)
(* event stream of the runtime, read in pages after an absolute cursor      *)
(* (readAgentSession in server/agent-sessions/service.ts), and the child    *)
(* sessions the runtime executes for it.                                    *)
(*                                                                         *)
(* The runtime (Eve) is external; its actions are what the server code      *)
(* relies on.  An event stands for the burst it ends: "called" for          *)
(* actions.requested and subagent.called, "parked" for turn.completed and   *)
(* session.waiting.  The owner check of every request is assumed to pass.   *)
(***************************************************************************)
EXTENDS Naturals, Sequences, FiniteSets, FiniteSetsExt, SequencesExt

CONSTANTS
    Children,      \* child session ids
    Approvals,     \* approval request ids, one tool call each
    Requests,      \* places for requests in progress at one time, naturals
    PageLimit,     \* limit of a page
    MaxEvents,     \* bound on the parent's stream
    MaxTurns,      \* bound on the turns of one child
    MaxOpened,     \* bound on the requests made, polls not counted
    MaxFaults      \* bound on failing calls, retirements not counted, and dying requests

ASSUME HistoryConstants ==
    /\ Requests \subseteq Nat /\ PageLimit \in Nat \ {0} /\ MaxEvents \in Nat
    /\ MaxTurns \in Nat /\ MaxOpened \in Nat /\ MaxFaults \in Nat

VARIABLES
    log,      \* the parent's events, append only
    child,    \* [Children -> the child session in the runtime]
    detached, \* children called with waitPolicy "no-wait"
    mail,     \* [Children -> messages queued in the child's mailbox]
    req,      \* [Requests -> what the request does next]
    opened, faults

runtime == <<log, child, detached, mail>>

Idle == [pc |-> "idle"]

Go(p, next) == req' = [req EXCEPT ![p] = next]

\* Requests are alike: the next one takes the first free place.
Free(p) == req[p] = Idle /\ \A q \in Requests : q < p => req[q] # Idle

Open(p, first) ==
    /\ Free(p) /\ opened < MaxOpened /\ opened' = opened + 1
    /\ Go(p, first)

Fault == faults < MaxFaults /\ faults' = faults + 1

InitHistory ==
    /\ log = <<>>
    /\ child = [c \in Children |-> [state |-> "none", turn |-> 0]]
    /\ detached = {}
    /\ mail = [c \in Children |-> 0]
    /\ req = [p \in Requests |-> Idle]
    /\ opened = 0 /\ faults = 0

-----------------------------------------------------------------------------
(* What a page says about the session.                                      *)

\* Types of the whole burst that move the status of the snapshot.
StatusOf(e) ==
    CASE e.type \in {"started", "called"} -> "running"
      [] e.type = "parked"    -> "waiting"
      [] e.type = "cancelled" -> "cancelled"
      [] e.type = "ended"     -> "completed"
      [] OTHER                -> "unknown"

\* The last event that says something decides.
ProjectSnapshot(events) ==
    LET said == {i \in DOMAIN events : StatusOf(events[i]) # "unknown"}
    IN  IF said = {} THEN "unknown" ELSE StatusOf(events[Max(said)])

HasLifecycleBoundary(events) ==
    \E i \in DOMAIN events : events[i].type \in {"started", "parked", "cancelled", "ended"}

Page(from, to) == SubSeq(log, from + 1, to)

PageEnd(from) == IF Len(log) < from + PageLimit THEN Len(log) ELSE from + PageLimit

\* The parent's own status; the stream starts in the middle of a turn.
Status == LET s == ProjectSnapshot(log) IN IF s = "unknown" THEN "running" ELSE s

\* The boundary the runtime reports for the parent.
Boundary == IF Status = "cancelled" THEN "waiting" ELSE Status

\* A full page is a middle page until proven otherwise and is not inspected.
NeedsBoundary(from, to) ==
    ~HasLifecycleBoundary(Page(from, to)) /\ to - from < PageLimit

-----------------------------------------------------------------------------
(* The runtime.                                                             *)

Running == Status = "running"

Append1(e) == Len(log) < MaxEvents /\ log' = Append(log, e)

Mentioned(type, key, id) == \E i \in DOMAIN log : log[i].type = type /\ log[i][key] = id

\* The parent waits for the child or, detached, does not.
StartChild(c) ==
    /\ child[c].state = "none"
    /\ child' = [child EXCEPT ![c] = [state |-> "running", turn |-> 1]]
    /\ detached' \in {detached, detached \union {c}}

\* The model delegates to a child of its own.
CallChild(c) ==
    /\ Running /\ StartChild(c)
    /\ Append1([type |-> "called", child |-> c])
    /\ UNCHANGED <<mail, req, opened, faults>>

\* A child's turn ends: it parks for the next message or ends for good.
EndChildTurn(c, state) ==
    /\ child[c].state = "running"
    /\ child' = [child EXCEPT ![c].state = state]
    /\ UNCHANGED <<log, detached, mail, req, opened, faults>>

\* A queued message starts the next turn of a parked child.
StartChildTurn(c) ==
    /\ mail[c] > 0 /\ child[c].state = "waiting" /\ child[c].turn < MaxTurns
    /\ mail' = [mail EXCEPT ![c] = @ - 1]
    /\ child' = [child EXCEPT ![c] = [state |-> "running", turn |-> @.turn + 1]]
    /\ UNCHANGED <<log, detached, req, opened, faults>>

\* The parent learns that a called child answered; it may never do so.
ReportChild(c, failed) ==
    /\ child[c].state \notin {"none", "running"}
    /\ Mentioned("called", "child", c) /\ ~Mentioned("reported", "child", c)
    /\ Append1([type |-> "reported", child |-> c, failed |-> failed])
    /\ UNCHANGED <<child, detached, mail, req, opened, faults>>

MoveParent(type) ==
    /\ \/ type \in {"parked", "cancelled"} /\ Running
       \/ type = "started" /\ Boundary = "waiting"
       \/ type = "ended" /\ Boundary # "completed"
    /\ Append1([type |-> type])
    /\ UNCHANGED <<child, detached, mail, req, opened, faults>>

\* A tool call asks for approval, gets one answer and, if the turn goes on,
\* a result: rejected exactly when the user denied it.
AskApproval(r) ==
    /\ Running /\ ~Mentioned("asked", "request", r)
    /\ Append1([type |-> "asked", request |-> r])
    /\ UNCHANGED <<child, detached, mail, req, opened, faults>>

AnswerApproval(r, option) ==
    /\ Boundary # "completed"
    /\ Mentioned("asked", "request", r) /\ ~Mentioned("answered", "request", r)
    /\ Append1([type |-> "answered", request |-> r, option |-> option])
    /\ UNCHANGED <<child, detached, mail, req, opened, faults>>

Answer(r) == (CHOOSE e \in ToSet(log) : e.type = "answered" /\ e.request = r).option

ReportTool(r, status) ==
    /\ Boundary # "completed"
    /\ Mentioned("answered", "request", r) /\ ~Mentioned("result", "request", r)
    /\ (status = "rejected") <=> (Answer(r) = "reject")
    /\ Append1([type |-> "result", request |-> r, status |-> status])
    /\ UNCHANGED <<child, detached, mail, req, opened, faults>>

RuntimeNext ==
    \/ \E c \in Children :
          \/ CallChild(c) \/ StartChildTurn(c)
          \/ \E state \in {"waiting", "completed", "failed"} : EndChildTurn(c, state)
          \/ \E failed \in BOOLEAN : ReportChild(c, failed)
    \/ \E type \in {"started", "parked", "cancelled", "ended"} : MoveParent(type)
    \/ \E r \in Approvals :
          \/ AskApproval(r)
          \/ \E option \in {"approve", "reject"} : AnswerApproval(r, option)
          \/ \E status \in {"rejected", "completed", "failed"} : ReportTool(r, status)

-----------------------------------------------------------------------------
(* readAgentSession: one page after a cursor, or the whole history page by  *)
(* page (the approvals route).                                              *)

ReadPage(p, from) ==
    /\ from \in 0..Len(log)
    /\ Open(p, [pc |-> "page", from |-> from, to |-> PageEnd(from), was |-> Status])
    /\ UNCHANGED <<runtime, faults>>

\* Mutant: a page without a status is taken for a running turn.
ShownGuess(from, to) ==
    LET s == ProjectSnapshot(Page(from, to)) IN {IF s = "unknown" THEN "running" ELSE s}

\* The status the response shows; an inspection may fail and changes nothing.
ShownStatuses(from, to) ==
    {ProjectSnapshot(Page(from, to))} \union (IF NeedsBoundary(from, to) THEN {Boundary} ELSE {})

\* A history request goes on to the approvals its page tells of.
NextApprovalEvent(from, to) ==
    LET about == {i \in from..to : log[i].type \in {"asked", "answered", "result"}}
    IN  IF about = {} THEN 0 ELSE Min(about)

ToApprovals(from, to) ==
    IF NextApprovalEvent(from + 1, to) = 0 THEN Idle
    ELSE [pc |-> "approvals", from |-> from, to |-> to, at |-> from + 1]
=============================================================================
