-------------------------- MODULE SubagentSupervisor --------------------------
(***************************************************************************)
(* The durable records of a session's subagents                            *)
(* (server/data/agent-subagent-store.ts) and the requests that keep them    *)
(* (server/agent-sessions/subagents.ts): the projection of a page of parent *)
(* events, the refresh from the children's own boundaries, and spawn, send, *)
(* interrupt and close.                                                     *)
(*                                                                         *)
(* A record is its status; name, task, timestamps and depth are left out.   *)
(* A request reads and writes in separate steps, as it awaits in between.   *)
(***************************************************************************)
EXTENDS SessionHistory

CONSTANTS
    Limit,     \* active children a session may have, sixteen in the code
    Attempts   \* of retireChildSession, three in the code

ASSUME SupervisorConstants ==
    Limit \in Nat /\ Attempts \in Nat \ {0}

VARIABLES
    record,    \* [Children -> status of the row, "none" without one]
    spawned,   \* children started by spawn requests
    reported,  \* children an orphan error named to the operator
    lost,      \* children whose start was not answered, or whose request died
               \* before it stored them
    shown      \* children active in the list the workspace loaded last

records == <<record, spawned, reported, lost, shown>>

Statuses == {"starting", "running", "waiting", "completed", "failed", "interrupted", "closed"}

Active(status) == status \in {"starting", "running", "waiting"}

InitRecords ==
    /\ record = [c \in Children |-> "none"]
    /\ spawned = {} /\ reported = {} /\ lost = {} /\ shown = {}

\* What an inspection of a child's session returns, mapped to a status.
Inspected(c) == child[c].state

\* Insert, or move a starting or waiting row to running.
Create(c, status) ==
    record' = [record EXCEPT ![c] =
        CASE @ = "none" -> status
          [] @ \in {"starting", "waiting"} /\ status = "running" -> "running"
          [] OTHER -> @]

\* No condition on the status the row has.
UpdateOwned(c, status) == record' = [record EXCEPT ![c] = status]

\* The last step of several requests.
Write(p) ==
    /\ req[p].pc = "write"
    /\ UpdateOwned(req[p].child, req[p].status)
    /\ Go(p, Idle)
    /\ UNCHANGED <<runtime, opened, faults, spawned, reported, lost, shown>>

ToWrite(c, status, turn) == [pc |-> "write", child |-> c, status |-> status, turn |-> turn]

-----------------------------------------------------------------------------
(* listAgentSubagents, inspectAgentSubagent, waitForAgentSubagent: a refresh *)
(* of all children or of one, repeated while a wait lasts.                   *)

Refreshing(cs, poll) ==
    [pc |-> "refresh", todo |-> cs, seen |-> [c \in Children |-> "none"], poll |-> poll, live |-> {}]

\* All children for the list route, one for its own route and for a wait.
InspectChildren(p, cs) ==
    /\ cs # {} /\ \A c \in cs : record[c] # "none"
    /\ Open(p, Refreshing(cs, FALSE))
    /\ UNCHANGED <<runtime, faults, records>>

\* The first boundary of the parent's turn after the call cancelled it.
CallerCancelled(i) ==
    \E j \in i + 1..Len(log) :
        /\ log[j].type = "cancelled"
        /\ \A k \in i + 1..j - 1 : log[k].type \notin {"started", "parked"}

\* How the transcript shows the child: active once called, until its result
\* or the end of the session; a cancelled caller leaves it waiting.
ActiveInTranscript(c) ==
    /\ ~Mentioned("reported", "child", c)
    /\ \E i \in DOMAIN log :
          /\ log[i].type = "called" /\ log[i].child = c
          /\ CallerCancelled(i) \/ \A j \in DOMAIN log : log[j].type # "ended"

\* What was loaded stands over the transcript, until none of it is active.
ActiveInWorkspace(c) == c \in shown \/ ActiveInTranscript(c)

Poll(p) ==
    /\ Free(p) /\ \E c \in Children : record[c] # "none"
    /\ Go(p, Refreshing({c \in Children : record[c] # "none"}, TRUE))
    /\ UNCHANGED <<runtime, opened, faults, records>>

\* Mutant: the transcript of a cancelled caller shows its children as ended.
PollUncancelled(p) ==
    /\ \E c \in Children :
          \/ c \in shown
          \/ ActiveInTranscript(c) /\ \A i \in DOMAIN log : log[i].type # "cancelled"
    /\ Poll(p)

\* The workspace asks for the list while it shows an active child.
PollChildren(p) ==
    /\ \E c \in Children : ActiveInWorkspace(c)
    /\ Poll(p)

\* On to the next child, or the answer: a poll shows it, if it arrives in time
\* and the workspace did not change meanwhile.
Refreshed(p, c, status) ==
    LET o == req[p]
        live == IF Active(status) THEN o.live \union {c} ELSE o.live IN
    \/ /\ o.todo # {c} /\ UNCHANGED shown
       /\ Go(p, [o EXCEPT !.todo = @ \ {c}, !.seen[c] = "none", !.live = live])
    \/ /\ o.todo = {c} /\ Go(p, Idle)
       /\ UNCHANGED shown \/ (o.poll /\ shown' = live)

\* A child whose boundary cannot be read is listed as it is stored.
RefreshInspect(p, c) ==
    LET o == req[p] IN
    /\ o.pc = "refresh" /\ c \in o.todo /\ o.seen[c] = "none"
    /\ \/ UNCHANGED <<faults, shown>> /\ Go(p, [o EXCEPT !.seen[c] = Inspected(c)])
       \/ Fault /\ Refreshed(p, c, record[c])
    /\ UNCHANGED <<runtime, opened, record, spawned, reported, lost>>

RefreshWrite(p, c) ==
    LET o == req[p] IN
    /\ o.pc = "refresh" /\ c \in o.todo /\ o.seen[c] # "none"
    /\ UpdateOwned(c, o.seen[c])
    /\ Refreshed(p, c, o.seen[c])
    /\ UNCHANGED <<runtime, opened, faults, spawned, reported, lost>>

-----------------------------------------------------------------------------
(* syncAgentSubagentsFromEvents: the events of a page in order, then the     *)
(* cascade of a cancelled or ended parent over the children it knows, with   *)
(* the statuses the request itself last saw.                                 *)

\* The next event of the page about a subagent, 0 at the end of the page.
NextChildEvent(from, to) ==
    LET about == {i \in from..to : log[i].type \in {"called", "reported"}}
    IN  IF about = {} THEN 0 ELSE Min(about)

PageHas(o, type) == \E i \in o.from + 1..o.to : log[i].type = type

\* Mutant: the end of the parent reaches every child.
CascadeToAll(o, known) ==
    {c \in Children : Active(known[c]) /\ (PageHas(o, "cancelled") \/ PageHas(o, "ended"))}

\* A detached child outlives the end of its parent.
Cascade(o, known) ==
    {c \in Children : /\ Active(known[c])
                      /\ PageHas(o, "cancelled") \/ PageHas(o, "ended")
                      /\ PageHas(o, "ended") => c \notin detached}

CascadeOn(o, todo) ==
    IF todo = {} THEN ToApprovals(o.from, o.to)
    ELSE [pc |-> "cascade", from |-> o.from, to |-> o.to, todo |-> todo]

\* Where the request goes on in its page, from the given event.
GoOn(o, at, known) ==
    IF NextChildEvent(at, o.to) # 0
    THEN [pc |-> "events", from |-> o.from, to |-> o.to, at |-> at, known |-> known]
    ELSE CascadeOn(o, Cascade(o, known))

SyncStart(p) ==
    /\ req[p].pc = "page"
    /\ Go(p, GoOn(req[p], req[p].from + 1, record))
    /\ UNCHANGED <<runtime, opened, faults, records>>

SyncCalled(p) ==
    LET o == req[p]
        i == NextChildEvent(o.at, o.to) IN
    /\ o.pc = "events" /\ i # 0 /\ log[i].type = "called"
    /\ Create(log[i].child, "running")
    /\ Go(p, GoOn(o, i + 1, [o.known EXCEPT ![log[i].child] = record'[log[i].child]]))
    /\ UNCHANGED <<runtime, opened, faults, spawned, reported, lost, shown>>

\* An unknown child is skipped; a failed result is believed, any other is
\* checked against the child's boundary.
SyncReported(p) ==
    LET o == req[p]
        i == NextChildEvent(o.at, o.to)
        c == log[i].child
        See(status) == Go(p, [pc |-> "store", from |-> o.from, to |-> o.to, at |-> i + 1,
                              known |-> o.known, child |-> c, status |-> status]) IN
    /\ o.pc = "events" /\ i # 0 /\ log[i].type = "reported"
    /\ \/ o.known[c] = "none" /\ Go(p, GoOn(o, i + 1, o.known)) /\ UNCHANGED faults
       \/ /\ o.known[c] # "none"
          /\ \/ log[i].failed /\ See("failed") /\ UNCHANGED faults
             \/ ~log[i].failed /\ See(Inspected(c)) /\ UNCHANGED faults
             \/ ~log[i].failed /\ Fault /\ \E status \in {"waiting", "completed"} : See(status)
    /\ UNCHANGED <<runtime, opened, records>>

\* The row of the child just inspected, in the events or in the cascade.
SyncStore(p) ==
    LET o == req[p] IN
    /\ o.pc \in {"store", "stamp"}
    /\ UpdateOwned(o.child, o.status)
    /\ Go(p, IF o.pc = "store" THEN GoOn(o, o.at, [o.known EXCEPT ![o.child] = o.status])
             ELSE CascadeOn(o, o.todo))
    /\ UNCHANGED <<runtime, opened, faults, spawned, reported, lost, shown>>

\* Cancelling the parent does not prove that the child has stopped: its own
\* boundary decides, and waiting then means interrupted.
CascadeStep(p, c) ==
    LET o == req[p]
        Stamp(status) == Go(p, [pc |-> "stamp", from |-> o.from, to |-> o.to,
                                todo |-> o.todo \ {c}, child |-> c, status |-> status]) IN
    /\ o.pc = "cascade" /\ c \in o.todo
    /\ \/ /\ PageHas(o, "cancelled")
          /\ Stamp(IF Inspected(c) = "waiting" THEN "interrupted" ELSE Inspected(c))
          /\ UNCHANGED faults
       \/ PageHas(o, "cancelled") /\ Fault /\ Go(p, CascadeOn(o, o.todo \ {c}))
       \/ ~PageHas(o, "cancelled") /\ Stamp("failed") /\ UNCHANGED faults
    /\ UNCHANGED <<runtime, opened, records>>

-----------------------------------------------------------------------------
(* spawnAgentSubagent: check the limit, start the child, store its record;   *)
(* if that fails, retire the child so that no session runs unowned.          *)

Spawn(p) ==
    /\ Cardinality({c \in Children : Active(record[c])}) < Limit
    /\ Open(p, [pc |-> "spawn"])
    /\ UNCHANGED <<runtime, faults, records>>

SpawnChild(p, c) ==
    /\ req[p].pc = "spawn" /\ StartChild(c)
    /\ spawned' = spawned \union {c}
    /\ Go(p, [pc |-> "project", child |-> c])
    /\ UNCHANGED <<log, mail, opened, faults, record, reported, lost, shown>>

\* The runtime refuses: no child is started.
SpawnRefused(p) ==
    /\ req[p].pc = "spawn" /\ Go(p, Idle)
    /\ UNCHANGED <<runtime, opened, faults, records>>

\* The start times out or stays ambiguous after the runtime took it: the
\* request fails without the child's id, so it neither stores nor retires it.
SpawnUnanswered(p, c) ==
    /\ req[p].pc = "spawn" /\ Fault /\ StartChild(c)
    /\ spawned' = spawned \union {c} /\ lost' = lost \union {c}
    /\ Go(p, Idle)
    /\ UNCHANGED <<log, mail, opened, record, reported, shown>>

\* Mutant: a failing insert only fails the request.
SpawnProjectOnly(p) ==
    LET c == req[p].child IN
    /\ req[p].pc = "project"
    /\ \/ Create(c, "starting") /\ UNCHANGED faults
       \/ Fault /\ (Create(c, "starting") \/ UNCHANGED record)
    /\ Go(p, Idle)
    /\ UNCHANGED <<runtime, opened, spawned, reported, lost, shown>>

\* A failing insert may still have stored the row.
SpawnProject(p) ==
    LET c == req[p].child IN
    /\ req[p].pc = "project"
    /\ \/ Create(c, "starting") /\ Go(p, Idle) /\ UNCHANGED faults
       \/ /\ Fault
          /\ Create(c, "starting") \/ UNCHANGED record
          /\ Go(p, [pc |-> "retire", child |-> c, left |-> Attempts, close |-> FALSE])
    /\ UNCHANGED <<runtime, opened, spawned, reported, lost, shown>>

Close(p, c) ==
    /\ record[c] # "none"
    /\ Open(p, [pc |-> "retire", child |-> c, left |-> Attempts, close |-> TRUE])
    /\ UNCHANGED <<runtime, faults, records>>

ResetChild(c) ==
    child' = [child EXCEPT ![c].state = IF @ \in {"completed", "failed"} THEN @ ELSE "completed"]

\* The reset of the session; a failing one may have taken effect, and the
\* last failure of a spawn is reported as an orphan.
Retire(p) ==
    LET o == req[p] IN
    /\ o.pc = "retire"
    /\ \/ /\ ResetChild(o.child)
          /\ Go(p, IF o.close THEN ToWrite(o.child, "closed", 0) ELSE Idle)
          /\ UNCHANGED reported
       \/ /\ ResetChild(o.child) \/ UNCHANGED child
          /\ Go(p, IF o.left = 1 THEN Idle ELSE [o EXCEPT !.left = @ - 1])
          /\ reported' = IF o.left = 1 /\ ~o.close THEN reported \union {o.child} ELSE reported
    /\ UNCHANGED <<log, detached, mail, opened, faults, record, spawned, lost, shown>>

-----------------------------------------------------------------------------
(* sendAgentSubagentMessage and interruptAgentSubagent.                      *)

\* A resume looks at the child again before it refuses a parked one.
Send(p, c, resume) ==
    /\ record[c] # "none"
    /\ Open(p, [pc |-> IF resume /\ record[c] \in {"completed", "interrupted"} THEN "recheck" ELSE "send",
              child |-> c, resume |-> resume, status |-> record[c]])
    /\ UNCHANGED <<runtime, faults, records>>

Recheck(p) ==
    LET o == req[p] IN
    /\ o.pc = "recheck"
    /\ \/ Go(p, [o EXCEPT !.pc = "reconcile", !.status = Inspected(o.child)]) /\ UNCHANGED faults
       \/ Fault /\ Go(p, [o EXCEPT !.pc = "send"])
    /\ UNCHANGED <<runtime, opened, records>>

Reconcile(p) ==
    LET o == req[p] IN
    /\ o.pc = "reconcile"
    /\ UpdateOwned(o.child, o.status)
    /\ Go(p, [o EXCEPT !.pc = "send"])
    /\ UNCHANGED <<runtime, opened, faults, spawned, reported, lost, shown>>

Accepts(o) ==
    /\ o.status \notin {"closed", "completed"}
    /\ o.status = "interrupted" => o.resume

\* A message to a running child steers the turn an inspection names; without
\* a running turn it is refused, as it is when the child accepts none.
SteersNow(o) == ~o.resume /\ o.status = "running"

SteerInspect(p) ==
    LET o == req[p] IN
    /\ o.pc = "send" /\ (Accepts(o) => SteersNow(o))
    /\ \/ Accepts(o) /\ Inspected(o.child) = "running" /\ Go(p, [o EXCEPT !.pc = "enqueue"])
       \/ Go(p, Idle)
    /\ UNCHANGED <<runtime, opened, faults, records>>

\* The mailbox takes the message, wherever the child is by now, or refuses it.
Enqueue(p) ==
    LET o == req[p] IN
    /\ o.pc = "enqueue" \/ (o.pc = "send" /\ Accepts(o) /\ ~SteersNow(o))
    /\ \/ /\ mail[o.child] = 0
          /\ mail' = [mail EXCEPT ![o.child] = 1]
          /\ Go(p, ToWrite(o.child, "running", 0))
       \/ Go(p, Idle) /\ UNCHANGED mail
    /\ UNCHANGED <<log, child, detached, opened, faults, records>>

\* An accepted cancellation is only queued; no_active_turn says there is none.
Interrupt(p, c) ==
    /\ record[c] # "none"
    /\ Open(p, [pc |-> "interrupt", child |-> c,
              turn |-> IF child[c].state = "running" THEN child[c].turn ELSE 0])
    /\ UNCHANGED <<runtime, faults, records>>

\* Mutant: an accepted cancellation is taken for an interrupted child.
InterruptAccepted(p) ==
    LET o == req[p] IN
    /\ o.pc = "interrupt"
    /\ Go(p, ToWrite(o.child, IF o.turn # 0 THEN "interrupted" ELSE Inspected(o.child), o.turn))
    /\ UNCHANGED <<runtime, opened, faults, records>>

InterruptInspect(p) ==
    LET o == req[p]
        s == Inspected(o.child) IN
    /\ o.pc = "interrupt"
    /\ \/ /\ Go(p, ToWrite(o.child, IF o.turn # 0 /\ s = "waiting" THEN "interrupted" ELSE s, o.turn))
          /\ UNCHANGED faults
       \/ Fault /\ Go(p, Idle)
    /\ UNCHANGED <<runtime, opened, records>>
=============================================================================
