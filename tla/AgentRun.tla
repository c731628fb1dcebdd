------------------------------ MODULE AgentRun ------------------------------
(***************************************************************************)
(* Headless AgentRuns: the agent_runs table (server/data/agent-run-store.ts)*)
(* and its four kinds of users.  Start calls reserve a run, create an Eve   *)
(* session and attach it (startAgentRun); inspections and cancellations     *)
(* project the session's event stream into the row (inspectAgentRun,        *)
(* cancelAgentRun, synchronizeAgentRun); the reconciler settles reservations*)
(* that got stuck (reconcile.ts); and the Eve session, a library, is        *)
(* modelled from the events the projection reads and from what cancel and   *)
(* reset are expected to do.                                                *)
(*                                                                          *)
(* A run is named by its idempotency key: the table's unique constraint     *)
(* makes that one row.  Every store operation is one statement or one       *)
(* transaction with the lock it needs, hence one action.                    *)
(***************************************************************************)
EXTENDS RunProjection, FiniteSets

CONSTANTS
    Keys,                 \* tenant + principal + idempotencyKey
    Tenants,
    TenantOf,             \* the tenant of a key
    MaxActive,            \* maxActiveRuns, 0 for no limit
    MaxActivePerTenant,   \* maxActiveRunsPerTenant, 0 for no limit
    Starters,             \* concurrent start calls
    Pollers,              \* concurrent inspections and cancellations
    AttachAttempts,       \* submissionPolicy.attachAttempts
    CleanupAttempts,      \* submissionPolicy.cleanupAttempts
    PageSize,             \* synchronizationPageSize
    MaxEvents,            \* bound on the events an Eve session emits
    MaxFaults             \* bound on crashes and failed calls

ASSUME RunConstants ==
    /\ Keys # {} /\ TenantOf \in [Keys -> Tenants]
    /\ MaxActive \in Nat /\ MaxActivePerTenant \in Nat
    /\ AttachAttempts \in Nat \ {0} /\ CleanupAttempts \in Nat \ {0}
    /\ PageSize \in Nat \ {0}
    /\ MaxEvents \in Nat /\ MaxFaults \in Nat

VARIABLES
    run,      \* the table
    elapsed,  \* is the grace period after cancellation_requested_at over?
    eve,      \* the Eve session of each run
    starter,  \* startAgentRun calls
    poller,   \* inspectAgentRun and cancelAgentRun calls
    recon,    \* the reconciler
    starts,   \* history: Eve sessions created for a run
    faults    \* faults spent

vars == <<run, elapsed, eve, starter, poller, recon, starts, faults>>

ActiveStatuses == {"submitting", "running", "waiting-input", "waiting-authorization"}

Terminal == {"completed", "failed", "cancelled", "submission-ambiguous"}

RowType ==
    [status  : RunStatuses \cup {"absent"},
     result  : Results,
     failure : BOOLEAN,
     steps   : Nat,
     count   : Nat,
     session : BOOLEAN,              \* eve_session_id is set
     cancel  : BOOLEAN,              \* cancellation_requested_at is set
     old     : BOOLEAN]              \* updated_at is beyond olderThanMs

AbsentRow ==
    [status |-> "absent", result |-> "none", failure |-> FALSE, steps |-> 0,
     count |-> 0, session |-> FALSE, cancel |-> FALSE, old |-> FALSE]

EveStates == {"none", "live", "asking", "parked", "ending", "idle", "gone"}

AnyKey == CHOOSE k \in Keys : TRUE

IdleStarter == [pc |-> "idle", key |-> AnyKey, tries |-> 0]

IdlePoller == [pc |-> "idle", key |-> AnyKey, rec |-> AbsentRow, page |-> 0]

IdleRecon == [pc |-> "idle", key |-> AnyKey, session |-> FALSE]

SessionType == [state : EveStates, log : Seq(Events), stop : BOOLEAN]

StarterType ==
    [pc : {"idle", "start", "reject", "unknown", "attach", "bind", "cleanup", "mark"},
     key : Keys, tries : 0..(AttachAttempts + CleanupAttempts)]

PollerType ==
    [pc : {"idle", "stamp", "stop", "read", "project", "grace", "markCancelled"},
     key : Keys, rec : RowType, page : 0..PageSize]

TypeOK ==
    /\ run \in [Keys -> RowType]
    /\ elapsed \in [Keys -> BOOLEAN]
    /\ eve \in [Keys -> SessionType]
    /\ starter \in [Starters -> StarterType]
    /\ poller \in [Pollers -> PollerType]
    /\ recon \in [pc : {"idle", "reset", "mark"}, key : Keys, session : BOOLEAN]
    /\ starts \in [Keys -> Nat]
    /\ faults \in 0..MaxFaults

Init ==
    /\ run = [k \in Keys |-> AbsentRow]
    /\ elapsed = [k \in Keys |-> FALSE]
    /\ eve = [k \in Keys |-> [state |-> "none", log |-> <<>>, stop |-> FALSE]]
    /\ starter = [s \in Starters |-> IdleStarter]
    /\ poller = [p \in Pollers |-> IdlePoller]
    /\ recon = IdleRecon
    /\ starts = [k \in Keys |-> 0]
    /\ faults = 0

Fault == faults < MaxFaults /\ faults' = faults + 1

-----------------------------------------------------------------------------
(* The store. *)

(* Every UPDATE sets updated_at.                                            *)
Touched(r) == [r EXCEPT !.old = FALSE]

WriteRun(k, r) == run' = [run EXCEPT ![k] = r]

Active == {k \in Keys : run[k].status \in ActiveStatuses}

ActiveOf(t) == {k \in Active : TenantOf[k] = t}

AtCapacityOfRunning(k) ==
    \/ /\ MaxActive > 0
       /\ Cardinality({j \in Active : run[j].status # "submitting"}) >= MaxActive
    \/ /\ MaxActivePerTenant > 0
       /\ Cardinality(ActiveOf(TenantOf[k])) >= MaxActivePerTenant

(* reserve: replay and conflict come before capacity, and both leave the    *)
(* table alone.                                                             *)
AtCapacity(k) ==
    \/ MaxActive > 0 /\ Cardinality(Active) >= MaxActive
    \/ /\ MaxActivePerTenant > 0
       /\ Cardinality(ActiveOf(TenantOf[k])) >= MaxActivePerTenant

ReservableAfterFailure(k) ==
    run[k].status \in {"absent", "failed", "submission-ambiguous"}

Reservable(k) == run[k].status = "absent"

Reserve(k) ==
    /\ Reservable(k)
    /\ ~ AtCapacity(k)
    /\ WriteRun(k, [AbsentRow EXCEPT !.status = "submitting"])

Attached(r) == r.session /\ r.status = "running"

AttachAmbiguousToo(k) ==
    /\ run[k].status \in {"submitting", "submission-ambiguous", "running"}
    /\ WriteRun(k, Touched([run[k] EXCEPT !.status = "running", !.session = TRUE]))

AttachSession(k) ==
    \/ /\ run[k].status = "submitting"
       /\ WriteRun(k, Touched([run[k] EXCEPT !.status = "running", !.session = TRUE]))
    \/ Attached(run[k]) /\ UNCHANGED run

CanAttach(k) == run[k].status = "submitting" \/ Attached(run[k])

BindSubmissionSession(k) ==
    /\ run[k].status = "submitting"
    /\ WriteRun(k, Touched([run[k] EXCEPT !.session = TRUE]))

(* Only a reservation that is still submitting; otherwise the row is        *)
(* returned as it is.                                                       *)
MarkSubmissionAmbiguous(k) ==
    WriteRun(k, IF run[k].status = "submitting"
                THEN Touched([run[k] EXCEPT !.status = "submission-ambiguous",
                                            !.failure = TRUE])
                ELSE run[k])

MarkSubmissionFailed(k) ==
    /\ run[k].status = "submitting"
    /\ WriteRun(k, Touched([run[k] EXCEPT !.status = "failed", !.failure = TRUE]))

CanRequestCancellation(k) ==
    ~ run[k].cancel /\ run[k].status \notin Terminal

Cancelled(r) ==
    Touched([r EXCEPT !.status = "cancelled", !.result = "none", !.failure = FALSE])

MarkCancelled(k) ==
    WriteRun(k, IF run[k].status # "cancelled" THEN Cancelled(run[k]) ELSE run[k])

NextStatusAlwaysMoves(r, p) ==
    IF r.status \in Terminal THEN r.status ELSE p.status

(* updateProjection, on the locked row: an older page is ignored, a terminal*)
(* status stays, and a pending cancellation lets usage through but neither  *)
(* a result nor another status than cancelled.                              *)
NextStatus(r, p) ==
    IF r.status \in Terminal \/ (r.cancel /\ p.status # "cancelled")
    THEN r.status ELSE p.status

ProjectedLastWriterWins(r, p) ==
    LET status == NextStatus(r, p)
        muted  == r.cancel \/ status = "cancelled"
    IN  Touched([r EXCEPT !.status  = status,
                          !.count   = p.count,
                          !.steps   = p.steps,
                          !.result  = IF muted THEN "none" ELSE p.result,
                          !.failure = ~ muted /\ p.failure])

Projected(r, p) ==
    LET status == NextStatus(r, p)
        muted  == r.cancel \/ status = "cancelled"
        new    == [r EXCEPT !.status  = status,
                            !.count   = p.count,
                            !.steps   = p.steps,
                            !.result  = IF muted THEN "none" ELSE p.result,
                            !.failure = ~ muted /\ p.failure]
    IN  IF r.count > p.count \/ new = r THEN r ELSE Touched(new)

-----------------------------------------------------------------------------
(* The Eve session. *)

Emit(k, e, state) ==
    /\ Len(eve[k].log) < MaxEvents
    /\ eve' = [eve EXCEPT ![k].log = Append(@, e), ![k].state = state]

EveCreated(k) ==
    /\ eve' = [eve EXCEPT ![k] = [state |-> "live", log |-> <<>>, stop |-> FALSE]]
    /\ starts' = [starts EXCEPT ![k] = @ + 1]

(* A terminal reset by session id; it may leave a last event.               *)
EveReset(k) ==
    IF eve[k].state \in {"none", "gone"} THEN UNCHANGED eve
    ELSE \E tail \in {<<>>, <<"turn.failed">>, <<"session.completed">>} :
            eve' = [eve EXCEPT ![k].state = "gone", ![k].log = @ \o tail]

InTurn(k) == eve[k].state \in {"live", "asking", "parked"}

EveStep(k) ==
    /\ \/ /\ eve[k].state = "live"
          /\ \E e \in {"step.completed", "message.completed", "result.completed"} :
                Emit(k, e, "live")
       \/ /\ eve[k].state = "live"
          /\ \E e \in {"input.requested", "authorization.required"} : Emit(k, e, "asking")
       \/ eve[k].state = "asking" /\ Emit(k, "session.waiting", "parked")
       \/ /\ eve[k].state = "parked"       \* answered, or authorized
          /\ Emit(k, IF eve[k].log[Len(eve[k].log) - 1] = "input.requested"
                     THEN "turn.started" ELSE "authorization.completed", "live")
       \/ eve[k].state = "live" /\ Emit(k, "session.waiting", "idle")
       \/ eve[k].state = "live" /\ Emit(k, "turn.failed", "ending")
       \/ InTurn(k) /\ eve[k].stop /\ Emit(k, "turn.cancelled", "ending")
       \/ eve[k].state = "ending" /\ Emit(k, "session.waiting", "idle")
    /\ UNCHANGED <<run, elapsed, starter, poller, recon, starts, faults>>

-----------------------------------------------------------------------------
(* startAgentRun, call s. *)

KeyOf(s) == starter[s].key

StarterAt(s, pc) == starter' = [starter EXCEPT ![s].pc = pc, ![s].tries = 0]

StarterDone(s) == starter' = [starter EXCEPT ![s] = IdleStarter]

OtherThanStart == <<elapsed, poller, recon>>

Reserves(s) ==
    /\ starter[s].pc = "idle"
    /\ \E k \in Keys :
          /\ Reserve(k)
          /\ starter' = [starter EXCEPT ![s] = [pc |-> "start", key |-> k, tries |-> 0]]
    /\ UNCHANGED <<OtherThanStart, eve, starts, faults>>

StartAccepted(s) ==
    /\ starter[s].pc = "start"
    /\ EveCreated(KeyOf(s))
    /\ StarterAt(s, "attach")
    /\ UNCHANGED <<OtherThanStart, run, faults>>

(* A 4xx is definitive; anything else may have created the session.         *)
StartRejected(s) ==
    /\ starter[s].pc = "start"
    /\ StarterAt(s, "reject")
    /\ UNCHANGED <<OtherThanStart, run, eve, starts, faults>>

StartUnknown(s) ==
    /\ starter[s].pc = "start"
    /\ Fault
    /\ EveCreated(KeyOf(s)) \/ UNCHANGED <<eve, starts>>
    /\ StarterAt(s, "unknown")
    /\ UNCHANGED <<OtherThanStart, run>>

RejectionRecorded(s) ==
    /\ starter[s].pc = "reject"
    /\ \/ MarkSubmissionFailed(KeyOf(s))
       \/ run[KeyOf(s)].status # "submitting" /\ UNCHANGED run    \* throws
    /\ StarterDone(s)
    /\ UNCHANGED <<OtherThanStart, eve, starts, faults>>

Attaches(s) ==
    /\ starter[s].pc = "attach"
    /\ AttachSession(KeyOf(s))
    /\ StarterDone(s)
    /\ UNCHANGED <<OtherThanStart, eve, starts, faults>>

(* The row has moved on, or the call failed before or after its commit.     *)
AttachFails(s) ==
    /\ starter[s].pc = "attach"
    /\ \/ ~ CanAttach(KeyOf(s)) /\ UNCHANGED <<run, faults>>
       \/ Fault /\ (AttachSession(KeyOf(s)) \/ UNCHANGED run)
    /\ IF starter[s].tries + 1 < AttachAttempts
       THEN starter' = [starter EXCEPT ![s].tries = @ + 1]
       ELSE StarterAt(s, "bind")
    /\ UNCHANGED <<OtherThanStart, eve, starts>>

(* An attach whose response was lost shows up here as a running row.        *)
BindFindsRunning(s) ==
    /\ starter[s].pc = "bind"
    /\ Attached(run[KeyOf(s)])
    /\ StarterDone(s)
    /\ UNCHANGED <<OtherThanStart, run, eve, starts, faults>>

Binds(s) ==
    /\ starter[s].pc = "bind"
    /\ \/ BindSubmissionSession(KeyOf(s)) /\ UNCHANGED faults
       \/ ~ CanAttach(KeyOf(s)) /\ UNCHANGED <<run, faults>>
       \/ Fault /\ (BindSubmissionSession(KeyOf(s)) \/ UNCHANGED run)
    /\ StarterAt(s, "cleanup")
    /\ UNCHANGED <<OtherThanStart, eve, starts>>

CleansUp(s) ==
    /\ starter[s].pc = "cleanup"
    /\ EveReset(KeyOf(s))
    /\ StarterAt(s, "mark")
    /\ UNCHANGED <<OtherThanStart, run, starts, faults>>

(* After the last attempt the reservation is left as it is.                 *)
CleanupFails(s) ==
    /\ starter[s].pc = "cleanup"
    /\ Fault
    /\ IF starter[s].tries + 1 < CleanupAttempts
       THEN starter' = [starter EXCEPT ![s].tries = @ + 1]
       ELSE StarterDone(s)
    /\ UNCHANGED <<OtherThanStart, run, eve, starts>>

MarksAmbiguous(s) ==
    /\ starter[s].pc \in {"unknown", "mark"}
    /\ MarkSubmissionAmbiguous(KeyOf(s))
    /\ StarterDone(s)
    /\ UNCHANGED <<OtherThanStart, eve, starts, faults>>

(* The process dies, or its last write fails.                               *)
StarterDies(s) ==
    /\ starter[s].pc # "idle"
    /\ Fault
    /\ StarterDone(s)
    /\ UNCHANGED <<OtherThanStart, run, eve, starts>>

StarterStep(s) ==
    \/ Reserves(s) \/ StartAccepted(s) \/ StartRejected(s) \/ StartUnknown(s)
    \/ RejectionRecorded(s) \/ Attaches(s) \/ AttachFails(s)
    \/ BindFindsRunning(s) \/ Binds(s) \/ CleansUp(s) \/ CleanupFails(s)
    \/ MarksAmbiguous(s) \/ StarterDies(s)

-----------------------------------------------------------------------------
(* inspectAgentRun, readAgentRunEvents and cancelAgentRun, call p. *)

RunOf(p) == poller[p].key

PollerAt(p, pc) == poller' = [poller EXCEPT ![p].pc = pc]

PollerDone(p) == poller' = [poller EXCEPT ![p] = IdlePoller]

OtherThanPoll == <<starter, recon, starts>>

(* findOwned; everything below works on this copy of the row.               *)
Looks(p, k, pc) ==
    /\ poller[p].pc = "idle"
    /\ run[k].session
    /\ run[k].status \notin Terminal
    /\ poller' = [poller EXCEPT ![p] =
                    [pc |-> pc, key |-> k, rec |-> run[k], page |-> 0]]
    /\ UNCHANGED <<OtherThanPoll, run, elapsed, eve, faults>>

Inspects(p) == \E k \in Keys : Looks(p, k, "read")

(* A second cancellation only waits and synchronizes.                       *)
AsksToCancel(p) ==
    \E k \in Keys : Looks(p, k, IF run[k].cancel THEN "read" ELSE "stamp")

Stamps(p) ==
    LET k == RunOf(p)
    IN  /\ poller[p].pc = "stamp"
        /\ IF CanRequestCancellation(k)
           THEN WriteRun(k, Touched([run[k] EXCEPT !.cancel = TRUE]))
           ELSE UNCHANGED run
        /\ IF run[k].status \in Terminal
           THEN PollerDone(p)
           ELSE poller' = [poller EXCEPT ![p].pc = "stop", ![p].rec = run'[k]]
        /\ UNCHANGED <<OtherThanPoll, elapsed, eve, faults>>

(* runtime.cancel: accepted, or no_active_turn.                             *)
Stops(p) ==
    /\ poller[p].pc = "stop"
    /\ eve' = [eve EXCEPT ![RunOf(p)].stop = @ \/ InTurn(RunOf(p))]
    /\ PollerAt(p, "read")
    /\ UNCHANGED <<OtherThanPoll, run, elapsed, faults>>

(* readEvents from the copy's eventCount, a bounded page.                   *)
Reads(p) ==
    LET new  == Len(eve[RunOf(p)].log) - poller[p].rec.count
        page == IF new < PageSize THEN new ELSE PageSize
    IN  /\ poller[p].pc = "read"
        /\ poller' = [poller EXCEPT ![p].page = page,
                                    ![p].pc = IF page = 0 THEN "grace" ELSE "project"]
        /\ UNCHANGED <<OtherThanPoll, run, elapsed, eve, faults>>

PageOf(p) ==
    LET from == poller[p].rec.count
    IN  SubSeq(eve[RunOf(p)].log, from + 1, from + poller[p].page)

Projects(p) ==
    LET k == RunOf(p)
    IN  /\ poller[p].pc = "project"
        /\ WriteRun(k, Projected(run[k], Project(poller[p].rec, PageOf(p))))
        /\ poller' = [poller EXCEPT ![p].rec = run'[k], ![p].page = 0, ![p].pc = "grace"]
        /\ UNCHANGED <<OtherThanPoll, elapsed, eve, faults>>

OverdueWhileRunning(p) ==
    /\ poller[p].rec.status = "running"
    /\ poller[p].rec.cancel
    /\ elapsed[RunOf(p)]

Overdue(p) ==
    /\ poller[p].rec.status # "cancelled"
    /\ poller[p].rec.cancel
    /\ elapsed[RunOf(p)]

ResetsAfterGrace(p) ==
    /\ poller[p].pc = "grace"
    /\ Overdue(p)
    /\ EveReset(RunOf(p))
    /\ PollerAt(p, "markCancelled")
    /\ UNCHANGED <<OtherThanPoll, run, elapsed, faults>>

Synchronized(p) ==
    /\ poller[p].pc = "grace"
    /\ ~ Overdue(p)
    /\ PollerDone(p)
    /\ UNCHANGED <<OtherThanPoll, run, elapsed, eve, faults>>

MarksCancelled(p) ==
    /\ poller[p].pc = "markCancelled"
    /\ MarkCancelled(RunOf(p))
    /\ PollerDone(p)
    /\ UNCHANGED <<OtherThanPoll, elapsed, eve, faults>>

(* The process dies, or a call to Eve or to the database throws.            *)
PollerDies(p) ==
    /\ poller[p].pc # "idle"
    /\ Fault
    /\ PollerDone(p)
    /\ UNCHANGED <<OtherThanPoll, run, elapsed, eve>>

PollerProceeds(p) ==
    \/ Stamps(p) \/ Stops(p) \/ Reads(p) \/ Projects(p)
    \/ ResetsAfterGrace(p) \/ Synchronized(p) \/ MarksCancelled(p)

-----------------------------------------------------------------------------
(* reconcileStaleSubmissions, one candidate at a time. *)

OtherThanRecon == <<elapsed, starter, poller, starts>>

ListsStaleUnbound ==
    /\ recon.pc = "idle"
    /\ \E k \in Keys :
          /\ run[k].status = "submitting"
          /\ run[k].old
          /\ ~ run[k].session
          /\ recon' = [pc |-> "mark", key |-> k, session |-> FALSE]
    /\ UNCHANGED <<OtherThanRecon, run, eve, faults>>

(* listStaleSubmissions; the session id acted upon is the listed one.       *)
ListsStale ==
    /\ recon.pc = "idle"
    /\ \E k \in Keys :
          /\ run[k].status = "submitting"
          /\ run[k].old
          /\ recon' = [pc |-> IF run[k].session THEN "reset" ELSE "mark",
                       key |-> k, session |-> run[k].session]
    /\ UNCHANGED <<OtherThanRecon, run, eve, faults>>

ReconcilerResets ==
    /\ recon.pc = "reset"
    /\ EveReset(recon.key)
    /\ recon' = [recon EXCEPT !.pc = "mark"]
    /\ UNCHANGED <<OtherThanRecon, run, faults>>

ReconcilerMarks ==
    /\ recon.pc = "mark"
    /\ MarkSubmissionAmbiguous(recon.key)
    /\ recon' = IdleRecon
    /\ UNCHANGED <<OtherThanRecon, eve, faults>>

(* The candidate is counted as a failure and left for the next pass.        *)
ReconcilerFails ==
    /\ recon.pc # "idle"
    /\ Fault
    /\ recon' = IdleRecon
    /\ UNCHANGED <<OtherThanRecon, run, eve>>

ReconcilerStep == ListsStale \/ ReconcilerResets \/ ReconcilerMarks

-----------------------------------------------------------------------------
(* Time. *)

GraceElapses(k) ==
    /\ run[k].cancel /\ ~ elapsed[k]
    /\ elapsed' = [elapsed EXCEPT ![k] = TRUE]
    /\ UNCHANGED <<run, eve, starter, poller, recon, starts, faults>>

(* Only a reservation's age is ever compared.                               *)
SubmissionAges(k) ==
    /\ run[k].status = "submitting" /\ ~ run[k].old
    /\ WriteRun(k, [run[k] EXCEPT !.old = TRUE])
    /\ UNCHANGED <<elapsed, eve, starter, poller, recon, starts, faults>>

-----------------------------------------------------------------------------

Next ==
    \/ \E k \in Keys : EveStep(k) \/ GraceElapses(k) \/ SubmissionAges(k)
    \/ \E s \in Starters : StarterStep(s)
    \/ \E p \in Pollers :
          Inspects(p) \/ AsksToCancel(p) \/ PollerProceeds(p) \/ PollerDies(p)
    \/ ReconcilerStep \/ ReconcilerFails

Spec == Init /\ [][Next]_vars

(* Grace and age are wall-clock times, the reconciler is a process that     *)
(* polls for ever, a synchronization that began runs to its end, and the    *)
(* host goes on inspecting a run it has not seen settle.  Nothing is        *)
(* assumed of Eve or of start calls.                                        *)
Fairness ==
    /\ \A k \in Keys : WF_vars(GraceElapses(k)) /\ WF_vars(SubmissionAges(k))
    /\ \A p \in Pollers : WF_vars(Inspects(p)) /\ WF_vars(PollerProceeds(p))
    /\ WF_vars(ReconcilerStep)

FairSpec == Spec /\ Fairness

-----------------------------------------------------------------------------
(* Properties *)

(* However start calls race, crash and are retried with the same idempotency *)
(* key, and whatever the reconciler concludes, one Eve session is created    *)
(* for a run (reserve against markSubmissionFailed and                       *)
(* markSubmissionAmbiguous).                                                 *)
AtMostOneStart == \A k \in Keys : starts[k] <= 1

(* The limits on active runs, counted over the table at any time and not     *)
(* only when a run is reserved: no later transition makes a settled run      *)
(* active again (the counts of reserve).                                     *)
CapacityBound ==
    /\ MaxActive > 0 => Cardinality(Active) <= MaxActive
    /\ MaxActivePerTenant > 0 =>
         \A t \in Tenants : Cardinality(ActiveOf(t)) <= MaxActivePerTenant

(* A verdict is never revised, by no late page, late attach, second          *)
(* cancellation or reconciliation; an ambiguous submission may only turn     *)
(* out to be cancelled (updateProjection, markCancelled, attachSession).     *)
TerminalIsFinal ==
    [][\A k \in Keys :
         run[k].status \in Terminal =>
            \/ run'[k].status = run[k].status
            \/ run[k].status = "submission-ambiguous" /\ run'[k].status = "cancelled"]_vars

(* Once cancellation was requested, no result is published any more, nor is  *)
(* the run reported completed: late output counts as usage only              *)
(* (updateProjection, markCancelled).                                        *)
CancelledPublishesNothing ==
    \A k \in Keys :
        /\ run[k].cancel => run[k].status # "completed"
        /\ run[k].status = "cancelled" => run[k].result = "none" /\ ~ run[k].failure

Prefix(k, n) == ProjectAll(SubSeq(eve[k].log, 1, n))

(* However concurrent calls split the stream into pages, and in whichever    *)
(* order their writes arrive, the row is the projection of the first count   *)
(* events read in one go, and a verdict the projection of an earlier prefix: *)
(* no event is counted twice or skipped (updateProjection's comparison of    *)
(* event counts).                                                            *)
ProjectionExact ==
    \A k \in Keys :
        LET r == run[k]
        IN  /\ r.count <= Len(eve[k].log)
            /\ r.steps = Prefix(k, r.count).steps
            /\ r.count > 0 /\ ~ r.cancel /\ r.status # "submission-ambiguous"
                 => /\ \E n \in 0..r.count :
                          /\ n = r.count \/ r.status \in Terminal
                          /\ r.status = Prefix(k, n).status
                    /\ r.status # "cancelled" => r.result = Prefix(k, r.count).result

(* A requested cancellation ends, even if the call that requested it died    *)
(* before, between or after reaching Eve (the reset of synchronizeAgentRun). *)
CancellationSettles ==
    \A k \in Keys : run[k].cancel ~> run[k].status \in Terminal

(* No reservation stays in submitting for ever, wherever its start call died *)
(* (reconcileStaleSubmissions).                                              *)
StaleSubmissionSettles ==
    \A k \in Keys : run[k].status = "submitting" ~> run[k].status # "submitting"

=============================================================================
