--------------------------- MODULE AgentRunProofs ---------------------------
(***************************************************************************)
(* Theorems about AgentRuns (AgentRun) and the answers to their requests    *)
(* (AgentRunInput), for any number of runs, tenants, calls, events, pages   *)
(* and faults.                                                              *)
(***************************************************************************)
EXTENDS AgentRunInput, DataInduction, SequenceTheorems

-----------------------------------------------------------------------------
(* The inductive invariant behind the safety properties of the table.       *)

(* A run without a start has no session; a cancellation is only asked of a  *)
(* run with a session, and such a run neither completes nor fails any more; *)
(* what has been projected was in the stream.                               *)
RowInv(r, born, e) ==
    /\ born <= 1
    /\ born = 0 => e.state = "none" /\ e.log = <<>>
    /\ r.status = "absent" => born = 0 /\ ~ r.session
    /\ r.count <= Len(e.log)
    /\ ~ r.session => r.count = 0 /\ ~ r.cancel
    /\ r.cancel => r.status \in ActiveStatuses \cup {"cancelled", "submission-ambiguous"}
    /\ r.status = "cancelled" => r.result = "none" /\ ~ r.failure

(* A start call works on a run that is reserved, and as long as it holds no *)
(* session nobody else has bound one to the run.                            *)
CallInv(c, r, born) ==
    c.pc # "idle" =>
        /\ r.status # "absent"
        /\ c.pc = "start" => born = 0
        /\ c.pc \in {"start", "reject", "unknown"} => ~ r.session

(* The copy of the row an inspection works on: an older row of a run with a *)
(* session, not settled when its events are read, and a page of events that *)
(* are still in the stream.                                                 *)
CopyInv(c, r, e) ==
    c.pc # "idle" =>
        /\ r.session
        /\ c.rec.status # "absent"
        /\ c.rec.cancel => r.cancel
        /\ c.rec.count + c.page <= Len(e.log)
        /\ c.pc # "project" => c.page = 0
        /\ c.pc \in {"stamp", "stop", "read", "project"} => c.rec.status \in ActiveStatuses
        /\ c.pc = "markCancelled" => c.rec.cancel

Rows == \A k \in Keys : RowInv(run[k], starts[k], eve[k])

StartCalls == \A s \in Starters : CallInv(starter[s], run[KeyOf(s)], starts[KeyOf(s)])

(* A key is claimed by one start call.                                      *)
OneCall ==
    \A s, r \in Starters :
        starter[s].pc # "idle" /\ starter[r].pc # "idle" /\ KeyOf(s) = KeyOf(r) => s = r

Copies == \A p \in Pollers : CopyInv(poller[p], run[RunOf(p)], eve[RunOf(p)])

Listed == recon.pc # "idle" => run[recon.key].status # "absent"

RunInv == TypeOK /\ Rows /\ StartCalls /\ OneCall /\ Copies /\ Listed

-----------------------------------------------------------------------------
(* The projection: the recursion over a page has a value, of the type of    *)
(* the record it starts from.                                               *)

Flags(T) == [p : T, cancelled : BOOLEAN, input : BOOLEAN, auth : BOOLEAN]

Reported ==
    {"running", "waiting-input", "waiting-authorization", "completed", "failed",
     "cancelled"}

IsFold(f, p, page, m) ==
    f = [n \in 0..m |-> IF n = 0 THEN Begin(p) ELSE Apply(f[n - 1], page[n])]

(* For every length m there is a fold of the first m events of a page.      *)
LEMMA FoldExists ==
    ASSUME NEW p, NEW page, NEW m \in Nat
    PROVE  \E f : IsFold(f, p, page, m)
<1> DEFINE Missing == {n \in Nat : ~ \E f : IsFold(f, p, page, n)}
<1> SUFFICES ASSUME Missing # {} PROVE FALSE
  OBVIOUS
<1>1. PICK n \in Missing : \A i \in Missing : n <= i
  <2> HIDE DEF Missing
  <2> QED BY LeastNatural DEF Missing
<1>2. n # 0
  <2>1. IsFold([i \in 0..0 |-> Begin(p)], p, page, 0)
    BY DEF IsFold
  <2> QED BY <2>1
<1>3. PICK f : IsFold(f, p, page, n - 1)
  BY <1>1, <1>2
<1> DEFINE g == [i \in 0..n |-> IF i = n THEN Apply(f[n - 1], page[n]) ELSE f[i]]
<1>4. \A i \in 0..n : g[i] = IF i = 0 THEN Begin(p) ELSE Apply(g[i - 1], page[i])
  BY <1>2, <1>3 DEF IsFold
<1>5. IsFold(g, p, page, n)
  BY <1>4 DEF IsFold
<1> QED BY <1>5

(* The fold of a page, event by event.                                      *)
LEMMA AccumulatedUnfolds ==
    ASSUME NEW p, NEW page, Len(page) \in Nat
    PROVE  /\ Accumulated(p, page)[0] = Begin(p)
           /\ \A n \in 1..Len(page) :
                 Accumulated(p, page)[n] = Apply(Accumulated(p, page)[n - 1], page[n])
<1>1. PICK f : IsFold(f, p, page, Len(page))
  BY FoldExists
<1>2. IsFold(Accumulated(p, page), p, page, Len(page))
  BY <1>1 DEF IsFold, Accumulated
<1> DEFINE a == Accumulated(p, page)
<1> HIDE DEF a
<1>3. a = [n \in 0..Len(page) |-> IF n = 0 THEN Begin(p) ELSE Apply(a[n - 1], page[n])]
  BY <1>2 DEF IsFold, a
<1>4. /\ a[0] = Begin(p)
      /\ \A n \in 1..Len(page) : a[n] = Apply(a[n - 1], page[n])
  BY <1>3
<1> QED BY <1>4 DEF a

(* One event keeps the row of a projection well typed.                      *)
LEMMA ApplyType ==
    ASSUME NEW a \in Flags(RowType), a.p.status \in Reported, NEW e \in Events
    PROVE  Apply(a, e) \in Flags(RowType) /\ Apply(a, e).p.status \in Reported
<1> USE DEF Flags, RowType, Reported, RunStatuses, Results
<1>1. CASE e = "turn.started"
  BY <1>1 DEF Apply, Undecided
<1>2. CASE e = "input.requested"
  BY <1>2 DEF Apply
<1>3. CASE e = "authorization.required"
  BY <1>3 DEF Apply
<1>4. CASE e = "authorization.completed"
  BY <1>4 DEF Apply
<1>5. CASE e = "result.completed"
  BY <1>5 DEF Apply
<1>6. CASE e = "message.completed"
  BY <1>6 DEF Apply
<1>7. CASE e = "step.completed"
  BY <1>7 DEF Apply
<1>8. CASE e = "turn.cancelled"
  BY <1>8 DEF Apply
<1>9. CASE e = "turn.failed"
  BY <1>9 DEF Apply
<1>10. CASE e = "session.completed"
  BY <1>10 DEF Apply, Undecided
<1>11. CASE e = "session.waiting"
  BY <1>11 DEF Apply, Parked
<1> QED BY <1>1, <1>2, <1>3, <1>4, <1>5, <1>6, <1>7, <1>8, <1>9, <1>10, <1>11 DEF Events

(* The accumulators of a page are well typed.                               *)
LEMMA AccumulatedType ==
    ASSUME NEW r \in RowType, r.status \in ActiveStatuses, NEW page \in Seq(Events),
           NEW n \in 0..Len(page)
    PROVE  /\ Accumulated(r, page)[n] \in Flags(RowType)
           /\ Accumulated(r, page)[n].p.status \in Reported
<1> DEFINE a == Accumulated(r, page)
           Good(m) == a[m] \in Flags(RowType) /\ a[m].p.status \in Reported
           Bad == {m \in 0..Len(page) : ~ Good(m)}
<1>1. Len(page) \in Nat /\ \A m \in 1..Len(page) : page[m] \in Events
  OBVIOUS
<1>2. /\ a[0] = Begin(r)
      /\ \A m \in 1..Len(page) : a[m] = Apply(a[m - 1], page[m])
  BY <1>1, AccumulatedUnfolds
<1>3. Begin(r) \in Flags(RowType) /\ Begin(r).p.status \in Reported
  BY DEF Begin, Flags, RowType, ActiveStatuses, Reported, RunStatuses
<1> HIDE DEF a
<1> SUFFICES ASSUME Bad # {} PROVE FALSE
  BY DEF a
<1>4. PICK m \in Bad : \A i \in Bad : m <= i
  <2>1. Bad \subseteq Nat
    BY <1>1
  <2> HIDE DEF Bad
  <2> QED BY <2>1, LeastNatural
<1>5. m \in 1..Len(page) /\ m - 1 \in 0..Len(page) /\ ~ (m <= m - 1)
  BY <1>1, <1>2, <1>3, <1>4
<1>6. Good(m - 1)
  BY <1>4, <1>5
<1>7. Good(m)
  BY <1>1, <1>2, <1>5, <1>6, ApplyType
<1> QED BY <1>4, <1>7

(* A projected row is well typed, reports a status, and counts the page.    *)
LEMMA ProjectType ==
    ASSUME NEW r \in RowType, r.status \in ActiveStatuses, NEW page \in Seq(Events)
    PROVE  /\ Project(r, page) \in RowType
           /\ Project(r, page).status \in Reported
           /\ Project(r, page).count = r.count + Len(page)
<1> DEFINE a == Accumulated(r, page)[Len(page)]
<1>1. Len(page) \in Nat /\ Len(page) \in 0..Len(page)
  OBVIOUS
<1>2. a \in Flags(RowType) /\ a.p.status \in Reported
  BY <1>1, AccumulatedType
<1> HIDE DEF a
<1>3. Project(r, page) = [a.p EXCEPT !.count = r.count + Len(page)]
  BY DEF Project, a
<1> QED BY <1>1, <1>2, <1>3 DEF Flags, RowType

-----------------------------------------------------------------------------
(* Init, and the steps of a start call. *)

(* No run, no session and no call at the start.                             *)
LEMMA RunInvInit == Init => RunInv
<1> SUFFICES ASSUME Init PROVE RunInv
  OBVIOUS
<1>0. AnyKey \in Keys
  BY RunConstants DEF AnyKey
<1>1. TypeOK
  BY <1>0, RunConstants
  DEF Init, TypeOK, SessionType, StarterType, PollerType, AbsentRow, RowType, RunStatuses, Results, EveStates,
      IdleStarter, IdlePoller, IdleRecon
<1>2. Rows
  BY DEF Init, Rows, RowInv, AbsentRow
<1>3. StartCalls /\ OneCall
  BY DEF Init, StartCalls, CallInv, OneCall, IdleStarter
<1>4. Copies /\ Listed
  BY DEF Init, Copies, CopyInv, Listed, IdlePoller, IdleRecon
<1> QED BY <1>1, <1>2, <1>3, <1>4 DEF RunInv

-----------------------------------------------------------------------------
(* Frames: a step concerns one run, and one call of one kind. *)

(* A verdict is never revised; an ambiguous one only by a cancellation.     *)
Final(r, rr) ==
    r.status \in Terminal =>
        rr.status = r.status \/ (r.status = "submission-ambiguous" /\ rr.status = "cancelled")

(* What every step does to the row and the stream of its run.               *)
Later(r, e, rr, ee) ==
    /\ r.status # "absent" => rr.status # "absent"
    /\ r.session => rr.session
    /\ r.cancel => rr.cancel
    /\ Final(r, rr)
    /\ Len(e.log) <= Len(ee.log)

Moves(k) ==
    /\ \A j \in Keys \ {k} : run'[j] = run[j] /\ eve'[j] = eve[j] /\ starts'[j] = starts[j]
    /\ Later(run[k], eve[k], run'[k], eve'[k])
    /\ RowInv(run'[k], starts'[k], eve'[k])

(* A step moves one run, which exists unless it is reserved, or no row.     *)
Progress ==
    \/ \E k \in Keys : Moves(k) /\ (run[k].status # "absent" \/ Reserve(k))
    \/ UNCHANGED run

(* What TypeOK says of the parts that the steps use.                        *)
LEMMA Typed ==
    ASSUME TypeOK
    PROVE  /\ \A k \in Keys : run[k].count \in Nat /\ eve[k].log \in Seq(Events)
                             /\ Len(eve[k].log) \in Nat
           /\ \A s \in Starters : KeyOf(s) \in Keys
           /\ \A p \in Pollers : RunOf(p) \in Keys /\ poller[p].rec \in RowType
                                /\ poller[p].rec.count \in Nat /\ poller[p].page \in Nat
           /\ recon.key \in Keys
<1>1. ASSUME NEW k \in Keys
      PROVE  run[k].count \in Nat /\ eve[k].log \in Seq(Events) /\ Len(eve[k].log) \in Nat
  <2>1. run[k] \in RowType /\ eve[k] \in SessionType
    BY DEF TypeOK
  <2> QED BY <2>1 DEF RowType, SessionType
<1>2. ASSUME NEW p \in Pollers
      PROVE  RunOf(p) \in Keys /\ poller[p].rec \in RowType
             /\ poller[p].rec.count \in Nat /\ poller[p].page \in Nat
  <2>1. poller[p] \in PollerType
    BY DEF TypeOK
  <2> QED BY <2>1, RunConstants DEF RowType, PollerType, RunOf
<1>3. ASSUME NEW s \in Starters PROVE KeyOf(s) \in Keys
  BY DEF TypeOK, StarterType, KeyOf
<1>4. recon.key \in Keys
  BY DEF TypeOK
<1> QED BY <1>1, <1>2, <1>3, <1>4

(* A move of the run of k keeps the invariant of every row.                 *)
LEMMA RowsKept ==
    ASSUME RunInv, NEW k \in Keys, Moves(k)
    PROVE  Rows'
BY DEF RunInv, Moves, Rows

(* A move of the run of k keeps what every poller knows of its run.         *)
LEMMA CopiesKept ==
    ASSUME RunInv, NEW k \in Keys, Moves(k),
           TypeOK',
           \A p \in Pollers : \/ poller'[p] = poller[p]
                              \/ CopyInv(poller'[p], run'[poller'[p].key], eve'[poller'[p].key])
    PROVE  Copies'
<1> SUFFICES ASSUME NEW p \in Pollers, poller'[p] = poller[p]
             PROVE  CopyInv(poller[p], run'[RunOf(p)], eve'[RunOf(p)])
  BY DEF Copies, RunOf
<1> DEFINE j == RunOf(p)
<1>1. j \in Keys /\ CopyInv(poller[p], run[j], eve[j])
  BY Typed DEF RunInv, Copies, RunOf
<1>2. CASE j # k
  BY <1>1, <1>2 DEF Moves
<1>3. CASE j = k
  <2>1. Len(eve[k].log) \in Nat /\ Len(eve'[k].log) \in Nat
    BY SMTT(30), Typed DEF RunInv, SessionType, TypeOK
  <2>2. poller[p].rec.count + poller[p].page \in Nat
    BY Typed DEF RunInv
  <2> QED BY <1>1, <1>3, <2>1, <2>2 DEF Moves, Later, CopyInv
<1> QED BY <1>2, <1>3

(* A call that begins finds its run claimed by nobody else.                 *)
LEMMA StartCallsKept ==
    ASSUME RunInv, NEW k \in Keys, Moves(k), TypeOK',
           NEW s \in Starters,
           \A r \in Starters \ {s} : starter'[r] = starter[r],
           starter'[s].pc = "idle" \/ starter'[s].key = k,
           \A r \in Starters \ {s} : starter[r].pc # "idle" => KeyOf(r) # k,
           CallInv(starter'[s], run'[k], starts'[k])
    PROVE  StartCalls' /\ OneCall'
<1>1. ASSUME NEW r \in Starters
      PROVE  CallInv(starter'[r], run'[starter'[r].key], starts'[starter'[r].key])
  <2>1. CASE r = s
    BY <2>1 DEF CallInv
  <2>2. CASE r # s
    <3>1. starter'[r] = starter[r] /\ KeyOf(r) \in Keys
      BY <2>2, Typed DEF RunInv
    <3>2. CASE starter[r].pc = "idle"
      BY <3>1, <3>2 DEF CallInv
    <3>3. CASE KeyOf(r) # k
      BY <3>1, <3>3 DEF RunInv, StartCalls, Moves, KeyOf
    <3> QED BY <2>2, <3>2, <3>3
  <2> QED BY <2>1, <2>2
<1>2. OneCall'
  BY DEF RunInv, OneCall, KeyOf
<1> QED BY <1>1, <1>2 DEF StartCalls, KeyOf

(* A step of another kind binds no session and starts nothing.              *)
LEMMA StartCallsUntouched ==
    ASSUME RunInv, NEW k \in Keys, Moves(k),
           run'[k].session = run[k].session, starts' = starts, starter' = starter
    PROVE  StartCalls' /\ OneCall'
<1>1. ASSUME NEW s \in Starters
      PROVE  CallInv(starter[s], run'[KeyOf(s)], starts[KeyOf(s)])
  <2>1. KeyOf(s) \in Keys /\ CallInv(starter[s], run[KeyOf(s)], starts[KeyOf(s)])
    BY Typed DEF RunInv, StartCalls
  <2>2. CASE KeyOf(s) # k
    BY <2>1, <2>2 DEF Moves
  <2>3. CASE KeyOf(s) = k
    BY <2>1, <2>3 DEF Moves, Later, CallInv
  <2> QED BY <2>2, <2>3
<1> QED BY <1>1 DEF RunInv, StartCalls, OneCall, KeyOf

(* The run that the reconciler works on stays listed.                       *)
LEMMA ListedKept ==
    ASSUME RunInv, NEW k \in Keys, Moves(k), recon' = recon
    PROVE  Listed'
BY Typed DEF RunInv, Listed, Moves, Later

(* A write that keeps the session, the cancel request and a verdict is a move. *)
LEMMA RowWritten ==
    ASSUME RunInv, NEW k \in Keys, NEW r \in RowType, WriteRun(k, r), UNCHANGED <<eve, starts>>,
           run[k].status # "absent" => r.status # "absent",
           run[k].session => r.session,
           run[k].cancel => r.cancel,
           Final(run[k], r),
           RowInv(r, starts[k], eve[k])
    PROVE  run' \in [Keys -> RowType] /\ run'[k] = r /\ Moves(k)
<1>1. run' \in [Keys -> RowType] /\ run'[k] = r /\ \A j \in Keys \ {k} : run'[j] = run[j]
  BY DEF RunInv, TypeOK, WriteRun
<1>2. Len(eve[k].log) \in Nat
  BY Typed DEF RunInv
<1> QED BY <1>1, <1>2 DEF Moves, Later

(* A log that grows under unchanged rows is a move.                         *)
LEMMA OnlySessionMoves ==
    ASSUME RunInv, NEW k \in Keys, UNCHANGED <<run, starts>>,
           eve' \in [Keys -> SessionType],
           \A j \in Keys \ {k} : eve'[j] = eve[j],
           Len(eve[k].log) <= Len(eve'[k].log),
           eve[k].state = "none" => eve' = eve
    PROVE  run' \in [Keys -> RowType] /\ starts' \in [Keys -> Nat] /\ Moves(k)
<1>1. Len(eve[k].log) \in Nat /\ run[k].count \in Nat /\ eve'[k].log \in Seq(Events)
  BY Typed DEF RunInv, SessionType
<1>2. Len(eve'[k].log) \in Nat
  BY <1>1
<1>3. RowInv(run[k], starts[k], eve[k])
  BY DEF RunInv, Rows
<1>4. RowInv(run[k], starts[k], eve'[k])
  BY <1>1, <1>2, <1>3 DEF RowInv
<1> QED BY <1>4 DEF Moves, Later, Final, RunInv, TypeOK

-----------------------------------------------------------------------------
(* The steps of a start call. *)

(* A step of one start call that moves only the run it is about.            *)
LEMMA StartCallFrame ==
    ASSUME RunInv, NEW s \in Starters, starter[s].pc # "idle",
           NEW c \in StarterType, c.pc = "idle" \/ c.key = KeyOf(s),
           starter' = [starter EXCEPT ![s] = c],
           run' \in [Keys -> RowType], eve' \in [Keys -> SessionType],
           starts' \in [Keys -> Nat], faults' \in 0..MaxFaults,
           UNCHANGED OtherThanStart,
           Moves(KeyOf(s)),
           CallInv(c, run'[KeyOf(s)], starts'[KeyOf(s)])
    PROVE  RunInv' /\ Progress
<1>1. TypeOK'
  BY DEF RunInv, TypeOK, OtherThanStart
<1>2. KeyOf(s) \in Keys /\ starter'[s] = c /\ \A r \in Starters \ {s} : starter'[r] = starter[r]
  BY Typed DEF RunInv, TypeOK
<1>3. \A r \in Starters \ {s} : starter[r].pc # "idle" => KeyOf(r) # KeyOf(s)
  BY DEF RunInv, OneCall
<1>4. StartCalls' /\ OneCall'
  BY <1>1, <1>2, <1>3, StartCallsKept
<1>5. Rows' /\ Copies' /\ Listed'
  BY <1>1, <1>2, RowsKept, CopiesKept, ListedKept DEF OtherThanStart
<1>6. run[KeyOf(s)].status # "absent"
  BY DEF RunInv, StartCalls, CallInv
<1> QED BY <1>1, <1>2, <1>4, <1>5, <1>6 DEF RunInv, Progress

(* The reset of a session only appends to its stream.                       *)
LEMMA ResetAppends ==
    ASSUME TypeOK, NEW k \in Keys, EveReset(k)
    PROVE  /\ eve' \in [Keys -> SessionType]
           /\ \A j \in Keys \ {k} : eve'[j] = eve[j]
           /\ Len(eve[k].log) <= Len(eve'[k].log)
           /\ eve[k].state = "none" => eve' = eve
<1>1. CASE UNCHANGED eve
  BY <1>1, Typed DEF TypeOK
<1>2. CASE eve[k].state \notin {"none", "gone"}
  <2>1. PICK tail \in {<<>>, <<"turn.failed">>, <<"session.completed">>} :
            eve' = [eve EXCEPT ![k].state = "gone", ![k].log = @ \o tail]
    BY <1>2 DEF EveReset
  <2>2. tail \in Seq(Events) /\ Len(tail) \in Nat
    <3>1. "turn.failed" \in Events /\ "session.completed" \in Events
      BY DEF Events
    <3>2. <<>> \in Seq(Events) /\ <<"turn.failed">> \in Seq(Events)
          /\ <<"session.completed">> \in Seq(Events)
      BY <3>1
    <3> QED BY <3>2
  <2>3. /\ eve[k].log \o tail \in Seq(Events)
        /\ Len(eve[k].log \o tail) = Len(eve[k].log) + Len(tail)
        /\ Len(eve[k].log) \in Nat
    BY <2>2, Typed
  <2>4. eve[k] \in SessionType
    BY DEF TypeOK
  <2>5. eve' = [eve EXCEPT ![k] = [eve[k] EXCEPT !.state = "gone", !.log = eve[k].log \o tail]]
    BY <2>1 DEF TypeOK
  <2>6. [eve[k] EXCEPT !.state = "gone", !.log = eve[k].log \o tail] \in SessionType
    BY <2>3, <2>4 DEF SessionType, EveStates
  <2>7. eve'[k].log = eve[k].log \o tail
    BY <2>4, <2>5 DEF TypeOK, SessionType
  <2>8. eve' \in [Keys -> SessionType] /\ \A j \in Keys \ {k} : eve'[j] = eve[j]
    BY <2>5, <2>6 DEF TypeOK
  <2>9. Len(eve[k].log) <= Len(eve'[k].log)
    BY <2>2, <2>3, <2>7
  <2> QED BY <2>8, <2>9, <1>2
<1> QED BY <1>1, <1>2 DEF EveReset

(* The reservation: absent, or known and compared by its request hash.      *)
LEMMA ReservesStep ==
    ASSUME RunInv, NEW s \in Starters, Reserves(s)
    PROVE  RunInv' /\ Progress
<1>1. PICK k \in Keys :
        /\ Reserve(k)
        /\ starter' = [starter EXCEPT ![s] = [pc |-> "start", key |-> k, tries |-> 0]]
  BY DEF Reserves
<1>2. starter[s].pc = "idle" /\ UNCHANGED <<OtherThanStart, eve, starts, faults>>
  BY DEF Reserves
<1> DEFINE r == [AbsentRow EXCEPT !.status = "submitting"]
           c == [pc |-> "start", key |-> k, tries |-> 0]
<1>3. r \in RowType /\ r.status = "submitting" /\ ~ r.session /\ ~ r.cancel /\ r.count = 0
  BY DEF AbsentRow, RowType, RunStatuses, Results
<1>4. run[k].status = "absent" /\ WriteRun(k, r)
  BY <1>1 DEF Reserve, Reservable
<1>5. starts[k] = 0 /\ ~ run[k].session /\ ~ run[k].cancel /\ eve[k].log = <<>> /\ eve[k].state = "none"
  BY <1>4 DEF RunInv, Rows, RowInv
<1>6. RowInv(r, starts[k], eve[k])
  BY <1>3, <1>5 DEF RowInv
<1>7. run' \in [Keys -> RowType] /\ run'[k] = r /\ Moves(k)
  <2>1. Final(run[k], r)
    BY <1>4 DEF Final, Terminal
  <2> HIDE DEF r
  <2> QED BY <1>2, <1>3, <1>4, <1>5, <1>6, <2>1, RowWritten
<1>8. c \in StarterType
  BY RunConstants DEF StarterType
<1>9. starter'[s] = c /\ \A t \in Starters \ {s} : starter'[t] = starter[t]
  BY <1>1 DEF RunInv, TypeOK
<1>10. TypeOK'
  BY <1>1, <1>2, <1>7, <1>8 DEF RunInv, TypeOK, OtherThanStart
<1>11. \A t \in Starters \ {s} : starter[t].pc # "idle" => KeyOf(t) # k
  BY <1>4 DEF RunInv, StartCalls, CallInv
<1>12. CallInv(c, run'[k], starts'[k])
  BY <1>2, <1>3, <1>5, <1>7 DEF CallInv
<1>13. StartCalls' /\ OneCall'
  BY <1>7, <1>9, <1>10, <1>11, <1>12, StartCallsKept
<1>14. Rows' /\ Copies' /\ Listed'
  BY <1>2, <1>7, <1>10, RowsKept, CopiesKept, ListedKept DEF OtherThanStart
<1> QED BY <1>1, <1>7, <1>10, <1>13, <1>14 DEF RunInv, Progress

(* What a call that is on its way knows.                                    *)
LEMMA CallKnows ==
    ASSUME RunInv, NEW s \in Starters, starter[s].pc # "idle"
    PROVE  /\ KeyOf(s) \in Keys /\ starter[s] \in StarterType
           /\ run[KeyOf(s)] \in RowType
           /\ RowInv(run[KeyOf(s)], starts[KeyOf(s)], eve[KeyOf(s)])
           /\ CallInv(starter[s], run[KeyOf(s)], starts[KeyOf(s)])
BY Typed DEF RunInv, TypeOK, Rows, StartCalls

(* Eve makes the session of a run that was never started.                   *)
LEMMA EveCreatedMoves ==
    ASSUME RunInv, NEW k \in Keys, EveCreated(k), run' = run,
           run[k].status # "absent", starts[k] = 0
    PROVE  /\ eve' \in [Keys -> SessionType] /\ starts' \in [Keys -> Nat]
           /\ run' \in [Keys -> RowType] /\ Moves(k)
<1> DEFINE e == [state |-> "live", log |-> <<>>, stop |-> FALSE]
<1>1. e \in SessionType
  BY DEF SessionType, EveStates
<1>2. /\ eve' \in [Keys -> SessionType] /\ starts' \in [Keys -> Nat]
      /\ eve'[k] = e /\ starts'[k] = 1
      /\ \A j \in Keys \ {k} : eve'[j] = eve[j] /\ starts'[j] = starts[j]
  BY <1>1 DEF EveCreated, RunInv, TypeOK
<1>3. RowInv(run[k], starts[k], eve[k])
  BY DEF RunInv, Rows
<1>4. eve[k].log = <<>> /\ e.log = <<>>
  BY <1>3 DEF RowInv
<1>5. RowInv(run[k], 1, e)
  BY <1>3, <1>4 DEF RowInv
<1> HIDE DEF e
<1> QED BY <1>2, <1>4, <1>5 DEF Moves, Later, Final, RunInv, TypeOK

(* What a start call and the reconciler do to a row.                        *)
SubmissionWrite(k) ==
    \/ AttachSession(k) \/ BindSubmissionSession(k) \/ MarkSubmissionAmbiguous(k)
    \/ MarkSubmissionFailed(k) /\ ~ run[k].session
    \/ UNCHANGED run

(* A submission row that follows the guards of its statement.               *)
LEMMA SubmissionMoves ==
    ASSUME RunInv, NEW k \in Keys, run[k].status # "absent",
           SubmissionWrite(k), UNCHANGED <<eve, starts>>
    PROVE  run' \in [Keys -> RowType] /\ Moves(k)
<1> DEFINE r == run[k]
<1>1. r \in RowType /\ RowInv(r, starts[k], eve[k]) /\ Len(eve[k].log) \in Nat
  BY Typed DEF RunInv, TypeOK, Rows
<1>2. CASE UNCHANGED run
  BY <1>1, <1>2 DEF RunInv, TypeOK, Moves, Later, Final
<1>3. CASE r.status = "submitting" /\ WriteRun(k, Touched([r EXCEPT !.status = "running", !.session = TRUE]))
  <2> DEFINE n == Touched([r EXCEPT !.status = "running", !.session = TRUE])
  <2>1. n \in RowType /\ n.status = "running" /\ n.session /\ n.cancel = r.cancel /\ n.count = r.count
    BY <1>1 DEF Touched, RowType, RunStatuses
  <2>2. RowInv(n, starts[k], eve[k])
    BY <1>1, <1>3, <2>1 DEF RowInv, ActiveStatuses
  <2>3. WriteRun(k, n) /\ (run[k].session => n.session) /\ Final(r, n)
    BY <1>3, <2>1 DEF Final, Terminal
  <2> HIDE DEF n
  <2> QED BY <1>3, <2>1, <2>2, <2>3, RowWritten
<1>4. CASE r.status = "submitting" /\ WriteRun(k, Touched([r EXCEPT !.session = TRUE]))
  <2> DEFINE n == Touched([r EXCEPT !.session = TRUE])
  <2>1. n \in RowType /\ n.status = r.status /\ n.session /\ n.cancel = r.cancel /\ n.count = r.count
    BY <1>1 DEF Touched, RowType, RunStatuses
  <2>2. RowInv(n, starts[k], eve[k])
    BY <1>1, <1>4, <2>1 DEF RowInv, ActiveStatuses
  <2>3. WriteRun(k, n) /\ (run[k].session => n.session) /\ Final(r, n)
    BY <1>4, <2>1 DEF Final, Terminal
  <2> HIDE DEF n
  <2> QED BY <1>4, <2>1, <2>2, <2>3, RowWritten
<1>5. CASE r.status = "submitting" /\ WriteRun(k, Touched([r EXCEPT !.status = "submission-ambiguous", !.failure = TRUE]))
  <2> DEFINE n == Touched([r EXCEPT !.status = "submission-ambiguous", !.failure = TRUE])
  <2>1. n \in RowType /\ n.status = "submission-ambiguous" /\ n.session = r.session
        /\ n.cancel = r.cancel /\ n.count = r.count
    BY <1>1 DEF Touched, RowType, RunStatuses
  <2>2. RowInv(n, starts[k], eve[k])
    BY <1>1, <1>5, <2>1 DEF RowInv
  <2>3. WriteRun(k, n) /\ (run[k].session => n.session) /\ Final(r, n)
    BY <1>5, <2>1 DEF Final, Terminal
  <2> HIDE DEF n
  <2> QED BY <1>5, <2>1, <2>2, <2>3, RowWritten
<1>6. CASE r.status = "submitting" /\ ~ r.session
           /\ WriteRun(k, Touched([r EXCEPT !.status = "failed", !.failure = TRUE]))
  <2> DEFINE n == Touched([r EXCEPT !.status = "failed", !.failure = TRUE])
  <2>1. n \in RowType /\ n.status = "failed" /\ n.session = r.session
        /\ n.cancel = r.cancel /\ n.count = r.count
    BY <1>1 DEF Touched, RowType, RunStatuses
  <2>2. RowInv(n, starts[k], eve[k])
    BY <1>1, <1>6, <2>1 DEF RowInv
  <2>3. WriteRun(k, n) /\ (run[k].session => n.session) /\ Final(r, n)
    BY <1>6, <2>1 DEF Final, Terminal
  <2> HIDE DEF n
  <2> QED BY <1>6, <2>1, <2>2, <2>3, RowWritten
<1>7. CASE r.status # "submitting" /\ WriteRun(k, r)
  BY <1>1, <1>7, RowWritten DEF Final
<1> QED BY <1>2, <1>3, <1>4, <1>5, <1>6, <1>7
        DEF SubmissionWrite, AttachSession, BindSubmissionSession, MarkSubmissionAmbiguous,
            MarkSubmissionFailed

(* What becomes of the call.                                                *)
TriesAgain(s) ==
    /\ starter[s].pc \in {"attach", "cleanup"}
    /\ starter[s].tries + 1 < AttachAttempts \/ starter[s].tries + 1 < CleanupAttempts
    /\ starter' = [starter EXCEPT ![s].tries = @ + 1]

GoesOn(s) ==
    \/ StarterDone(s)
    \/ TriesAgain(s)
    \/ \E pc \in {"attach", "bind", "cleanup", "mark"} : StarterAt(s, pc)
    \/ /\ \E pc \in {"reject", "unknown"} : StarterAt(s, pc)
       /\ starter[s].pc = "start"
       /\ UNCHANGED run

(* A start call that has ended.                                             *)
LEMMA IdleStarterType == IdleStarter \in StarterType /\ IdleStarter.pc = "idle"
<1>1. AnyKey \in Keys
  BY RunConstants DEF AnyKey
<1> QED BY <1>1, RunConstants DEF IdleStarter, StarterType

(* A start call goes on to another step or ends.                            *)
LEMMA CallGoesOn ==
    ASSUME TypeOK, NEW s \in Starters, GoesOn(s)
    PROVE  \E c \in StarterType :
              /\ starter' = [starter EXCEPT ![s] = c]
              /\ c.pc = "idle" \/ c.key = KeyOf(s)
              /\ c.pc # "start"
              /\ c.pc \in {"reject", "unknown"} => starter[s].pc = "start" /\ UNCHANGED run
<1>1. starter[s] \in StarterType
  BY DEF TypeOK
<1>2. CASE StarterDone(s)
  BY <1>2, IdleStarterType DEF StarterDone
<1>3. CASE TriesAgain(s)
  <2> DEFINE c == [starter[s] EXCEPT !.tries = starter[s].tries + 1]
  <2>1. starter' = [starter EXCEPT ![s] = c]
    BY <1>3 DEF TriesAgain, TypeOK
  <2>2. AttachAttempts \in Nat /\ CleanupAttempts \in Nat /\ AttachAttempts + CleanupAttempts \in Nat
    BY RunConstants
  <2>3. starter[s].tries \in 0..(AttachAttempts + CleanupAttempts)
    BY <1>1 DEF StarterType
  <2>4. starter[s].tries + 1 \in 0..(AttachAttempts + CleanupAttempts)
    BY <1>3, <2>2, <2>3 DEF TriesAgain
  <2>5. starter[s].pc \in {"attach", "cleanup"}
    BY <1>3 DEF TriesAgain
  <2>6. c \in StarterType /\ c.key = KeyOf(s) /\ c.pc = starter[s].pc
    <3> DEFINE n == starter[s].tries + 1
    <3>1. n \in 0..(AttachAttempts + CleanupAttempts)
      BY <2>4
    <3> HIDE DEF n
    <3>2. [starter[s] EXCEPT !.tries = n] \in StarterType
      BY <1>1, <3>1 DEF StarterType
    <3>3. [starter[s] EXCEPT !.tries = n].key = starter[s].key /\ [starter[s] EXCEPT !.tries = n].pc = starter[s].pc
      BY <1>1 DEF StarterType
    <3> QED BY <3>2, <3>3 DEF KeyOf, n
  <2> HIDE DEF c
  <2> QED BY <2>1, <2>5, <2>6
<1>4. ASSUME NEW pc \in {"attach", "bind", "cleanup", "mark", "reject", "unknown"}, StarterAt(s, pc)
      PROVE  \E c \in StarterType : /\ starter' = [starter EXCEPT ![s] = c]
                                   /\ c.key = KeyOf(s) /\ c.pc = pc
  <2> DEFINE c == [starter[s] EXCEPT !.pc = pc, !.tries = 0]
  <2>1. starter' = [starter EXCEPT ![s] = c]
    BY <1>4 DEF StarterAt, TypeOK
  <2>2. c \in StarterType /\ c.key = KeyOf(s) /\ c.pc = pc
    <3> DEFINE Tries == 0..(AttachAttempts + CleanupAttempts)
    <3>1. 0 \in Tries
      BY RunConstants
    <3>2. starter[s] \in [pc : {"idle", "start", "reject", "unknown", "attach", "bind",
                              "cleanup", "mark"}, key : Keys, tries : Tries]
      BY <1>1 DEF StarterType
    <3> HIDE DEF Tries
    <3>3. c \in [pc : {"idle", "start", "reject", "unknown", "attach", "bind",
                     "cleanup", "mark"}, key : Keys, tries : Tries]
      BY <3>1, <3>2
    <3>4. c.key = starter[s].key /\ c.pc = pc
      BY <3>2
    <3> QED BY <3>3, <3>4 DEF StarterType, KeyOf, Tries
  <2> HIDE DEF c
  <2> QED BY <2>1, <2>2
<1>5. CASE \E pc \in {"attach", "bind", "cleanup", "mark"} : StarterAt(s, pc)
  BY <1>4, <1>5
<1>6. CASE /\ \E pc \in {"reject", "unknown"} : StarterAt(s, pc)
           /\ starter[s].pc = "start" /\ UNCHANGED run
  BY <1>4, <1>6
<1> QED BY <1>2, <1>3, <1>5, <1>6 DEF GoesOn

(* A call that goes on with its run: what is left to show of each step.     *)
LEMMA StartCallStep ==
    ASSUME RunInv, NEW s \in Starters, starter[s].pc # "idle",
           \/ /\ UNCHANGED <<eve, starts>>
              /\ SubmissionWrite(KeyOf(s))
           \/ EveCreated(KeyOf(s)) /\ run' = run /\ starter[s].pc = "start"
           \/ EveReset(KeyOf(s)) /\ UNCHANGED <<run, starts>>,
           GoesOn(s),
           faults' = faults \/ Fault, UNCHANGED OtherThanStart
    PROVE  RunInv' /\ Progress
<1> DEFINE k == KeyOf(s)
<1>1. /\ k \in Keys /\ run[k].status # "absent"
      /\ CallInv(starter[s], run[k], starts[k])
  BY CallKnows DEF CallInv
<1>2. PICK c \in StarterType :
              /\ starter' = [starter EXCEPT ![s] = c]
              /\ c.pc = "idle" \/ c.key = k
              /\ c.pc # "start"
              /\ c.pc \in {"reject", "unknown"} => starter[s].pc = "start" /\ UNCHANGED run
  BY CallGoesOn DEF RunInv
<1>3. /\ run' \in [Keys -> RowType] /\ eve' \in [Keys -> SessionType]
      /\ starts' \in [Keys -> Nat] /\ Moves(k)
  <2>1. CASE UNCHANGED <<eve, starts>> /\ SubmissionWrite(k)
    BY <1>1, <2>1, SubmissionMoves DEF RunInv, TypeOK
  <2>2. CASE EveCreated(k) /\ run' = run /\ starter[s].pc = "start"
    BY <1>1, <2>2, EveCreatedMoves DEF CallInv
  <2>3. CASE EveReset(k) /\ UNCHANGED <<run, starts>>
    BY <1>1, <2>3, ResetAppends, OnlySessionMoves DEF RunInv
  <2> QED BY <2>1, <2>2, <2>3
<1>4. CallInv(c, run'[k], starts'[k])
  BY <1>1, <1>2, <1>3 DEF CallInv, Moves, Later
<1>5. faults' \in 0..MaxFaults
  BY RunConstants DEF RunInv, TypeOK, Fault
<1> QED BY <1>2, <1>3, <1>4, <1>5, StartCallFrame

(* Every step of a start call.                                              *)
LEMMA StarterKeepsRunInv ==
    ASSUME RunInv, NEW s \in Starters, StarterStep(s)
    PROVE  RunInv' /\ Progress
<1> USE DEF OtherThanStart, SubmissionWrite, GoesOn
<1>1. CASE Reserves(s)
  BY <1>1, ReservesStep
<1>2. CASE StartAccepted(s)
  BY <1>2, StartCallStep DEF StartAccepted
<1>3. CASE StartRejected(s)
  BY <1>3, StartCallStep DEF StartRejected
<1>4. CASE StartUnknown(s)
  BY <1>4, StartCallStep DEF StartUnknown
<1>5. CASE RejectionRecorded(s)
  <2>1. ~ run[KeyOf(s)].session
    BY <1>5, CallKnows DEF RejectionRecorded, CallInv
  <2> QED BY <1>5, <2>1, StartCallStep DEF RejectionRecorded
<1>6. CASE Attaches(s)
  BY <1>6, StartCallStep DEF Attaches
<1>7. CASE AttachFails(s)
  <2>1. GoesOn(s)
    BY <1>7 DEF AttachFails, TriesAgain
  <2> HIDE DEF GoesOn
  <2> QED BY <1>7, <2>1, StartCallStep DEF AttachFails
<1>8. CASE BindFindsRunning(s)
  BY <1>8, StartCallStep DEF BindFindsRunning
<1>9. CASE Binds(s)
  BY <1>9, StartCallStep DEF Binds
<1>10. CASE CleansUp(s)
  BY <1>10, StartCallStep DEF CleansUp
<1>11. CASE CleanupFails(s)
  <2>1. GoesOn(s)
    BY <1>11 DEF CleanupFails, TriesAgain
  <2> HIDE DEF GoesOn
  <2> QED BY <1>11, <2>1, StartCallStep DEF CleanupFails
<1>12. CASE MarksAmbiguous(s)
  BY <1>12, StartCallStep DEF MarksAmbiguous
<1>13. CASE StarterDies(s)
  BY <1>13, StartCallStep DEF StarterDies
<1> QED BY <1>1, <1>2, <1>3, <1>4, <1>5, <1>6, <1>7, <1>8, <1>9, <1>10, <1>11, <1>12, <1>13
        DEF StarterStep

-----------------------------------------------------------------------------
(* The steps of an inspection or a cancellation. *)

(* A step of one poller that moves at most one run.                         *)
LEMMA PollerFrame ==
    ASSUME RunInv, NEW p \in Pollers, NEW c \in PollerType, NEW k \in Keys,
           poller' = [poller EXCEPT ![p] = c],
           run' \in [Keys -> RowType], eve' \in [Keys -> SessionType],
           faults' \in 0..MaxFaults, UNCHANGED <<OtherThanPoll, elapsed>>,
           Moves(k), run[k].status # "absent" \/ UNCHANGED run,
           run'[k].session = run[k].session,
           CopyInv(c, run'[c.key], eve'[c.key])
    PROVE  RunInv' /\ Progress
<1>1. TypeOK'
  BY DEF RunInv, TypeOK, OtherThanPoll
<1>2. poller'[p] = c /\ \A q \in Pollers \ {p} : poller'[q] = poller[q]
  BY DEF RunInv, TypeOK
<1>3. StartCalls' /\ OneCall'
  BY StartCallsUntouched DEF OtherThanPoll
<1>4. Rows' /\ Copies' /\ Listed'
  BY <1>1, <1>2, RowsKept, CopiesKept, ListedKept DEF OtherThanPoll
<1> QED BY <1>1, <1>3, <1>4 DEF RunInv, Progress

(* No row, session or start changes.                                        *)
LEMMA NothingMoves ==
    ASSUME RunInv, NEW k \in Keys, UNCHANGED <<run, eve, starts>>
    PROVE  /\ run' \in [Keys -> RowType] /\ eve' \in [Keys -> SessionType]
           /\ Moves(k) /\ run'[k].session = run[k].session
<1>1. RowInv(run[k], starts[k], eve[k]) /\ Len(eve[k].log) \in Nat
  BY Typed DEF RunInv, Rows
<1> QED BY <1>1 DEF RunInv, TypeOK, Moves, Later, Final

(* What an inspection that is on its way knows.                             *)
LEMMA CopyKnows ==
    ASSUME RunInv, NEW p \in Pollers
    PROVE  /\ RunOf(p) \in Keys /\ poller[p] \in PollerType /\ poller[p].key = RunOf(p)
           /\ run[RunOf(p)] \in RowType /\ Len(eve[RunOf(p)].log) \in Nat
           /\ RowInv(run[RunOf(p)], starts[RunOf(p)], eve[RunOf(p)])
           /\ CopyInv(poller[p], run[RunOf(p)], eve[RunOf(p)])
           /\ poller[p].pc # "idle" => /\ run[RunOf(p)].session
                                       /\ run[RunOf(p)].status # "absent"
<1>1. /\ RunOf(p) \in Keys /\ poller[p] \in PollerType /\ poller[p].key = RunOf(p)
      /\ run[RunOf(p)] \in RowType /\ Len(eve[RunOf(p)].log) \in Nat
  BY Typed DEF RunInv, TypeOK, RunOf
<1>2. /\ RowInv(run[RunOf(p)], starts[RunOf(p)], eve[RunOf(p)])
      /\ CopyInv(poller[p], run[RunOf(p)], eve[RunOf(p)])
  BY <1>1 DEF RunInv, Rows, Copies
<1> QED BY <1>1, <1>2 DEF RowInv, CopyInv

(* A poller that has ended.                                                 *)
LEMMA IdlePollerType == IdlePoller \in PollerType /\ IdlePoller.pc = "idle"
<1>1. AnyKey \in Keys /\ 0 \in 0..PageSize
  BY RunConstants DEF AnyKey
<1>2. AbsentRow \in RowType
  BY DEF AbsentRow, RowType, RunStatuses, Results
<1> QED BY <1>1, <1>2 DEF IdlePoller, PollerType

(* An inspection that ends leaves nothing behind.                           *)
LEMMA PollerEnds ==
    ASSUME RunInv, NEW p \in Pollers, PollerDone(p),
           UNCHANGED <<OtherThanPoll, elapsed, run, eve>>, faults' = faults \/ Fault
    PROVE  RunInv' /\ Progress
<1>1. /\ RunOf(p) \in Keys
      /\ run' \in [Keys -> RowType] /\ eve' \in [Keys -> SessionType]
      /\ Moves(RunOf(p)) /\ run'[RunOf(p)].session = run[RunOf(p)].session
  BY CopyKnows, NothingMoves DEF OtherThanPoll
<1>2. faults' \in 0..MaxFaults
  BY RunConstants DEF RunInv, TypeOK, Fault
<1>3. CopyInv(IdlePoller, run'[IdlePoller.key], eve'[IdlePoller.key])
  BY IdlePollerType DEF CopyInv
<1> QED BY <1>1, <1>2, <1>3, IdlePollerType, PollerFrame DEF PollerDone

(* A status request or a cancel request reads the row.                      *)
LEMMA LooksStep ==
    ASSUME RunInv, NEW p \in Pollers, NEW k \in Keys, NEW pc \in {"read", "stamp"}, Looks(p, k, pc)
    PROVE  RunInv' /\ Progress
<1> DEFINE c == [pc |-> pc, key |-> k, rec |-> run[k], page |-> 0]
<1>1. run[k] \in RowType /\ RowInv(run[k], starts[k], eve[k]) /\ Len(eve[k].log) \in Nat
  BY Typed DEF RunInv, TypeOK, Rows
<1>2. c \in PollerType
  BY <1>1, RunConstants DEF PollerType
<1>3. run[k].session /\ run[k].status \notin Terminal
  BY DEF Looks
<1>4. run[k].status \in ActiveStatuses
  BY <1>1, <1>3 DEF RowInv, RowType, RunStatuses, Terminal, ActiveStatuses
<1>5. run[k].count + 0 <= Len(eve[k].log)
  BY <1>1 DEF RowInv, RowType
<1>6. CopyInv(c, run[k], eve[k])
  BY <1>3, <1>4, <1>5 DEF CopyInv, ActiveStatuses
<1>7. UNCHANGED <<run, eve, starts, elapsed, faults, OtherThanPoll>> /\ poller' = [poller EXCEPT ![p] = c]
  BY DEF Looks, OtherThanPoll
<1>8. /\ run' \in [Keys -> RowType] /\ eve' \in [Keys -> SessionType]
      /\ Moves(k) /\ run'[k].session = run[k].session
  BY <1>7, NothingMoves
<1>9. CopyInv(c, run'[c.key], eve'[c.key]) /\ faults' \in 0..MaxFaults
  BY <1>6, <1>7 DEF RunInv, TypeOK
<1> HIDE DEF c
<1> QED BY <1>2, <1>7, <1>8, <1>9, PollerFrame

(* A cancel request records itself on the row.                              *)
LEMMA StampsStep ==
    ASSUME RunInv, NEW p \in Pollers, Stamps(p)
    PROVE  RunInv' /\ Progress
<1> DEFINE k == RunOf(p)
           r == run[k]
           n == IF CanRequestCancellation(k) THEN Touched([r EXCEPT !.cancel = TRUE]) ELSE r
<1>1. /\ k \in Keys /\ r \in RowType /\ r.session /\ r.status # "absent"
      /\ RowInv(r, starts[k], eve[k]) /\ poller[p] \in PollerType /\ poller[p].key = k
      /\ Len(eve[k].log) \in Nat
  BY CopyKnows DEF Stamps
<1>2. /\ n \in RowType /\ n.session /\ n.status = r.status /\ n.count = r.count
      /\ r.cancel => n.cancel
      /\ n.result = r.result /\ n.failure = r.failure
      /\ n.cancel /\ ~ r.cancel => r.status \notin Terminal
      /\ r.status \notin Terminal => n.cancel
  BY <1>1 DEF CanRequestCancellation, Touched, RowType
<1>3. r.status \in ActiveStatuses \cup Terminal
  BY <1>1 DEF RowType, RunStatuses, ActiveStatuses, Terminal
<1>4. RowInv(n, starts[k], eve[k]) /\ Final(r, n)
  BY <1>1, <1>2, <1>3 DEF RowInv, Final, ActiveStatuses, Terminal
<1>5. WriteRun(k, n)
  BY <1>1 DEF Stamps, WriteRun, RunInv, TypeOK
<1>6. UNCHANGED <<eve, elapsed, faults, OtherThanPoll>>
  BY DEF Stamps
<1> HIDE DEF n
<1>7. run' \in [Keys -> RowType] /\ run'[k] = n /\ Moves(k)
  BY <1>1, <1>2, <1>4, <1>5, <1>6, RowWritten DEF OtherThanPoll
<1> DEFINE c == IF r.status \in Terminal THEN IdlePoller
                ELSE [poller[p] EXCEPT !.pc = "stop", !.rec = n]
<1>8. poller' = [poller EXCEPT ![p] = c]
  BY <1>7 DEF Stamps, PollerDone, RunInv, TypeOK
<1>9. c \in PollerType
  BY <1>1, <1>2, IdlePollerType DEF PollerType
<1>10. CopyInv(c, run'[c.key], eve'[c.key])
  <2>1. CASE r.status \in Terminal
    BY <2>1, IdlePollerType DEF CopyInv
  <2>2. CASE r.status \notin Terminal
    <3>1. c.key = k /\ c.rec = n /\ c.page = poller[p].page /\ c.pc = "stop"
      BY <1>1, <2>2 DEF PollerType
    <3>2. CopyInv(poller[p], r, eve[k]) /\ poller[p].pc = "stamp"
      BY CopyKnows DEF Stamps
    <3>3. c.page = 0
      BY <1>1, <3>1, <3>2 DEF CopyInv
    <3>4. n.count + c.page <= Len(eve[k].log)
      BY <1>1, <1>2, <3>3 DEF RowInv, RowType
    <3>5. n.status \in ActiveStatuses /\ n.status # "absent" /\ (n.cancel <=> run'[k].cancel)
      BY <1>1, <1>2, <1>3, <1>7, <2>2
    <3> QED BY <1>2, <1>6, <1>7, <3>1, <3>3, <3>4, <3>5 DEF CopyInv
  <2> QED BY <2>1, <2>2
<1> HIDE DEF c
<1> QED BY <1>1, <1>2, <1>6, <1>7, <1>8, <1>9, <1>10, PollerFrame DEF RunInv, TypeOK, OtherThanPoll

(* Eve is asked to stop the session.                                        *)
LEMMA StopsStep ==
    ASSUME RunInv, NEW p \in Pollers, Stops(p)
    PROVE  RunInv' /\ Progress
<1> DEFINE k == RunOf(p)
           e == [eve[k] EXCEPT !.stop = @ \/ InTurn(k)]
           c == [poller[p] EXCEPT !.pc = "read"]
<1>1. /\ k \in Keys /\ run[k].session /\ run[k].status # "absent"
      /\ RowInv(run[k], starts[k], eve[k]) /\ poller[p] \in PollerType /\ poller[p].key = k
      /\ Len(eve[k].log) \in Nat /\ CopyInv(poller[p], run[k], eve[k]) /\ poller[p].pc = "stop"
  BY CopyKnows DEF Stops
<1>2. eve[k] \in SessionType
  BY <1>1 DEF RunInv, TypeOK
<1>3. e \in SessionType /\ e.log = eve[k].log /\ e.state = eve[k].state
  <2>1. InTurn(k) \in BOOLEAN
    BY DEF InTurn
  <2> QED BY <1>2, <2>1 DEF SessionType
<1>4. eve' = [eve EXCEPT ![k] = e]
  BY DEF Stops, RunInv, TypeOK
<1>5. c \in PollerType /\ c.key = k /\ c.rec = poller[p].rec /\ c.page = poller[p].page /\ c.pc = "read"
  BY <1>1 DEF PollerType
<1>6. poller' = [poller EXCEPT ![p] = c]
  BY DEF Stops, PollerAt, RunInv, TypeOK
<1>7. UNCHANGED <<run, elapsed, faults, starts, OtherThanPoll>>
  BY DEF Stops, OtherThanPoll
<1> HIDE DEF e, c
<1>8. /\ eve' \in [Keys -> SessionType] /\ eve'[k] = e
      /\ \A j \in Keys \ {k} : eve'[j] = eve[j]
  BY <1>1, <1>3, <1>4 DEF RunInv, TypeOK
<1>9. run' \in [Keys -> RowType] /\ Moves(k)
  <2>1. RowInv(run[k], starts[k], e)
    BY <1>1, <1>3 DEF RowInv
  <2> QED BY <1>1, <1>3, <1>7, <1>8, <2>1 DEF Moves, Later, Final, RunInv, TypeOK
<1>10. CopyInv(c, run'[c.key], eve'[c.key])
  BY <1>1, <1>3, <1>5, <1>7, <1>8 DEF CopyInv
<1> QED BY <1>1, <1>5, <1>6, <1>7, <1>8, <1>9, <1>10, PollerFrame DEF RunInv, TypeOK

(* A page never reads past the end of the log.                              *)
LEMMA PageFits ==
    ASSUME NEW l \in Nat, NEW n \in Nat, n + 0 <= l
    PROVE  LET page == IF l - n < PageSize THEN l - n ELSE PageSize
           IN  page \in 0..PageSize /\ n + page <= l
BY RunConstants

(* A page of the log is read.                                               *)
LEMMA ReadsStep ==
    ASSUME RunInv, NEW p \in Pollers, Reads(p)
    PROVE  RunInv' /\ Progress
<1> DEFINE k    == RunOf(p)
           new  == Len(eve[k].log) - poller[p].rec.count
           page == IF new < PageSize THEN new ELSE PageSize
           c    == [poller[p] EXCEPT !.page = page, !.pc = IF page = 0 THEN "grace" ELSE "project"]
<1>1. /\ k \in Keys /\ run[k].session /\ run[k].status # "absent"
      /\ poller[p] \in PollerType /\ poller[p].key = k
      /\ Len(eve[k].log) \in Nat /\ CopyInv(poller[p], run[k], eve[k]) /\ poller[p].pc = "read"
  BY CopyKnows DEF Reads
<1>2. poller[p].rec.count \in Nat /\ poller[p].page = 0 /\ poller[p].rec.count + 0 <= Len(eve[k].log)
  BY <1>1 DEF PollerType, RowType, CopyInv
<1>3. page \in 0..PageSize /\ poller[p].rec.count + page <= Len(eve[k].log)
  BY <1>1, <1>2, PageFits
<1> HIDE DEF page
<1>4. /\ c \in PollerType /\ c.key = k /\ c.rec = poller[p].rec /\ c.page = page
      /\ c.pc = IF page = 0 THEN "grace" ELSE "project"
  BY <1>1, <1>3 DEF PollerType
<1>5. poller' = [poller EXCEPT ![p] = c] /\ UNCHANGED <<run, eve, elapsed, faults, starts, OtherThanPoll>>
  BY DEF Reads, page, RunInv, TypeOK, OtherThanPoll
<1> HIDE DEF c
<1>6. CopyInv(c, run[k], eve[k])
  BY <1>1, <1>3, <1>4 DEF CopyInv
<1>7. /\ run' \in [Keys -> RowType] /\ eve' \in [Keys -> SessionType]
      /\ Moves(k) /\ run'[k].session = run[k].session
  BY <1>1, <1>5, NothingMoves
<1> QED BY <1>1, <1>4, <1>5, <1>6, <1>7, PollerFrame DEF RunInv, TypeOK

(* The projection of a page, written over the row.                          *)
LEMMA ProjectedRow ==
    ASSUME NEW r \in RowType, NEW b, NEW e, RowInv(r, b, e), Len(e.log) \in Nat,
           r.session, r.status # "absent",
           NEW q \in RowType, q.status \in Reported, q.count <= Len(e.log)
    PROVE  /\ Projected(r, q) \in RowType
           /\ RowInv(Projected(r, q), b, e)
           /\ Final(r, Projected(r, q))
           /\ Projected(r, q).session /\ Projected(r, q).status # "absent"
           /\ Projected(r, q).cancel = r.cancel
<1> DEFINE status  == NextStatus(r, q)
           muted   == r.cancel \/ status = "cancelled"
           result  == IF muted THEN "none" ELSE q.result
           failure == ~ muted /\ q.failure
           new     == [r EXCEPT !.status  = status,
                                !.count   = q.count,
                                !.steps   = q.steps,
                                !.result  = result,
                                !.failure = failure]
           n       == Touched(new)
<1>1. Projected(r, q) = IF r.count > q.count \/ new = r THEN r ELSE n
  BY DEF Projected
<1>2. CASE Projected(r, q) = r
  BY <1>2 DEF Final
<1>3. CASE Projected(r, q) = n
  <2>1. /\ status \in RunStatuses /\ status # "absent"
        /\ r.status \in Terminal => status = r.status
        /\ r.cancel => status = r.status \/ status = "cancelled"
    BY DEF NextStatus, RowType, RunStatuses, Reported, Terminal
  <2>2. result \in Results /\ failure \in BOOLEAN /\ q.count \in Nat /\ q.steps \in Nat
    BY DEF RowType, Results
  <2>3. r.cancel \/ status = "cancelled" => result = "none" /\ ~ failure
    OBVIOUS
  <2> HIDE DEF status, result, failure
  <2>4. new \in RowType /\ new.status = status /\ new.count = q.count /\ new.session = r.session
        /\ new.cancel = r.cancel /\ new.result = result /\ new.failure = failure
    BY <2>1, <2>2 DEF RowType
  <2> HIDE DEF new
  <2>5. n \in RowType /\ n.status = status /\ n.count = q.count /\ n.session = r.session
        /\ n.cancel = r.cancel /\ n.result = result /\ n.failure = failure
    BY <2>4 DEF RowType, Touched
  <2> HIDE DEF n
  <2>6. Final(r, n)
    BY <2>1, <2>5 DEF Final
  <2>7. RowInv(n, b, e)
    BY <2>1, <2>3, <2>5 DEF RowInv
  <2> QED BY <1>3, <2>1, <2>5, <2>6, <2>7
<1> QED BY <1>1, <1>2, <1>3

(* A page is projected on the row that was read before it.                  *)
LEMMA ProjectsStep ==
    ASSUME RunInv, NEW p \in Pollers, Projects(p)
    PROVE  RunInv' /\ Progress
<1> DEFINE k == RunOf(p)
           q == Project(poller[p].rec, PageOf(p))
           n == Projected(run[k], q)
           c == [poller[p] EXCEPT !.rec = n, !.page = 0, !.pc = "grace"]
<1>1. /\ k \in Keys /\ run[k] \in RowType /\ run[k].session /\ run[k].status # "absent"
      /\ RowInv(run[k], starts[k], eve[k])
      /\ poller[p] \in PollerType /\ poller[p].key = k
      /\ Len(eve[k].log) \in Nat /\ CopyInv(poller[p], run[k], eve[k]) /\ poller[p].pc = "project"
  BY CopyKnows DEF Projects
<1>2. /\ poller[p].rec \in RowType /\ poller[p].rec.status \in ActiveStatuses
      /\ poller[p].rec.count \in Nat /\ poller[p].page \in Nat
      /\ poller[p].rec.count + poller[p].page <= Len(eve[k].log)
      /\ eve[k].log \in Seq(Events)
  BY <1>1, Typed DEF CopyInv, RunInv
<1>3. PageOf(p) \in Seq(Events) /\ Len(PageOf(p)) = poller[p].page
  <2> DEFINE from == poller[p].rec.count
             log == eve[k].log
  <2>1. from \in Nat /\ poller[p].page \in Nat /\ from + poller[p].page <= Len(log)
        /\ log \in Seq(Events)
    BY <1>2
  <2>2. PageOf(p) = SubSeq(log, from + 1, from + poller[p].page)
    BY DEF PageOf
  <2> HIDE DEF from, log
  <2>3. SubSeq(log, from + 1, from + poller[p].page) \in Seq(Events)
    BY <2>1
  <2>4. Len(SubSeq(log, from + 1, from + poller[p].page)) = poller[p].page
    BY <2>1
  <2> QED BY <2>2, <2>3, <2>4
<1>4. q \in RowType /\ q.status \in Reported /\ q.count <= Len(eve[k].log)
  BY <1>2, <1>3, ProjectType
<1> HIDE DEF q
<1>5. /\ n \in RowType /\ RowInv(n, starts[k], eve[k]) /\ Final(run[k], n)
      /\ n.session /\ n.status # "absent" /\ n.cancel = run[k].cancel
  BY <1>1, <1>4, ProjectedRow
<1> HIDE DEF n
<1>6. WriteRun(k, n) /\ UNCHANGED <<eve, elapsed, faults, starts, OtherThanPoll>>
  BY DEF Projects, n, q, OtherThanPoll
<1>7. run' \in [Keys -> RowType] /\ run'[k] = n /\ Moves(k)
  BY <1>1, <1>5, <1>6, RowWritten
<1>8. poller' = [poller EXCEPT ![p] = c]
  BY <1>7 DEF Projects, RunInv, TypeOK
<1>9. c \in PollerType /\ c.key = k /\ c.rec = n /\ c.page = 0 /\ c.pc = "grace"
  <2>1. 0 \in 0..PageSize
    BY RunConstants
  <2> QED BY <1>1, <1>5, <2>1 DEF PollerType
<1> HIDE DEF c
<1>10. n.count + c.page <= Len(eve[k].log)
  BY <1>1, <1>5, <1>9 DEF RowInv, RowType
<1>11. CopyInv(c, run'[c.key], eve'[c.key])
  BY <1>5, <1>6, <1>7, <1>9, <1>10 DEF CopyInv
<1> QED BY <1>1, <1>5, <1>6, <1>7, <1>8, <1>9, <1>11, PollerFrame DEF RunInv, TypeOK

(* A session that Eve lost is reset after its grace.                        *)
LEMMA ResetsStep ==
    ASSUME RunInv, NEW p \in Pollers, ResetsAfterGrace(p)
    PROVE  RunInv' /\ Progress
<1> DEFINE k == RunOf(p)
           c == [poller[p] EXCEPT !.pc = "markCancelled"]
<1>1. /\ k \in Keys /\ run[k].session /\ run[k].status # "absent"
      /\ poller[p] \in PollerType /\ poller[p].key = k /\ Len(eve[k].log) \in Nat
      /\ CopyInv(poller[p], run[k], eve[k]) /\ poller[p].pc = "grace" /\ poller[p].rec.cancel
  BY CopyKnows DEF ResetsAfterGrace, Overdue
<1>2. UNCHANGED <<run, elapsed, faults, starts, OtherThanPoll>> /\ EveReset(k)
  BY DEF ResetsAfterGrace, OtherThanPoll
<1>3. /\ eve' \in [Keys -> SessionType] /\ run' \in [Keys -> RowType] /\ Moves(k)
  BY <1>1, <1>2, ResetAppends, OnlySessionMoves DEF RunInv
<1>4. /\ c \in PollerType /\ c.key = k /\ c.rec = poller[p].rec /\ c.page = poller[p].page
      /\ c.pc = "markCancelled"
  BY <1>1 DEF PollerType
<1>5. poller' = [poller EXCEPT ![p] = c]
  BY DEF ResetsAfterGrace, PollerAt, RunInv, TypeOK
<1> HIDE DEF c
<1>6. Len(eve[k].log) <= Len(eve'[k].log) /\ Len(eve'[k].log) \in Nat
  BY <1>1, <1>3 DEF Moves, Later, SessionType
<1>7. c.rec.count + c.page \in Nat
  BY <1>4, Typed DEF RunInv
<1>8. CopyInv(c, run'[c.key], eve'[c.key])
  BY <1>1, <1>2, <1>4, <1>6, <1>7 DEF CopyInv
<1> QED BY <1>1, <1>2, <1>3, <1>4, <1>5, <1>8, PollerFrame DEF RunInv, TypeOK

(* A run is marked cancelled.                                               *)
LEMMA MarksCancelledStep ==
    ASSUME RunInv, NEW p \in Pollers, MarksCancelled(p)
    PROVE  RunInv' /\ Progress
<1> DEFINE k == RunOf(p)
           r == run[k]
           n == IF r.status # "cancelled" THEN Cancelled(r) ELSE r
<1>1. /\ k \in Keys /\ r \in RowType /\ r.session /\ r.status # "absent" /\ r.cancel
      /\ RowInv(r, starts[k], eve[k])
  BY CopyKnows DEF MarksCancelled, CopyInv
<1>2. /\ n \in RowType /\ n.status = "cancelled" /\ n.session /\ n.cancel
      /\ n.count = r.count /\ n.result = "none" /\ ~ n.failure
  BY <1>1 DEF Cancelled, Touched, RowType, RunStatuses, Results, RowInv
<1>3. RowInv(n, starts[k], eve[k]) /\ Final(r, n)
  BY <1>1, <1>2 DEF RowInv, Final, Terminal, ActiveStatuses
<1>4. WriteRun(k, n) /\ UNCHANGED <<eve, elapsed, faults, starts, OtherThanPoll>> /\ PollerDone(p)
  BY DEF MarksCancelled, MarkCancelled, WriteRun, OtherThanPoll
<1> HIDE DEF n
<1>5. run' \in [Keys -> RowType] /\ run'[k] = n /\ Moves(k)
  BY <1>1, <1>2, <1>3, <1>4, RowWritten
<1>6. CopyInv(IdlePoller, run'[IdlePoller.key], eve'[IdlePoller.key])
  BY IdlePollerType DEF CopyInv
<1> QED BY <1>1, <1>2, <1>4, <1>5, <1>6, IdlePollerType, PollerFrame
        DEF PollerDone, RunInv, TypeOK

-----------------------------------------------------------------------------
(* The session, the clock and the reconciler. *)

(* A step of Eve on one session.                                            *)
LEMMA SessionFrame ==
    ASSUME RunInv, NEW k \in Keys,
           eve' \in [Keys -> SessionType],
           \A j \in Keys \ {k} : eve'[j] = eve[j],
           Len(eve[k].log) <= Len(eve'[k].log),
           eve[k].state = "none" => eve' = eve,
           UNCHANGED <<run, elapsed, starter, poller, starts>>,
           recon' = recon, faults' = faults \/ Fault
    PROVE  RunInv' /\ Progress
<1>1. run' \in [Keys -> RowType] /\ Moves(k)
  BY OnlySessionMoves
<1>2. TypeOK'
  BY RunConstants DEF RunInv, TypeOK, Fault
<1>3. StartCalls' /\ OneCall'
  BY <1>1, StartCallsUntouched
<1>4. Rows' /\ Copies' /\ Listed'
  BY <1>1, <1>2, RowsKept, CopiesKept, ListedKept
<1> QED BY <1>1, <1>2, <1>3, <1>4 DEF RunInv, Progress

(* What an emitted event does to its session.                               *)
LEMMA Emitted ==
    ASSUME TypeOK, NEW k \in Keys, NEW e \in Events, NEW state \in EveStates,
           Emit(k, e, state)
    PROVE  /\ eve' \in [Keys -> SessionType]
           /\ \A j \in Keys \ {k} : eve'[j] = eve[j]
           /\ Len(eve[k].log) <= Len(eve'[k].log)
           /\ eve'[k].log = Append(eve[k].log, e) /\ eve'[k].state = state
           /\ eve'[k].stop = eve[k].stop
<1> DEFINE log == Append(eve[k].log, e)
           n   == [eve[k] EXCEPT !.log = log, !.state = state]
<1>1. log \in Seq(Events) /\ Len(log) = Len(eve[k].log) + 1 /\ Len(eve[k].log) \in Nat
  BY Typed
<1>2. eve[k] \in SessionType
  BY DEF TypeOK
<1>3. eve' = [eve EXCEPT ![k] = n]
  BY DEF Emit, TypeOK
<1> HIDE DEF log
<1>4. n \in SessionType /\ n.log = log /\ n.state = state /\ n.stop = eve[k].stop
  BY <1>1, <1>2 DEF SessionType
<1> HIDE DEF n
<1>5. eve' \in [Keys -> SessionType] /\ eve'[k] = n /\ \A j \in Keys \ {k} : eve'[j] = eve[j]
  BY <1>3, <1>4 DEF TypeOK
<1> QED BY <1>1, <1>4, <1>5 DEF log

(* Every step of Eve emits one event in a session that exists.              *)
LEMMA EveEmits ==
    ASSUME NEW k \in Keys, EveStep(k)
    PROVE  /\ \E e \in Events, state \in EveStates : Emit(k, e, state)
           /\ eve[k].state # "none"
<1> USE DEF Events, EveStates
<1>1. \E e \in Events, state \in EveStates : Emit(k, e, state)
  <2>1. CASE eve[k].state = "parked"
             /\ Emit(k, IF eve[k].log[Len(eve[k].log) - 1] = "input.requested"
                        THEN "turn.started" ELSE "authorization.completed", "live")
    BY <2>1
  <2> QED BY <2>1 DEF EveStep
<1> QED BY <1>1 DEF EveStep, InTurn

(* Every step of Eve.                                                       *)
LEMMA EveStepStep ==
    ASSUME RunInv, NEW k \in Keys, EveStep(k)
    PROVE  RunInv' /\ Progress
<1>1. PICK e \in Events, state \in EveStates : Emit(k, e, state)
  BY EveEmits
<1>2. eve[k].state # "none"
  BY EveEmits
<1>3. UNCHANGED <<run, elapsed, starter, poller, starts, recon, faults>>
  BY DEF EveStep
<1> QED BY <1>1, <1>2, <1>3, Emitted, SessionFrame DEF RunInv

(* The grace passes, or a submission grows old.                             *)
LEMMA TimeStep ==
    ASSUME RunInv, NEW k \in Keys, GraceElapses(k) \/ SubmissionAges(k)
    PROVE  RunInv' /\ Progress
<1>0. run[k] \in RowType /\ RowInv(run[k], starts[k], eve[k]) /\ Len(eve[k].log) \in Nat
  BY Typed DEF RunInv, TypeOK, Rows
<1>1. CASE GraceElapses(k)
  <2>1. TypeOK' /\ UNCHANGED <<run, eve, starter, poller, recon, starts>>
    BY <1>1 DEF GraceElapses, RunInv, TypeOK
  <2> QED BY <2>1 DEF RunInv, Progress, Rows, StartCalls, OneCall, Copies, Listed, KeyOf, RunOf
<1>2. CASE SubmissionAges(k)
  <2> DEFINE n == [run[k] EXCEPT !.old = TRUE]
  <2>1. /\ n \in RowType /\ n.status = run[k].status /\ n.session = run[k].session
        /\ n.cancel = run[k].cancel /\ n.count = run[k].count /\ n.result = run[k].result
        /\ n.failure = run[k].failure /\ run[k].status = "submitting"
    BY <1>0, <1>2 DEF SubmissionAges, RowType
  <2>2. WriteRun(k, n) /\ UNCHANGED <<elapsed, eve, starter, poller, recon, starts, faults>>
    BY <1>2 DEF SubmissionAges, WriteRun, RunInv, TypeOK
  <2> HIDE DEF n
  <2>3. RowInv(n, starts[k], eve[k]) /\ Final(run[k], n)
    BY <1>0, <2>1 DEF RowInv, Final
  <2>4. run' \in [Keys -> RowType] /\ run'[k] = n /\ Moves(k)
    BY <1>0, <2>1, <2>2, <2>3, RowWritten
  <2>5. TypeOK'
    BY <2>2, <2>4 DEF RunInv, TypeOK
  <2>6. StartCalls' /\ OneCall'
    BY <2>1, <2>2, <2>4, StartCallsUntouched
  <2>7. Rows' /\ Copies' /\ Listed'
    BY <2>2, <2>4, <2>5, RowsKept, CopiesKept, ListedKept
  <2> QED BY <2>1, <2>4, <2>5, <2>6, <2>7 DEF RunInv, Progress
<1> QED BY <1>1, <1>2

(* A step of the reconciler that moves at most the run it works on.         *)
LEMMA ReconcilerFrame ==
    ASSUME RunInv, NEW k \in Keys, Moves(k), run[k].status # "absent",
           run' \in [Keys -> RowType], eve' \in [Keys -> SessionType],
           run'[k].session = run[k].session,
           recon' \in [pc : {"idle", "reset", "mark"}, key : Keys, session : BOOLEAN],
           recon'.pc # "idle" => recon'.key = k,
           UNCHANGED OtherThanRecon, faults' = faults \/ Fault
    PROVE  RunInv' /\ Progress
<1>1. TypeOK'
  BY RunConstants DEF RunInv, TypeOK, OtherThanRecon, Fault
<1>2. StartCalls' /\ OneCall'
  BY StartCallsUntouched DEF OtherThanRecon
<1>3. Rows' /\ Copies'
  BY <1>1, RowsKept, CopiesKept DEF OtherThanRecon
<1>4. Listed'
  BY DEF Listed, Moves, Later
<1> QED BY <1>1, <1>2, <1>3, <1>4 DEF RunInv, Progress

(* Every step of the reconciler.                                            *)
LEMMA ReconcilerStepStep ==
    ASSUME RunInv, ReconcilerStep \/ ReconcilerFails
    PROVE  RunInv' /\ Progress
<1> DEFINE Type == [pc : {"idle", "reset", "mark"}, key : Keys, session : BOOLEAN]
<1>0. recon \in Type /\ IdleRecon \in Type /\ IdleRecon.pc = "idle"
  <2>1. AnyKey \in Keys
    BY RunConstants DEF AnyKey
  <2> QED BY <2>1 DEF RunInv, TypeOK, IdleRecon
<1>1. CASE ListsStale
  <2>1. PICK k \in Keys :
          /\ run[k].status = "submitting"
          /\ recon' = [pc |-> IF run[k].session THEN "reset" ELSE "mark",
                       key |-> k, session |-> run[k].session]
    BY <1>1 DEF ListsStale
  <2>2. UNCHANGED <<run, eve, starts, OtherThanRecon, faults>>
    BY <1>1 DEF ListsStale, OtherThanRecon
  <2>3. run[k].session \in BOOLEAN
    BY DEF RunInv, TypeOK, RowType
  <2>4. recon' \in Type /\ recon'.key = k
    BY <2>1, <2>3
  <2>5. /\ run' \in [Keys -> RowType] /\ eve' \in [Keys -> SessionType]
        /\ Moves(k) /\ run'[k].session = run[k].session
    BY <2>2, NothingMoves
  <2> QED BY <2>1, <2>2, <2>4, <2>5, ReconcilerFrame
<1>2. CASE ReconcilerResets
  <2> DEFINE k == recon.key
  <2>1. k \in Keys /\ run[k].status # "absent"
    BY <1>0, <1>2 DEF ReconcilerResets, RunInv, Listed
  <2>2. EveReset(k) /\ UNCHANGED <<run, starts, OtherThanRecon, faults>>
    BY <1>2 DEF ReconcilerResets, OtherThanRecon
  <2>3. eve' \in [Keys -> SessionType] /\ run' \in [Keys -> RowType] /\ Moves(k)
    BY <2>1, <2>2, ResetAppends, OnlySessionMoves DEF RunInv
  <2>4. recon' \in Type /\ recon'.key = k
    BY <1>0, <1>2 DEF ReconcilerResets
  <2> QED BY <2>1, <2>2, <2>3, <2>4, ReconcilerFrame
<1>3. CASE ReconcilerMarks
  <2> DEFINE k == recon.key
  <2>1. k \in Keys /\ run[k].status # "absent"
    BY <1>0, <1>3 DEF ReconcilerMarks, RunInv, Listed
  <2>2. MarkSubmissionAmbiguous(k) /\ recon' = IdleRecon
        /\ UNCHANGED <<eve, starts, OtherThanRecon, faults>>
    BY <1>3 DEF ReconcilerMarks, OtherThanRecon
  <2>3. run' \in [Keys -> RowType] /\ Moves(k)
    BY <2>1, <2>2, SubmissionMoves DEF SubmissionWrite
  <2>4. run'[k].session = run[k].session
    <3>1. run[k] \in RowType
      BY <2>1 DEF RunInv, TypeOK
    <3> QED BY <2>1, <2>2, <3>1 DEF MarkSubmissionAmbiguous, WriteRun, Touched, RowType, RunInv, TypeOK
  <2>5. eve' \in [Keys -> SessionType]
    BY <2>2 DEF RunInv, TypeOK
  <2> QED BY <1>0, <2>1, <2>2, <2>3, <2>4, <2>5, ReconcilerFrame
<1>4. CASE ReconcilerFails
  <2> DEFINE k == recon.key
  <2>1. k \in Keys /\ run[k].status # "absent"
    BY <1>0, <1>4 DEF ReconcilerFails, RunInv, Listed
  <2>2. recon' = IdleRecon /\ Fault /\ UNCHANGED <<run, eve, starts, OtherThanRecon>>
    BY <1>4 DEF ReconcilerFails, OtherThanRecon
  <2>3. /\ run' \in [Keys -> RowType] /\ eve' \in [Keys -> SessionType]
        /\ Moves(k) /\ run'[k].session = run[k].session
    BY <2>1, <2>2, NothingMoves
  <2> QED BY <1>0, <2>1, <2>2, <2>3, ReconcilerFrame
<1> QED BY <1>1, <1>2, <1>3, <1>4 DEF ReconcilerStep

(* Every step of a poller.                                                  *)
LEMMA PollerKeepsRunInv ==
    ASSUME RunInv, NEW p \in Pollers,
           \/ Inspects(p) \/ AsksToCancel(p) \/ PollerProceeds(p) \/ PollerDies(p)
    PROVE  RunInv' /\ Progress
<1>1. CASE Inspects(p)
  BY <1>1, LooksStep DEF Inspects
<1>2. CASE AsksToCancel(p)
  BY <1>2, LooksStep DEF AsksToCancel
<1>3. CASE Synchronized(p)
  BY <1>3, PollerEnds DEF Synchronized
<1>4. CASE PollerDies(p)
  BY <1>4, PollerEnds DEF PollerDies
<1>5. CASE Stamps(p) \/ Stops(p) \/ Reads(p) \/ Projects(p) \/ ResetsAfterGrace(p) \/ MarksCancelled(p)
  BY <1>5, StampsStep, StopsStep, ReadsStep, ProjectsStep, ResetsStep, MarksCancelledStep
<1> QED BY <1>1, <1>2, <1>3, <1>4, <1>5 DEF PollerProceeds

(* Every step keeps the invariant and is progress.                          *)
LEMMA NextKeepsRunInv ==
    ASSUME RunInv, [Next]_vars
    PROVE  RunInv' /\ Progress
<1>1. CASE \E k \in Keys : EveStep(k) \/ GraceElapses(k) \/ SubmissionAges(k)
  BY <1>1, EveStepStep, TimeStep
<1>2. CASE \E s \in Starters : StarterStep(s)
  BY <1>2, StarterKeepsRunInv
<1>3. CASE \E p \in Pollers : Inspects(p) \/ AsksToCancel(p) \/ PollerProceeds(p) \/ PollerDies(p)
  BY <1>3, PollerKeepsRunInv
<1>4. CASE ReconcilerStep \/ ReconcilerFails
  BY <1>4, ReconcilerStepStep
<1>5. CASE UNCHANGED vars
  BY <1>5
  DEF vars, RunInv, TypeOK, Rows, StartCalls, OneCall, KeyOf, Copies, RunOf, Listed, Progress
<1> QED BY <1>1, <1>2, <1>3, <1>4, <1>5 DEF Next

-----------------------------------------------------------------------------
(* The inductive invariant behind the answers to input requests. *)

RequestSets == SUBSET (Nat \X Batch)

CallType ==
    [phase : {"sync", "tail", "reserve", "send", "accepted", "failed", "submission-ambiguous"},
     key : Keys, id : ResponseKeys, requests : RequestSets, full : BOOLEAN, count : Nat]

AnswerType ==
    [status : {"submitting", "accepted", "failed", "submission-ambiguous"},
     requests : RequestSets]

Taken(k) == DOMAIN delivered[k]

AnswerTypes ==
    /\ inputs = [k \in Keys |-> inputs[k]]
    /\ \A k \in Keys : inputs[k] \in [DOMAIN inputs[k] -> AnswerType]
    /\ responder = [p \in Pollers |-> responder[p]]
    /\ \A p \in Pollers : responder[p] = NoCall \/ responder[p] \in CallType
    /\ flight \subseteq [key : Keys, requests : RequestSets]
    /\ delivered = [k \in Keys |-> delivered[k]]

(* The overlap check of reserve: an input request has one answer that is    *)
(* not known to have been refused.                                          *)
OneAnswer ==
    \A k \in Keys : \A i, j \in DOMAIN inputs[k] :
        /\ i # j /\ inputs[k][i].status # "failed" /\ inputs[k][j].status # "failed"
        => inputs[k][i].requests \cap inputs[k][j].requests = {}

(* What the session took is recorded, once; what is recorded as accepted    *)
(* was taken.                                                               *)
Recorded ==
    \A k \in Keys :
        /\ \A r \in Taken(k) :
              /\ delivered[k][r] = 1
              /\ \E i \in DOMAIN inputs[k] : /\ r \in inputs[k][i].requests
                                            /\ inputs[k][i].status # "failed"
        /\ \A i \in DOMAIN inputs[k] : inputs[k][i].status = "accepted" =>
              inputs[k][i].requests \subseteq Taken(k)

(* A call that reserved its answer is the only one to submit it.            *)
Submits(p) == responder[p].phase \in {"send", "accepted", "failed", "submission-ambiguous"}

Submission ==
    \A p \in Pollers : Submits(p) =>
        LET c == responder[p]
        IN  /\ c.id \in DOMAIN inputs[c.key]
            /\ inputs[c.key][c.id].requests = c.requests
            /\ c.phase = "submission-ambiguous" => inputs[c.key][c.id].status # "failed"
            /\ c.phase # "submission-ambiguous" => inputs[c.key][c.id].status = "submitting"
            /\ c.phase \in {"send", "failed"} => c.requests \cap Taken(c.key) = {}
            /\ c.phase = "accepted" => c.requests \subseteq Taken(c.key)

OneSubmitter ==
    \A p, q \in Pollers :
        /\ Submits(p) /\ Submits(q)
        /\ responder[p].key = responder[q].key /\ responder[p].id = responder[q].id
        => p = q

(* An answer on its way belongs to a row that nobody will settle otherwise. *)
Behind(m, i) ==
    /\ i \in DOMAIN inputs[m.key]
    /\ inputs[m.key][i].requests = m.requests
    /\ inputs[m.key][i].status \in {"submitting", "submission-ambiguous"}
    /\ \A p \in Pollers :
          Submits(p) /\ responder[p].key = m.key /\ responder[p].id = i
          => responder[p].phase = "submission-ambiguous"

InFlight ==
    \A m \in flight : /\ m.requests \cap Taken(m.key) = {}
                      /\ \E i \in ResponseKeys : Behind(m, i)

AnswerInv ==
    AnswerTypes /\ OneAnswer /\ Recorded /\ Submission /\ OneSubmitter /\ InFlight

-----------------------------------------------------------------------------
(* Answers to input requests move the runs as inspections do; besides, an   *)
(* answered session goes on, and a long stream is read page after page.     *)

(* A poller reads on before it takes its grace.                             *)
LEMMA ReadsMoreStep ==
    ASSUME RunInv, NEW p \in Pollers, poller[p].pc = "grace", PollerAt(p, "read"),
           poller[p].rec.status \notin Terminal,
           UNCHANGED <<OtherThanPoll, elapsed, run, eve, faults>>
    PROVE  RunInv' /\ Progress
<1> DEFINE k == RunOf(p)
           c == [poller[p] EXCEPT !.pc = "read"]
<1>1. /\ k \in Keys /\ run[k].session /\ run[k].status # "absent"
      /\ poller[p] \in PollerType /\ poller[p].key = k
      /\ CopyInv(poller[p], run[k], eve[k])
  BY CopyKnows
<1>2. c \in PollerType /\ c.key = k /\ c.rec = poller[p].rec /\ c.page = poller[p].page /\ c.pc = "read"
  BY <1>1 DEF PollerType
<1>3. poller' = [poller EXCEPT ![p] = c] /\ UNCHANGED <<run, eve, starts>>
  BY DEF PollerAt, RunInv, TypeOK, OtherThanPoll
<1> HIDE DEF c
<1>4. poller[p].rec.status \in ActiveStatuses
  <2>1. poller[p].rec.status \in RunStatuses
    BY <1>1 DEF CopyInv, PollerType, RowType
  <2> QED BY <2>1 DEF RunStatuses, Terminal, ActiveStatuses
<1>5. CopyInv(c, run'[c.key], eve'[c.key])
  BY <1>1, <1>2, <1>3, <1>4 DEF CopyInv
<1>6. /\ run' \in [Keys -> RowType] /\ eve' \in [Keys -> SessionType]
      /\ Moves(k) /\ run'[k].session = run[k].session
  BY <1>1, <1>3, NothingMoves
<1> QED BY <1>1, <1>2, <1>3, <1>5, <1>6, PollerFrame DEF RunInv, TypeOK

(* Eve takes the answers of a batch.                                        *)
LEMMA DeliversStep ==
    ASSUME RunInv, NEW k \in Keys, NEW requests, Delivers(k, requests),
           UNCHANGED OtherThanCall, faults' = faults \/ Fault
    PROVE  RunInv' /\ Progress
<1>1. UNCHANGED <<run, elapsed, starter, poller, starts, recon>> /\ eve[k].state # "none"
  BY DEF OtherThanCall, OtherThanRun, Delivers, Takes, ParkedOnInput
<1>2. Len(eve[k].log) \in Nat
  BY Typed DEF RunInv
<1>3. CASE Emit(k, "turn.started", "live")
  <2>1. "turn.started" \in Events /\ "live" \in EveStates
    BY DEF Events, EveStates
  <2> QED BY <1>1, <1>3, <2>1, Emitted, SessionFrame DEF RunInv
<1>4. CASE UNCHANGED eve
  BY <1>1, <1>2, <1>4, SessionFrame DEF RunInv, TypeOK
<1> QED BY <1>3, <1>4 DEF Delivers

(* The runs while a call only concerns the answers.                         *)
LEMMA RunsUntouched ==
    ASSUME RunInv, UNCHANGED <<OtherThanCall, eve>>, faults' = faults \/ Fault
    PROVE  RunInv' /\ Progress
<1>1. TypeOK'
  BY RunConstants DEF RunInv, TypeOK, OtherThanCall, OtherThanRun, Fault
<1> QED BY <1>1
  DEF OtherThanCall, OtherThanRun, RunInv, Rows, StartCalls, OneCall, KeyOf, Copies, RunOf,
      Listed, Progress

(* What the types say of an answer call under way.                          *)
LEMMA CallKnown ==
    ASSUME AnswerTypes, NEW p \in Pollers, ~ Calls(p, "none")
    PROVE  /\ responder[p] \in CallType
           /\ responder[p].key \in Keys /\ responder[p].id \in ResponseKeys
           /\ responder[p].requests \in RequestSets
BY DEF AnswerTypes, Calls, NoCall, CallType

(* The steps of the answers keep the invariant of the runs.                 *)
LEMMA InputNextKeepsRunInv ==
    ASSUME RunInv, AnswerTypes, [InputNext]_<<vars, inputVars>>
    PROVE  RunInv' /\ Progress
<1>1. CASE \E k \in Keys : EveRuns(k)
  BY <1>1, EveStepStep DEF EveRuns
<1>2. CASE \/ \E k \in Keys : GraceElapses(k) \/ SubmissionAges(k)
           \/ \E s \in Starters : StarterStep(s)
           \/ \E p \in Pollers :
                 Inspects(p) \/ AsksToCancel(p) \/ PollerProceeds(p) \/ PollerDies(p)
           \/ ReconcilerStep \/ ReconcilerFails
  BY <1>2, NextKeepsRunInv DEF Next
<1>3. ASSUME NEW p \in Pollers,
             \/ Responds(p) \/ CatchesUp(p) \/ CaughtUp(p) \/ ReadsTail(p)
             \/ ReservesAnswer(p) \/ AnswerAccepted(p) \/ AnswerRejected(p)
             \/ AnswerUnknown(p) \/ MarksAnswer(p) \/ MarkAcceptedFails(p)
             \/ ResponderDies(p)
      PROVE  RunInv' /\ Progress
  <2>1. CASE Responds(p)
    BY <2>1, LooksStep DEF Responds
  <2>2. CASE CatchesUp(p)
    BY <2>2, ReadsStep, ResetsStep, ProjectsStep, MarksCancelledStep DEF CatchesUp
  <2>3. CASE CaughtUp(p)
    <3>1. UNCHANGED <<OtherThanPoll, elapsed, run, eve, faults>> /\ poller[p].pc = "grace"
      BY <2>3 DEF CaughtUp, OtherThanRun, OtherThanPoll
    <3>2. CASE PollerDone(p)
      BY <3>1, <3>2, PollerEnds
    <3>3. CASE PollerAt(p, "read") /\ poller[p].rec.status \notin Terminal
      BY <3>1, <3>3, ReadsMoreStep
    <3> QED BY <2>3, <3>2, <3>3 DEF CaughtUp
  <2>4. CASE ReadsTail(p) \/ ReservesAnswer(p) \/ AnswerRejected(p) \/ MarksAnswer(p)
    BY <2>4, RunsUntouched DEF ReadsTail, ReservesAnswer, AnswerRejected, MarksAnswer
  <2>5. CASE MarkAcceptedFails(p)
    BY <2>5, RunsUntouched DEF MarkAcceptedFails
  <2>6. CASE AnswerAccepted(p)
    <3>1. responder[p].key \in Keys
      BY <2>6, CallKnown DEF AnswerAccepted, Calls
    <3> QED BY <2>6, <3>1, DeliversStep DEF AnswerAccepted
  <2>7. CASE AnswerUnknown(p)
    <3>1. UNCHANGED OtherThanCall /\ Fault /\ responder[p].key \in Keys
      BY <2>7, CallKnown DEF AnswerUnknown, Calls
    <3>2. CASE Delivers(responder[p].key, responder[p].requests)
      BY <3>1, <3>2, DeliversStep
    <3>3. CASE UNCHANGED eve
      BY <3>1, <3>3, RunsUntouched
    <3> QED BY <2>7, <3>2, <3>3 DEF AnswerUnknown
  <2>8. CASE ResponderDies(p)
    BY <2>8, PollerEnds DEF ResponderDies, OtherThanRun, OtherThanPoll
  <2> QED BY <1>3, <2>1, <2>2, <2>3, <2>4, <2>5, <2>6, <2>7, <2>8
<1>4. CASE LateAnswer
  <2>1. PICK m \in flight : Delivers(m.key, m.requests) \/ UNCHANGED eve
    BY <1>4 DEF LateAnswer
  <2>2. UNCHANGED OtherThanCall /\ faults' = faults /\ m.key \in Keys
    BY <1>4 DEF LateAnswer, AnswerTypes
  <2> QED BY <2>1, <2>2, DeliversStep, RunsUntouched
<1>5. CASE UNCHANGED <<vars, inputVars>>
  BY <1>5, NextKeepsRunInv DEF vars
<1> QED BY <1>1, <1>2, <1>3, <1>4, <1>5 DEF InputNext

-----------------------------------------------------------------------------
(* The steps of an answer. *)

(* A call that submits nothing, before and after its step.                  *)
Quiet(c) ==
    \/ c = NoCall
    \/ c \in CallType /\ c.phase \in {"sync", "tail", "reserve"}

(* A call that holds no reservation changes nothing that matters.           *)
LEMMA QuietStep ==
    ASSUME AnswerInv, NEW p \in Pollers, NEW c, Quiet(c),
           responder' = [responder EXCEPT ![p] = c],
           UNCHANGED <<inputs, flight, delivered>>
    PROVE  AnswerInv'
<1>1. responder'[p] = c /\ \A q \in Pollers \ {p} : responder'[q] = responder[q]
  BY DEF AnswerInv, AnswerTypes
<1>2. c.phase \notin {"send", "accepted", "failed", "submission-ambiguous"}
  BY DEF Quiet, NoCall
<1>3. AnswerTypes'
  <2>1. c = NoCall \/ c \in CallType
    BY DEF Quiet
  <2>2. responder' = [q \in Pollers |-> responder'[q]]
    BY DEF AnswerInv, AnswerTypes
  <2> QED BY <1>1, <2>1, <2>2 DEF AnswerInv, AnswerTypes
<1>4. OneAnswer' /\ Recorded'
  BY DEF AnswerInv, OneAnswer, Recorded, Taken
<1>5. \A q \in Pollers : Submits(q)' => q # p /\ responder'[q] = responder[q] /\ Submits(q)
  BY <1>1, <1>2 DEF Submits
<1>6. Submission' /\ OneSubmitter'
  BY <1>5 DEF AnswerInv, Submission, OneSubmitter, Taken
<1>7. InFlight'
  <2>1. ASSUME NEW m, NEW i, Behind(m, i) PROVE Behind(m, i)'
    BY <1>5, <2>1 DEF Behind
  <2> QED BY <2>1 DEF AnswerInv, InFlight, Taken
<1> QED BY <1>3, <1>4, <1>6, <1>7 DEF AnswerInv

(* A step that touches no answer.                                           *)
LEMMA AnswersUntouched ==
    ASSUME AnswerInv, UNCHANGED inputVars
    PROVE  AnswerInv'
<1>1. AnswerTypes' /\ OneAnswer' /\ Recorded'
  BY DEF inputVars, AnswerInv, AnswerTypes, OneAnswer, Recorded, Taken
<1>2. Submission' /\ OneSubmitter'
  BY DEF inputVars, AnswerInv, Submission, Submits, OneSubmitter, Taken
<1>3. \A m, i : Behind(m, i)' = Behind(m, i)
  BY DEF inputVars, Behind, Submits
<1>4. InFlight'
  BY <1>3 DEF inputVars, AnswerInv, InFlight, Taken
<1> QED BY <1>1, <1>2, <1>4 DEF AnswerInv

(* A client answers.                                                        *)
LEMMA RespondsStep ==
    ASSUME AnswerInv, NEW p \in Pollers, Responds(p)
    PROVE  AnswerInv'
<1>1. PICK k \in Keys, i \in ResponseKeys :
      \E n \in 1..Asked(eve[k].log) : \E requests \in SUBSET BatchAt(n) \ {{}} :
          responder' = [responder EXCEPT ![p] =
                [phase |-> "sync", key |-> k, id |-> i, requests |-> requests,
                 full |-> FALSE, count |-> 0]]
  BY DEF Responds
<1>2. PICK n \in 1..Asked(eve[k].log) : \E requests \in SUBSET BatchAt(n) \ {{}} :
          responder' = [responder EXCEPT ![p] =
                [phase |-> "sync", key |-> k, id |-> i, requests |-> requests,
                 full |-> FALSE, count |-> 0]]
  BY <1>1
<1>3. PICK requests \in SUBSET BatchAt(n) :
          responder' = [responder EXCEPT ![p] =
                [phase |-> "sync", key |-> k, id |-> i, requests |-> requests,
                 full |-> FALSE, count |-> 0]]
  BY <1>2
<1>4. requests \in RequestSets
  BY DEF RequestSets, BatchAt
<1> DEFINE c == [phase |-> "sync", key |-> k, id |-> i, requests |-> requests,
                 full |-> FALSE, count |-> 0]
<1>5. Quiet(c)
  BY <1>4 DEF Quiet, CallType
<1>6. UNCHANGED <<inputs, flight, delivered>>
  BY DEF Responds
<1> HIDE DEF c
<1> QED BY <1>3, <1>5, <1>6, QuietStep DEF c

(* An answer call reads the log on.                                         *)
LEMMA CatchesUpStep ==
    ASSUME RunInv, AnswerInv, NEW p \in Pollers, CatchesUp(p)
    PROVE  AnswerInv'
<1>1. UNCHANGED <<inputs, flight, delivered>> /\ Calls(p, "sync")
  BY DEF CatchesUp
<1>2. responder[p] \in CallType
  BY <1>1, CallKnown DEF AnswerInv, Calls
<1>3. CASE UNCHANGED responder
  BY <1>1, <1>3, AnswersUntouched DEF inputVars
<1>4. CASE responder' = [responder EXCEPT ![p].full = poller[p].page = PageSize]
  <2> DEFINE full == poller[p].page = PageSize
             c    == [responder[p] EXCEPT !.full = full]
  <2>1. full \in BOOLEAN
    OBVIOUS
  <2> HIDE DEF full
  <2>2. Quiet(c)
    BY <1>1, <1>2, <2>1 DEF Quiet, CallType, Calls
  <2>3. responder' = [responder EXCEPT ![p] = c]
    BY <1>4 DEF full, AnswerInv, AnswerTypes
  <2> HIDE DEF c
  <2> QED BY <1>1, <2>2, <2>3, QuietStep
<1>5. CASE CallEnds(p)
  BY <1>1, <1>5, QuietStep DEF Quiet, CallEnds
<1> QED BY <1>3, <1>4, <1>5 DEF CatchesUp

(* An answer call has read the log to its end.                              *)
LEMMA CaughtUpStep ==
    ASSUME RunInv, AnswerInv, NEW p \in Pollers, CaughtUp(p)
    PROVE  AnswerInv'
<1>1. UNCHANGED <<inputs, flight, delivered>> /\ Calls(p, "sync")
  BY DEF CaughtUp
<1>2. responder[p] \in CallType /\ poller[p].rec.count \in Nat
  BY <1>1, CallKnown, Typed DEF AnswerInv, Calls, RunInv
<1>3. CASE responder' = [responder EXCEPT ![p].phase = "tail", ![p].count = poller[p].rec.count]
  <2> DEFINE c == [responder[p] EXCEPT !.phase = "tail", !.count = poller[p].rec.count]
  <2>1. Quiet(c)
    BY <1>2 DEF Quiet, CallType
  <2>2. responder' = [responder EXCEPT ![p] = c]
    BY <1>3 DEF AnswerInv, AnswerTypes
  <2> HIDE DEF c
  <2> QED BY <1>1, <2>1, <2>2, QuietStep
<1>4. CASE responder' = [responder EXCEPT ![p].full = FALSE]
  <2> DEFINE c == [responder[p] EXCEPT !.full = FALSE]
  <2>1. Quiet(c)
    BY <1>1, <1>2 DEF Quiet, CallType, Calls
  <2>2. responder' = [responder EXCEPT ![p] = c]
    BY <1>4 DEF AnswerInv, AnswerTypes
  <2> HIDE DEF c
  <2> QED BY <1>1, <2>1, <2>2, QuietStep
<1>5. CASE CallEnds(p)
  BY <1>1, <1>5, QuietStep DEF Quiet, CallEnds
<1> QED BY <1>3, <1>4, <1>5 DEF CaughtUp

(* An answer call goes to another phase with the same batch.                *)
LEMMA CallMoves ==
    ASSUME AnswerTypes, NEW p \in Pollers, ~ Calls(p, "none"),
           NEW phase \in {"reserve", "send", "accepted", "failed", "submission-ambiguous"},
           CallAt(p, phase)
    PROVE  \E c \in CallType :
              /\ responder' = [responder EXCEPT ![p] = c]
              /\ c.phase = phase /\ c.key = responder[p].key /\ c.id = responder[p].id
              /\ c.requests = responder[p].requests
<1> DEFINE c == [responder[p] EXCEPT !.phase = phase]
<1>1. responder[p] \in CallType
  BY CallKnown
<1>2. c \in CallType /\ c.phase = phase /\ c.key = responder[p].key /\ c.id = responder[p].id
      /\ c.requests = responder[p].requests
  BY <1>1 DEF CallType
<1>3. responder' = [responder EXCEPT ![p] = c]
  BY DEF CallAt, AnswerTypes
<1> HIDE DEF c
<1> QED BY <1>2, <1>3

(* An answer call reads which requests are pending.                         *)
LEMMA ReadsTailStep ==
    ASSUME AnswerInv, NEW p \in Pollers, ReadsTail(p)
    PROVE  AnswerInv'
<1>1. UNCHANGED <<inputs, flight, delivered>> /\ Calls(p, "tail")
  BY DEF ReadsTail
<1>2. CASE CallAt(p, "reserve")
  BY <1>1, <1>2, CallMoves, QuietStep DEF Quiet, Calls, AnswerInv
<1>3. CASE CallEnds(p)
  BY <1>1, <1>3, QuietStep DEF Quiet, CallEnds
<1> QED BY <1>2, <1>3 DEF ReadsTail

(* An answer call reserves its batch under its key.                         *)
LEMMA ReservesAnswerStep ==
    ASSUME AnswerInv, NEW p \in Pollers, ReservesAnswer(p)
    PROVE  AnswerInv'
<1> DEFINE d   == responder[p]
           k   == d.key
           row == [status |-> "submitting", requests |-> d.requests]
           f   == Inserted(inputs[k], d.id, row)
<1>1. /\ d \in CallType /\ k \in Keys /\ d.id \in ResponseKeys /\ d.requests \in RequestSets
      /\ d.phase = "reserve"
  BY CallKnown DEF ReservesAnswer, Calls, AnswerInv
<1>2. UNCHANGED <<flight, delivered>>
  BY DEF ReservesAnswer
<1>3. CASE CallEnds(p) /\ UNCHANGED inputs
  BY <1>2, <1>3, QuietStep DEF Quiet, CallEnds
<1>4. CASE /\ d.id \notin DOMAIN inputs[k] /\ ~ Answered(k, d.requests)
           /\ inputs' = [inputs EXCEPT ![k] = f]
           /\ CallAt(p, "send")
  <2>1. PICK c \in CallType :
           /\ responder' = [responder EXCEPT ![p] = c]
           /\ c.phase = "send" /\ c.key = k /\ c.id = d.id /\ c.requests = d.requests
    BY <1>1, <1>4, CallMoves DEF AnswerInv, Calls
  <2>2. responder'[p] = c /\ \A q \in Pollers \ {p} : responder'[q] = responder[q]
    BY <2>1 DEF AnswerInv, AnswerTypes
  <2>3. /\ DOMAIN f = DOMAIN inputs[k] \cup {d.id} /\ f[d.id] = row
        /\ \A j \in DOMAIN inputs[k] : f[j] = inputs[k][j]
    BY <1>4 DEF Inserted
  <2>4. row \in AnswerType
    BY <1>1 DEF AnswerType
  <2>5. inputs'[k] = f /\ \A j \in Keys \ {k} : inputs'[j] = inputs[j]
    BY <1>1, <1>4 DEF AnswerInv, AnswerTypes
  <2>r. row.requests = d.requests /\ row.status = "submitting"
    OBVIOUS
  <2>d. d.id \notin DOMAIN inputs[k] /\ ~ Answered(k, d.requests)
    BY <1>4
  <2> HIDE DEF f, row
  <2>6. AnswerTypes'
    <3>1. inputs' = [j \in Keys |-> inputs'[j]]
      BY <1>4 DEF AnswerInv, AnswerTypes
    <3>2. f \in [DOMAIN f -> AnswerType]
      <4>1. f = [i \in DOMAIN f |-> f[i]]
        BY DEF f, Inserted
      <4>2. \A i \in DOMAIN f : f[i] \in AnswerType
        BY <1>1, <2>3, <2>4 DEF AnswerInv, AnswerTypes
      <4> QED BY <4>1, <4>2
    <3>3. responder' = [q \in Pollers |-> responder'[q]]
      BY <2>1 DEF AnswerInv, AnswerTypes
    <3> QED BY <1>2, <2>1, <2>2, <2>5, <3>1, <3>2, <3>3 DEF AnswerInv, AnswerTypes
  <2>7. \A i \in DOMAIN inputs[k] :
           inputs[k][i].status # "failed" => inputs[k][i].requests \cap d.requests = {}
    BY <2>d DEF Answered
  <2>8. OneAnswer'
    <3> SUFFICES ASSUME NEW j \in Keys, NEW i1 \in DOMAIN inputs'[j], NEW i2 \in DOMAIN inputs'[j],
                        i1 # i2, inputs'[j][i1].status # "failed", inputs'[j][i2].status # "failed"
                 PROVE  inputs'[j][i1].requests \cap inputs'[j][i2].requests = {}
      BY DEF OneAnswer
    <3>1. CASE j # k
      BY <2>5, <3>1 DEF AnswerInv, OneAnswer
    <3>2. CASE j = k
      BY <1>1, <2>r, <2>3, <2>5, <2>7, <3>2 DEF AnswerInv, OneAnswer
    <3> QED BY <3>1, <3>2
  <2>9. Recorded'
    BY <1>1, <1>2, <2>r, <2>3, <2>5, <2>d DEF AnswerInv, Recorded, Taken
  <2>10. d.requests \cap Taken(k) = {}
    BY <1>1, <2>7 DEF AnswerInv, Recorded
  <2>11. \A q \in Pollers \ {p} : Submits(q)' = Submits(q)
    BY <2>2 DEF Submits
  <2>12. \A q \in Pollers \ {p} : Submits(q) /\ responder[q].key = k => responder[q].id # d.id
    BY <2>d DEF AnswerInv, Submission
  <2>13. Submission' /\ OneSubmitter'
    <3>1. ASSUME NEW q \in Pollers \ {p}, Submits(q)
          PROVE  responder[q].key \in Keys
      BY <3>1 DEF AnswerInv, AnswerTypes, Submits, NoCall, CallType
    <3>2. Submission'
      <4> SUFFICES ASSUME NEW q \in Pollers, Submits(q)'
                   PROVE  LET e == responder'[q]
                          IN  /\ e.id \in DOMAIN inputs'[e.key]
                              /\ inputs'[e.key][e.id].requests = e.requests
                              /\ e.phase = "submission-ambiguous" => inputs'[e.key][e.id].status # "failed"
                              /\ e.phase # "submission-ambiguous" => inputs'[e.key][e.id].status = "submitting"
                              /\ e.phase \in {"send", "failed"} => e.requests \cap Taken(e.key) = {}
                              /\ e.phase = "accepted" => e.requests \subseteq Taken(e.key)
        BY <1>2 DEF Submission, Taken
      <4>1. CASE q = p
        BY <1>1, <2>r, <2>1, <2>2, <2>3, <2>5, <2>10, <4>1
      <4>2. CASE q # p
        <5>1. responder'[q] = responder[q] /\ Submits(q)
          BY <2>2, <2>11, <4>2
        <5> QED BY <2>3, <2>5, <3>1, <4>2, <5>1 DEF AnswerInv, Submission
      <4> QED BY <4>1, <4>2
    <3>3. OneSubmitter'
      BY <2>1, <2>2, <2>11, <2>12 DEF AnswerInv, OneSubmitter
    <3> QED BY <3>2, <3>3
  <2>14. InFlight'
    <3>1. ASSUME NEW m \in flight, NEW i \in ResponseKeys, Behind(m, i) PROVE Behind(m, i)'
      <4>1. m.key \in Keys
        BY DEF AnswerInv, AnswerTypes
      <4>2. m.key = k => i # d.id
        BY <3>1, <2>d DEF Behind
      <4>3. \A q \in Pollers : Submits(q)' /\ responder'[q].key = m.key /\ responder'[q].id = i
                => q # p /\ Submits(q) /\ responder'[q] = responder[q]
        BY <2>1, <2>2, <2>11, <4>2
      <4> QED BY <2>3, <2>5, <3>1, <4>1, <4>2, <4>3 DEF Behind
    <3> QED BY <1>2, <3>1 DEF AnswerInv, InFlight, Taken
  <2> QED BY <2>6, <2>8, <2>9, <2>13, <2>14 DEF AnswerInv
<1> QED BY <1>3, <1>4 DEF ReservesAnswer

(* The session takes the answer of a row for the first time.                *)
LEMMA TakenOnce ==
    ASSUME AnswerInv, NEW k \in Keys, NEW requests, Delivers(k, requests),
           requests \cap Taken(k) = {}
    PROVE  /\ delivered' = [j \in Keys |-> delivered'[j]]
           /\ \A j \in Keys \ {k} : delivered'[j] = delivered[j]
           /\ DOMAIN delivered'[k] = Taken(k) \cup requests
           /\ \A r \in Taken(k) : delivered'[k][r] = delivered[k][r] + 0
           /\ \A r \in requests : delivered'[k][r] = 1
<1> DEFINE bag == delivered[k] (+) SetToBag(requests)
<1>1. delivered' = [delivered EXCEPT ![k] = bag]
  BY DEF Delivers
<1>2. /\ DOMAIN bag = DOMAIN delivered[k] \cup requests
      /\ \A r \in DOMAIN delivered[k] : bag[r] = delivered[k][r] + 0
      /\ \A r \in requests : bag[r] = 1
  BY DEF (+), SetToBag, Taken
<1> HIDE DEF bag
<1> QED BY <1>1, <1>2 DEF AnswerInv, AnswerTypes, Taken

(* The batch of a row that did not fail is delivered.                       *)
LEMMA RecordedStays ==
    ASSUME AnswerInv, NEW k \in Keys, NEW i \in DOMAIN inputs[k],
           NEW requests, inputs[k][i].requests = requests,
           inputs[k][i].status # "failed",
           requests \cap Taken(k) = {},
           Delivers(k, requests), inputs' = inputs
    PROVE  /\ OneAnswer' /\ Recorded'
           /\ delivered' = [j \in Keys |-> delivered'[j]]
           /\ \A j \in Keys : Taken(j) \subseteq DOMAIN delivered'[j]
           /\ \A j \in Keys : \A x \in DOMAIN inputs[j] :
                 inputs[j][x].status # "failed" /\ ~ (j = k /\ x = i)
                 /\ inputs[j][x].requests \cap Taken(j) = {}
                 => inputs[j][x].requests \cap DOMAIN delivered'[j] = {}
           /\ requests \subseteq DOMAIN delivered'[k]
<1>1. /\ delivered' = [j \in Keys |-> delivered'[j]]
      /\ \A j \in Keys \ {k} : delivered'[j] = delivered[j]
      /\ DOMAIN delivered'[k] = Taken(k) \cup requests
      /\ \A r \in Taken(k) : delivered'[k][r] = delivered[k][r] + 0
      /\ \A r \in requests : delivered'[k][r] = 1
  BY TakenOnce
<1>2. \A j \in Keys \ {k} : DOMAIN delivered'[j] = Taken(j)
  BY <1>1 DEF Taken
<1>3. OneAnswer'
  BY DEF AnswerInv, OneAnswer
<1>4. Recorded'
  <2> SUFFICES ASSUME NEW j \in Keys
               PROVE  /\ \A r \in DOMAIN delivered'[j] :
                            /\ delivered'[j][r] = 1
                            /\ \E x \in DOMAIN inputs[j] : /\ r \in inputs[j][x].requests
                                                          /\ inputs[j][x].status # "failed"
                      /\ \A x \in DOMAIN inputs[j] : inputs[j][x].status = "accepted" =>
                            inputs[j][x].requests \subseteq DOMAIN delivered'[j]
    BY DEF Recorded, Taken
  <2>1. CASE j # k
    BY <1>1, <1>2, <2>1 DEF AnswerInv, Recorded, Taken
  <2>2. CASE j = k
    BY <1>1, <2>2 DEF AnswerInv, Recorded
  <2> QED BY <2>1, <2>2
<1>5. ASSUME NEW j \in Keys, NEW x \in DOMAIN inputs[j],
             inputs[j][x].status # "failed", ~ (j = k /\ x = i),
             inputs[j][x].requests \cap Taken(j) = {}
      PROVE  inputs[j][x].requests \cap DOMAIN delivered'[j] = {}
  <2>1. CASE j # k
    BY <1>2, <1>5, <2>1
  <2>2. CASE j = k
    <3>1. inputs[j][x].requests \cap requests = {}
      BY <1>5, <2>2 DEF AnswerInv, OneAnswer
    <3> QED BY <1>1, <1>5, <2>2, <3>1
  <2> QED BY <2>1, <2>2
<1> QED BY <1>1, <1>2, <1>3, <1>4, <1>5

(* What a call about to submit, or one that did, knows.                     *)
LEMMA SubmitterKnows ==
    ASSUME AnswerInv, NEW p \in Pollers, Submits(p)
    PROVE  LET c == responder[p]
           IN  /\ c \in CallType /\ c.key \in Keys /\ c.id \in ResponseKeys
               /\ c.id \in DOMAIN inputs[c.key]
               /\ inputs[c.key][c.id].requests = c.requests
               /\ inputs[c.key][c.id] \in AnswerType
               /\ c.phase = "submission-ambiguous" => inputs[c.key][c.id].status # "failed"
               /\ c.phase # "submission-ambiguous" => inputs[c.key][c.id].status = "submitting"
               /\ c.phase \in {"send", "failed"} => c.requests \cap Taken(c.key) = {}
               /\ c.phase = "accepted" => c.requests \subseteq Taken(c.key)
<1>1. responder[p] \in CallType /\ responder[p].key \in Keys /\ responder[p].id \in ResponseKeys
  BY CallKnown DEF Submits, Calls, AnswerInv
<1> QED BY <1>1 DEF AnswerInv, Submission, AnswerTypes

(* One call moves on, and the session may take its answer.                  *)
LEMMA SubmitterMoves ==
    ASSUME AnswerInv, NEW p \in Pollers, Submits(p),
           NEW phase \in {"send", "accepted", "failed", "submission-ambiguous"},
           CallAt(p, phase)
    PROVE  /\ responder' = [q \in Pollers |-> responder'[q]]
           /\ \A q \in Pollers : responder'[q] = NoCall \/ responder'[q] \in CallType
           /\ responder'[p].phase = phase
           /\ responder'[p].key = responder[p].key /\ responder'[p].id = responder[p].id
           /\ responder'[p].requests = responder[p].requests
           /\ \A q \in Pollers \ {p} : responder'[q] = responder[q]
           /\ \A q \in Pollers : Submits(q)' = Submits(q)
           /\ OneSubmitter'
<1>1. ~ Calls(p, "none")
  BY DEF Submits, Calls
<1>2. responder' = [responder EXCEPT ![p].phase = phase] /\ responder[p] \in CallType
  BY <1>1, CallKnown DEF CallAt, AnswerInv
<1> DEFINE c == [responder[p] EXCEPT !.phase = phase]
<1>3. c \in CallType /\ c.phase = phase /\ c.key = responder[p].key /\ c.id = responder[p].id
      /\ c.requests = responder[p].requests
  BY <1>2 DEF CallType
<1>4. responder' = [responder EXCEPT ![p] = c]
  BY <1>2 DEF AnswerInv, AnswerTypes
<1> HIDE DEF c
<1>5. /\ responder' = [q \in Pollers |-> responder'[q]]
      /\ responder'[p] = c /\ \A q \in Pollers \ {p} : responder'[q] = responder[q]
  BY <1>4 DEF AnswerInv, AnswerTypes
<1>6. \A q \in Pollers : Submits(q)' = Submits(q)
  BY <1>3, <1>5 DEF Submits
<1>7. OneSubmitter'
  BY <1>3, <1>5, <1>6 DEF AnswerInv, OneSubmitter
<1> QED BY <1>3, <1>5, <1>6, <1>7 DEF AnswerInv, AnswerTypes

(* The batch is sent and Eve takes it.                                      *)
LEMMA SubmittedStep ==
    ASSUME AnswerInv, NEW p \in Pollers, Calls(p, "send"),
           NEW phase \in {"accepted", "submission-ambiguous"}, CallAt(p, phase),
           Delivers(responder[p].key, responder[p].requests), UNCHANGED <<inputs, flight>>
    PROVE  AnswerInv'
<1> DEFINE c == responder[p]
           k == c.key
<1>1. Submits(p) /\ c.phase = "send"
  BY DEF Calls, Submits
<1>2. /\ k \in Keys /\ c.id \in DOMAIN inputs[k] /\ inputs[k][c.id].requests = c.requests
      /\ inputs[k][c.id].status = "submitting" /\ c.requests \cap Taken(k) = {}
  BY <1>1, SubmitterKnows
<1>3. /\ OneAnswer' /\ Recorded'
      /\ delivered' = [j \in Keys |-> delivered'[j]]
      /\ \A j \in Keys : Taken(j) \subseteq DOMAIN delivered'[j]
      /\ \A j \in Keys : \A x \in DOMAIN inputs[j] :
            inputs[j][x].status # "failed" /\ ~ (j = k /\ x = c.id)
            /\ inputs[j][x].requests \cap Taken(j) = {}
            => inputs[j][x].requests \cap DOMAIN delivered'[j] = {}
      /\ c.requests \subseteq DOMAIN delivered'[k]
  BY <1>2, RecordedStays
<1>4. /\ responder' = [q \in Pollers |-> responder'[q]]
      /\ \A q \in Pollers : responder'[q] = NoCall \/ responder'[q] \in CallType
      /\ responder'[p].phase = phase /\ responder'[p].key = k /\ responder'[p].id = c.id
      /\ responder'[p].requests = c.requests
      /\ \A q \in Pollers \ {p} : responder'[q] = responder[q]
      /\ \A q \in Pollers : Submits(q)' = Submits(q)
      /\ OneSubmitter'
  BY <1>1, SubmitterMoves
<1>5. AnswerTypes'
  BY <1>3, <1>4 DEF AnswerInv, AnswerTypes
<1>6. ASSUME NEW q \in Pollers \ {p}, Submits(q)
      PROVE  ~ (responder[q].key = k /\ responder[q].id = c.id)
  BY <1>1, <1>6 DEF AnswerInv, OneSubmitter
<1>7. Submission'
  <2>1. ASSUME NEW q \in Pollers \ {p}, Submits(q)
        PROVE  /\ responder[q].phase \in {"send", "failed"}
                    => responder[q].requests \cap DOMAIN delivered'[responder[q].key] = {}
               /\ responder[q].phase = "accepted"
                    => responder[q].requests \subseteq DOMAIN delivered'[responder[q].key]
    BY <2>1, <1>3, <1>6, SubmitterKnows
  <2>2. ASSUME NEW q \in Pollers \ {p}, Submits(q)
        PROVE  /\ responder[q].id \in DOMAIN inputs[responder[q].key]
               /\ inputs[responder[q].key][responder[q].id].requests = responder[q].requests
               /\ responder[q].phase = "submission-ambiguous"
                    => inputs[responder[q].key][responder[q].id].status # "failed"
               /\ responder[q].phase # "submission-ambiguous"
                    => inputs[responder[q].key][responder[q].id].status = "submitting"
    BY <2>2, SubmitterKnows
  <2>3. SUFFICES ASSUME NEW q \in Pollers, Submits(q)
                 PROVE  LET d == responder'[q]
                        IN  /\ d.id \in DOMAIN inputs[d.key]
                            /\ inputs[d.key][d.id].requests = d.requests
                            /\ d.phase = "submission-ambiguous" => inputs[d.key][d.id].status # "failed"
                            /\ d.phase # "submission-ambiguous" => inputs[d.key][d.id].status = "submitting"
                            /\ d.phase \in {"send", "failed"} =>
                                  d.requests \cap DOMAIN delivered'[d.key] = {}
                            /\ d.phase = "accepted" => d.requests \subseteq DOMAIN delivered'[d.key]
    BY <1>4 DEF Submission, Taken
  <2>4. CASE q = p
    BY <1>2, <1>3, <1>4, <2>4
  <2>5. CASE q # p
    <3>1. responder'[q] = responder[q]
      BY <1>4, <2>5
    <3> QED BY <2>1, <2>2, <2>3, <2>5, <3>1
  <2> QED BY <2>4, <2>5
<1>8. InFlight'
  <2> SUFFICES ASSUME NEW m \in flight
               PROVE  /\ m.requests \cap DOMAIN delivered'[m.key] = {}
                      /\ \E i \in ResponseKeys : Behind(m, i)'
    BY DEF InFlight, Taken
  <2>1. m.key \in Keys /\ m.requests \cap Taken(m.key) = {}
    BY DEF AnswerInv, AnswerTypes, InFlight
  <2>2. PICK i \in ResponseKeys : Behind(m, i)
    BY DEF AnswerInv, InFlight
  <2>3. ~ (m.key = k /\ i = c.id)
    BY <1>1, <2>2 DEF Behind
  <2>4. m.requests \cap DOMAIN delivered'[m.key] = {}
    BY <1>3, <2>1, <2>2, <2>3 DEF Behind
  <2>5. Behind(m, i)'
    BY <1>4, <2>2, <2>3 DEF Behind
  <2> QED BY <2>4, <2>5
<1> QED BY <1>3, <1>4, <1>5, <1>7, <1>8 DEF AnswerInv

(* The answer was refused, is lost or is still on its way.                  *)
LEMMA NotTakenStep ==
    ASSUME AnswerInv, NEW p \in Pollers, Calls(p, "send"),
           NEW phase \in {"failed", "submission-ambiguous"}, CallAt(p, phase),
           UNCHANGED <<inputs, delivered>>,
           \/ UNCHANGED flight
           \/ /\ phase = "submission-ambiguous"
              /\ flight' = flight \cup {[key |-> responder[p].key, requests |-> responder[p].requests]}
    PROVE  AnswerInv'
<1> DEFINE c == responder[p]
           k == c.key
           new == [key |-> k, requests |-> c.requests]
<1>1. Submits(p) /\ c.phase = "send"
  BY DEF Calls, Submits
<1>2. /\ k \in Keys /\ c.id \in DOMAIN inputs[k] /\ inputs[k][c.id].requests = c.requests
      /\ inputs[k][c.id].status = "submitting" /\ c.requests \cap Taken(k) = {}
      /\ c.requests \in RequestSets /\ c.id \in ResponseKeys
  BY <1>1, SubmitterKnows DEF CallType
<1>4. /\ responder' = [q \in Pollers |-> responder'[q]]
      /\ \A q \in Pollers : responder'[q] = NoCall \/ responder'[q] \in CallType
      /\ responder'[p].phase = phase /\ responder'[p].key = k /\ responder'[p].id = c.id
      /\ responder'[p].requests = c.requests
      /\ \A q \in Pollers \ {p} : responder'[q] = responder[q]
      /\ \A q \in Pollers : Submits(q)' = Submits(q)
      /\ OneSubmitter'
  BY <1>1, SubmitterMoves
<1>5. AnswerTypes'
  <2>1. new \in [key : Keys, requests : RequestSets]
    BY <1>2
  <2> QED BY <1>4, <2>1 DEF AnswerInv, AnswerTypes
<1>6. OneAnswer' /\ Recorded'
  BY DEF AnswerInv, OneAnswer, Recorded, Taken
<1>7. Submission'
  <2> SUFFICES ASSUME NEW q \in Pollers, Submits(q)
               PROVE  LET d == responder'[q]
                      IN  /\ d.id \in DOMAIN inputs[d.key]
                          /\ inputs[d.key][d.id].requests = d.requests
                          /\ d.phase = "submission-ambiguous" => inputs[d.key][d.id].status # "failed"
                          /\ d.phase # "submission-ambiguous" => inputs[d.key][d.id].status = "submitting"
                          /\ d.phase \in {"send", "failed"} => d.requests \cap Taken(d.key) = {}
                          /\ d.phase = "accepted" => d.requests \subseteq Taken(d.key)
    BY <1>4 DEF Submission, Taken
  <2>1. CASE q = p
    BY <1>2, <1>4, <2>1
  <2>2. CASE q # p
    <3>1. responder'[q] = responder[q]
      BY <1>4, <2>2
    <3> QED BY <3>1 DEF AnswerInv, Submission
  <2> QED BY <2>1, <2>2
<1>8. ASSUME NEW m \in flight, NEW i \in ResponseKeys, Behind(m, i) PROVE Behind(m, i)'
  BY <1>1, <1>4, <1>8 DEF Behind
<1>n. PICK n, i : n = new /\ i = c.id
  OBVIOUS
<1>9. phase = "submission-ambiguous" => Behind(n, i)'
  <2>1. \A q \in Pollers \ {p} : Submits(q) => ~ (responder[q].key = k /\ responder[q].id = c.id)
    BY <1>1 DEF AnswerInv, OneSubmitter
  <2> QED BY <1>2, <1>4, <1>n, <2>1 DEF Behind
<1>10. InFlight'
  <2>2. CASE UNCHANGED flight
    BY <2>2, <1>8 DEF AnswerInv, InFlight, Taken
  <2>3. CASE phase = "submission-ambiguous" /\ flight' = flight \cup {new}
    <3>1. \A m \in flight : /\ m.requests \cap DOMAIN delivered'[m.key] = {}
                            /\ \E x \in ResponseKeys : Behind(m, x)'
      BY <1>8 DEF AnswerInv, InFlight, Taken
    <3>2. n.requests \cap DOMAIN delivered'[n.key] = {} /\ \E x \in ResponseKeys : Behind(n, x)'
      BY <1>2, <1>9, <1>n, <2>3 DEF Taken
    <3> HIDE DEF new
    <3> QED BY <1>n, <2>3, <3>1, <3>2 DEF InFlight, Taken
  <2> QED BY <2>2, <2>3
<1> QED BY <1>4, <1>5, <1>6, <1>7, <1>10 DEF AnswerInv

(* A verdict changes the status of one row that waits for it, nothing else. *)
LEMMA RowSettled ==
    ASSUME AnswerInv, NEW p \in Pollers, Submits(p),
           NEW status \in {"accepted", "failed", "submission-ambiguous"},
           Transition(p, status)
    PROVE  LET k == responder[p].key
               i == responder[p].id
           IN  /\ inputs' = [j \in Keys |-> inputs'[j]]
               /\ \A j \in Keys : /\ DOMAIN inputs'[j] = DOMAIN inputs[j]
                                  /\ inputs'[j] \in [DOMAIN inputs[j] -> AnswerType]
               /\ \A j \in Keys : \A x \in DOMAIN inputs[j] :
                     /\ inputs'[j][x].requests = inputs[j][x].requests
                     /\ ~ (j = k /\ x = i) => inputs'[j][x].status = inputs[j][x].status
               /\ inputs[k][i].status = "submitting" => inputs'[k][i].status = status
               /\ inputs[k][i].status # "submitting" => inputs' = inputs
<1> DEFINE k == responder[p].key
           i == responder[p].id
           row == [inputs[k][i] EXCEPT !.status = status]
           f   == [inputs[k] EXCEPT ![i] = row]
<1>1. /\ k \in Keys /\ i \in DOMAIN inputs[k] /\ inputs[k][i] \in AnswerType
      /\ inputs[k] \in [DOMAIN inputs[k] -> AnswerType]
      /\ inputs = [j \in Keys |-> inputs[j]]
      /\ \A j \in Keys : inputs[j] \in [DOMAIN inputs[j] -> AnswerType]
  BY SubmitterKnows DEF AnswerInv, AnswerTypes
<1>2. CASE inputs[k][i].status # "submitting"
  <2>1. inputs' = inputs
    BY <1>2 DEF Transition
  <2> QED BY <1>1, <1>2, <2>1
<1>3. CASE inputs[k][i].status = "submitting"
  <2>1. inputs' = [inputs EXCEPT ![k][i].status = status]
    BY <1>3 DEF Transition
  <2>2. inputs' = [inputs EXCEPT ![k] = f]
    BY <2>1
  <2>3. row \in AnswerType /\ row.status = status /\ row.requests = inputs[k][i].requests
    BY <1>1 DEF AnswerType
  <2> HIDE DEF row
  <2>4. /\ f \in [DOMAIN inputs[k] -> AnswerType] /\ f[i] = row
        /\ \A x \in DOMAIN inputs[k] \ {i} : f[x] = inputs[k][x]
    BY <1>1, <2>3
  <2> HIDE DEF f
  <2>5. /\ inputs' = [j \in Keys |-> inputs'[j]] /\ inputs'[k] = f
        /\ \A j \in Keys \ {k} : inputs'[j] = inputs[j]
    BY <1>1, <2>2
  <2>6. \A j \in Keys : /\ DOMAIN inputs'[j] = DOMAIN inputs[j]
                        /\ inputs'[j] \in [DOMAIN inputs[j] -> AnswerType]
    BY <1>1, <2>4, <2>5
  <2>7. \A j \in Keys : \A x \in DOMAIN inputs[j] :
           /\ inputs'[j][x].requests = inputs[j][x].requests
           /\ ~ (j = k /\ x = i) => inputs'[j][x].status = inputs[j][x].status
    BY <1>1, <2>3, <2>4, <2>5
  <2>8. inputs'[k][i].status = status
    BY <2>3, <2>4, <2>5
  <2> QED BY <1>3, <2>5, <2>6, <2>7, <2>8
<1> QED BY <1>2, <1>3

(* The call that knows the verdict writes it, and ends or, when it does not *)
(* learn of its own commit, goes on to mark the row ambiguous.              *)
LEMMA SettlesStep ==
    ASSUME AnswerInv, NEW p \in Pollers,
           NEW phase \in {"accepted", "failed", "submission-ambiguous"},
           Calls(p, phase), Transition(p, phase) \/ (phase = "accepted" /\ UNCHANGED inputs),
           UNCHANGED <<flight, delivered>>,
           CallEnds(p) \/ (phase = "accepted" /\ CallAt(p, "submission-ambiguous"))
    PROVE  AnswerInv'
<1> DEFINE k == responder[p].key
           i == responder[p].id
<1>1. Submits(p) /\ responder[p].phase = phase
  BY DEF Calls, Submits
<1>2. /\ k \in Keys /\ i \in ResponseKeys /\ i \in DOMAIN inputs[k]
      /\ inputs[k][i].requests = responder[p].requests
      /\ phase = "submission-ambiguous" => inputs[k][i].status # "failed"
      /\ phase # "submission-ambiguous" => inputs[k][i].status = "submitting"
      /\ phase = "failed" => responder[p].requests \cap Taken(k) = {}
      /\ phase = "accepted" => responder[p].requests \subseteq Taken(k)
  BY <1>1, SubmitterKnows
<1>3. /\ inputs' = [j \in Keys |-> inputs'[j]]
      /\ \A j \in Keys : /\ DOMAIN inputs'[j] = DOMAIN inputs[j]
                         /\ inputs'[j] \in [DOMAIN inputs[j] -> AnswerType]
      /\ \A j \in Keys : \A x \in DOMAIN inputs[j] :
            /\ inputs'[j][x].requests = inputs[j][x].requests
            /\ ~ (j = k /\ x = i) => inputs'[j][x].status = inputs[j][x].status
      /\ inputs'[k][i].status \in {inputs[k][i].status, phase}
      /\ inputs[k][i].status # "submitting" => inputs' = inputs
  <2>1. CASE Transition(p, phase)
    BY <1>1, <2>1, RowSettled
  <2>2. CASE UNCHANGED inputs
    BY <2>2 DEF AnswerInv, AnswerTypes
  <2> QED BY <2>1, <2>2
<1>4. /\ responder' = [q \in Pollers |-> responder'[q]]
      /\ \A q \in Pollers \ {p} : responder'[q] = responder[q] /\ Submits(q)' = Submits(q)
      /\ \A q \in Pollers : responder'[q] = NoCall \/ responder'[q] \in CallType
      /\ OneSubmitter'
      /\ Submits(p)' => /\ phase = "accepted" /\ responder'[p].phase = "submission-ambiguous"
                        /\ responder'[p].key = k /\ responder'[p].id = i
                        /\ responder'[p].requests = responder[p].requests
  <2>1. CASE CallEnds(p)
    <3>1. /\ responder' = [q \in Pollers |-> responder'[q]] /\ responder'[p] = NoCall
          /\ \A q \in Pollers \ {p} : responder'[q] = responder[q]
      BY <2>1 DEF CallEnds, AnswerInv, AnswerTypes
    <3>2. ~ Submits(p)' /\ \A q \in Pollers \ {p} : Submits(q)' = Submits(q)
      BY <3>1 DEF Submits, NoCall
    <3>3. OneSubmitter'
      BY <3>1, <3>2 DEF OneSubmitter, AnswerInv
    <3> QED BY <3>1, <3>2, <3>3 DEF AnswerInv, AnswerTypes
  <2>2. CASE phase = "accepted" /\ CallAt(p, "submission-ambiguous")
    BY <1>1, <2>2, SubmitterMoves
  <2> QED BY <2>1, <2>2
<1>5. ASSUME NEW q \in Pollers \ {p}, Submits(q)
      PROVE  ~ (responder[q].key = k /\ responder[q].id = i)
  BY <1>1, <1>5 DEF AnswerInv, OneSubmitter
<1>6. AnswerTypes'
  BY <1>3, <1>4 DEF AnswerInv, AnswerTypes
<1> HIDE DEF k, i
<1>7. OneAnswer'
  <2>1. \A j \in Keys : \A x \in DOMAIN inputs[j] :
           inputs'[j][x].status # "failed" => inputs[j][x].status # "failed"
    BY <1>2, <1>3
  <2> QED BY <1>3, <2>1 DEF AnswerInv, OneAnswer
<1>8. Recorded'
  <2> SUFFICES ASSUME NEW j \in Keys
               PROVE  /\ \A r \in DOMAIN delivered[j] :
                            /\ delivered[j][r] = 1
                            /\ \E x \in DOMAIN inputs[j] : /\ r \in inputs'[j][x].requests
                                                          /\ inputs'[j][x].status # "failed"
                      /\ \A x \in DOMAIN inputs[j] : inputs'[j][x].status = "accepted" =>
                            inputs'[j][x].requests \subseteq DOMAIN delivered[j]
    BY <1>3 DEF Recorded, Taken
  <2>1. ASSUME NEW r \in DOMAIN delivered[j]
        PROVE  /\ delivered[j][r] = 1
               /\ \E x \in DOMAIN inputs[j] : /\ r \in inputs'[j][x].requests
                                             /\ inputs'[j][x].status # "failed"
    <3>1. delivered[j][r] = 1
      BY DEF AnswerInv, Recorded, Taken
    <3>2. PICK x \in DOMAIN inputs[j] : r \in inputs[j][x].requests /\ inputs[j][x].status # "failed"
      BY DEF AnswerInv, Recorded, Taken
    <3>3. inputs'[j][x].status # "failed"
      BY <1>2, <1>3, <3>2 DEF Taken
    <3> QED BY <1>3, <3>1, <3>2, <3>3
  <2>2. ASSUME NEW x \in DOMAIN inputs[j], inputs'[j][x].status = "accepted"
        PROVE  inputs'[j][x].requests \subseteq DOMAIN delivered[j]
    <3>1. CASE inputs[j][x].status = "accepted"
      BY <1>3, <3>1 DEF AnswerInv, Recorded, Taken
    <3>2. CASE inputs[j][x].status # "accepted"
      <4>1. j = k /\ x = i /\ phase = "accepted" /\ inputs'[k][i].requests = inputs[k][i].requests
        BY <1>2, <1>3, <2>2, <3>2
      <4> QED BY <1>2, <4>1 DEF Taken
    <3> QED BY <3>1, <3>2
  <2> QED BY <2>1, <2>2
<1>9. Submission'
  <2>1. ASSUME NEW q \in Pollers \ {p}, Submits(q)
        PROVE  LET c == responder[q]
               IN  /\ c.id \in DOMAIN inputs'[c.key]
                   /\ inputs'[c.key][c.id].requests = c.requests
                   /\ inputs'[c.key][c.id].status = inputs[c.key][c.id].status
    <3>1. /\ responder[q].key \in Keys /\ responder[q].id \in DOMAIN inputs[responder[q].key]
          /\ inputs[responder[q].key][responder[q].id].requests = responder[q].requests
      BY <2>1, SubmitterKnows
    <3>2. ~ (responder[q].key = k /\ responder[q].id = i)
      BY <1>5, <2>1
    <3> QED BY <1>3, <3>1, <3>2
  <2>2. ASSUME Submits(p)'
        PROVE  /\ i \in DOMAIN inputs'[k] /\ inputs'[k][i].requests = responder[p].requests
               /\ inputs'[k][i].status # "failed"
    BY <1>2, <1>3, <1>4, <2>2
  <2> SUFFICES ASSUME NEW q \in Pollers, Submits(q)'
               PROVE  LET d == responder'[q]
                      IN  /\ d.id \in DOMAIN inputs'[d.key]
                          /\ inputs'[d.key][d.id].requests = d.requests
                          /\ d.phase = "submission-ambiguous" => inputs'[d.key][d.id].status # "failed"
                          /\ d.phase # "submission-ambiguous" => inputs'[d.key][d.id].status = "submitting"
                          /\ d.phase \in {"send", "failed"} => d.requests \cap Taken(d.key) = {}
                          /\ d.phase = "accepted" => d.requests \subseteq Taken(d.key)
    BY DEF Submission, Taken
  <2>3. CASE q = p
    BY <1>4, <2>2, <2>3
  <2>4. CASE q # p
    <3>1. responder'[q] = responder[q] /\ Submits(q)
      BY <1>4, <2>4
    <3> QED BY <2>1, <2>4, <3>1 DEF AnswerInv, Submission
  <2> QED BY <2>3, <2>4
<1>10. InFlight'
  <2>1. ASSUME NEW m \in flight, NEW x \in ResponseKeys, Behind(m, x) PROVE Behind(m, x)'
    <3>1. m.key \in Keys
      BY DEF AnswerInv, AnswerTypes
    <3>2. m.key = k /\ x = i => phase = "submission-ambiguous"
      BY <1>1, <2>1 DEF Behind, k, i
    <3>3. inputs'[m.key][x].status \in {"submitting", "submission-ambiguous"}
      BY <1>3, <2>1, <3>1, <3>2 DEF Behind
    <3> QED BY <1>3, <1>4, <2>1, <3>1, <3>3 DEF Behind
  <2> QED BY <2>1 DEF AnswerInv, InFlight, Taken
<1> QED BY <1>4, <1>6, <1>7, <1>8, <1>9, <1>10 DEF AnswerInv

(* What was on its way arrives and is taken, or is refused.                 *)
LEMMA LateAnswerStep ==
    ASSUME AnswerInv, LateAnswer
    PROVE  AnswerInv'
<1>1. PICK m \in flight : /\ flight' = flight \ {m}
                          /\ \/ Delivers(m.key, m.requests)
                             \/ UNCHANGED delivered
  BY DEF LateAnswer
<1>2. UNCHANGED <<inputs, responder>> /\ m.key \in Keys
  BY DEF LateAnswer, AnswerInv, AnswerTypes
<1>3. \A n \in flight : \A j \in ResponseKeys : Behind(n, j)' = Behind(n, j)
  BY <1>2 DEF Behind, Submits
<1>4. CASE UNCHANGED delivered
  <2>1. InFlight'
    BY <1>1, <1>3, <1>4 DEF AnswerInv, InFlight, Taken
  <2>2. AnswerTypes' /\ OneAnswer' /\ Recorded'
    BY <1>1, <1>2, <1>4 DEF AnswerInv, AnswerTypes, OneAnswer, Recorded, Taken
  <2>3. Submission' /\ OneSubmitter'
    BY <1>2, <1>4 DEF AnswerInv, Submission, Submits, OneSubmitter, Taken
  <2> QED BY <2>1, <2>2, <2>3 DEF AnswerInv
<1>5. CASE Delivers(m.key, m.requests)
  <2>1. PICK i \in ResponseKeys : Behind(m, i)
    BY DEF AnswerInv, InFlight
  <2>2. /\ i \in DOMAIN inputs[m.key] /\ inputs[m.key][i].requests = m.requests
        /\ inputs[m.key][i].status # "failed" /\ m.requests \cap Taken(m.key) = {}
    BY <2>1 DEF Behind, AnswerInv, InFlight
  <2>3. /\ OneAnswer' /\ Recorded'
        /\ delivered' = [j \in Keys |-> delivered'[j]]
        /\ \A j \in Keys : Taken(j) \subseteq DOMAIN delivered'[j]
        /\ \A j \in Keys : \A x \in DOMAIN inputs[j] :
              inputs[j][x].status # "failed" /\ ~ (j = m.key /\ x = i)
              /\ inputs[j][x].requests \cap Taken(j) = {}
              => inputs[j][x].requests \cap DOMAIN delivered'[j] = {}
    BY <1>2, <1>5, <2>2, RecordedStays
  <2>4. AnswerTypes' /\ OneSubmitter'
    BY <1>1, <1>2, <2>3 DEF AnswerInv, AnswerTypes, OneSubmitter, Submits
  <2>5. Submission'
    <3>1. ASSUME NEW q \in Pollers, Submits(q)
          PROVE  /\ responder[q].phase \in {"send", "failed"}
                      => responder[q].requests \cap DOMAIN delivered'[responder[q].key] = {}
                 /\ responder[q].phase = "accepted"
                      => responder[q].requests \subseteq DOMAIN delivered'[responder[q].key]
      BY SMTT(30), <3>1, <2>1, <2>3, SubmitterKnows DEF Behind
    <3> QED BY <1>2, <3>1 DEF AnswerInv, Submission, Submits, Taken
  <2>6. InFlight'
    <3> SUFFICES ASSUME NEW n \in flight \ {m}
                 PROVE  n.requests \cap DOMAIN delivered'[n.key] = {}
      BY <1>1, <1>3 DEF AnswerInv, InFlight, Taken
    <3>1. n.key \in Keys /\ n.requests \cap Taken(n.key) = {}
      BY DEF AnswerInv, AnswerTypes, InFlight
    <3>2. PICK j \in ResponseKeys : Behind(n, j)
      BY DEF AnswerInv, InFlight
    <3>3. ~ (n.key = m.key /\ j = i)
      <4>1. n \in [key : Keys, requests : RequestSets] /\ m \in [key : Keys, requests : RequestSets]
        BY DEF AnswerInv, AnswerTypes
      <4>2. n.key = m.key /\ n.requests = m.requests => n = m
        BY <4>1
      <4> QED BY <2>2, <3>2, <4>2 DEF Behind
    <3> QED BY <2>3, <3>1, <3>2, <3>3 DEF Behind
  <2> QED BY <2>3, <2>4, <2>5, <2>6 DEF AnswerInv
<1> QED BY <1>1, <1>4, <1>5

(* No answer at the start.                                                  *)
LEMMA AnswerInvInit == InputInit => AnswerInv
<1> SUFFICES ASSUME InputInit PROVE AnswerInv
  OBVIOUS
<1>1. \A k \in Keys : inputs[k] = <<>> /\ DOMAIN inputs[k] = {} /\ DOMAIN delivered[k] = {}
  BY DEF InputInit, EmptyBag, SetToBag
<1>2. \A p \in Pollers : responder[p] = NoCall /\ ~ Submits(p)
  BY DEF InputInit, NoCall, Submits
<1>3. AnswerTypes
  BY <1>1, <1>2 DEF InputInit, AnswerTypes
<1> QED BY <1>1, <1>2, <1>3
    DEF InputInit, AnswerInv, OneAnswer, Recorded, Taken, Submission, OneSubmitter, InFlight

(* Every step keeps the invariant of the answers.                           *)
LEMMA InputNextKeepsAnswerInv ==
    ASSUME RunInv, AnswerInv, [InputNext]_<<vars, inputVars>>
    PROVE  AnswerInv'
<1>1. CASE UNCHANGED inputVars
  BY <1>1, AnswersUntouched
<1>2. CASE LateAnswer
  BY <1>2, LateAnswerStep
<1>3. ASSUME NEW p \in Pollers,
             \/ Responds(p) \/ CatchesUp(p) \/ CaughtUp(p) \/ ReadsTail(p)
             \/ ReservesAnswer(p) \/ AnswerAccepted(p) \/ AnswerRejected(p)
             \/ AnswerUnknown(p) \/ MarksAnswer(p) \/ MarkAcceptedFails(p)
             \/ ResponderDies(p)
      PROVE  AnswerInv'
  <2>1. CASE Responds(p) \/ CatchesUp(p) \/ CaughtUp(p) \/ ReadsTail(p) \/ ReservesAnswer(p)
    BY <2>1, RespondsStep, CatchesUpStep, CaughtUpStep, ReadsTailStep, ReservesAnswerStep
  <2>2. CASE AnswerAccepted(p)
    BY <2>2, SubmittedStep DEF AnswerAccepted
  <2>3. CASE AnswerRejected(p)
    BY <2>3, NotTakenStep DEF AnswerRejected
  <2>4. CASE AnswerUnknown(p)
    <3>1. Calls(p, "send") /\ CallAt(p, "submission-ambiguous") /\ UNCHANGED inputs
      BY <2>4 DEF AnswerUnknown
    <3>2. CASE Delivers(responder[p].key, responder[p].requests) /\ UNCHANGED flight
      BY <3>1, <3>2, SubmittedStep
    <3>3. CASE UNCHANGED delivered /\ flight' = flight \cup
                  {[key |-> responder[p].key, requests |-> responder[p].requests]}
      BY <3>1, <3>3, NotTakenStep
    <3>4. CASE UNCHANGED <<flight, delivered>>
      BY <3>1, <3>4, NotTakenStep
    <3> QED BY <2>4, <3>2, <3>3, <3>4 DEF AnswerUnknown
  <2>5. CASE MarksAnswer(p)
    <3>1. PICK phase \in {"accepted", "failed", "submission-ambiguous"} : responder[p].phase = phase
      BY <2>5 DEF MarksAnswer
    <3> QED BY <2>5, <3>1, SettlesStep DEF MarksAnswer, Calls
  <2>6. CASE MarkAcceptedFails(p)
    BY <2>6, SettlesStep DEF MarkAcceptedFails
  <2>7. CASE ResponderDies(p)
    BY <2>7, QuietStep DEF ResponderDies, CallEnds, Quiet
  <2> QED BY <1>3, <2>1, <2>2, <2>3, <2>4, <2>5, <2>6, <2>7
<1> QED BY <1>1, <1>2, <1>3 DEF InputNext, EveRuns

-----------------------------------------------------------------------------
(* The theorems about the table. *)

(* The invariant of the runs holds in every state.                          *)
LEMMA RunInvHolds == Spec => []RunInv
<1>1. RunInv /\ [Next]_vars => RunInv'
  BY NextKeepsRunInv
<1> QED BY RunInvInit, <1>1, PTL DEF Spec

(* Every variable of AgentRun stays in its type, the rows written from a     *)
(* projected page included (projectAgentRunFrom, updateProjection).          *)
THEOREM RunTypeCorrect == Spec => []TypeOK
BY RunInvHolds, PTL DEF RunInv

(* One Eve session per run, for any number of start calls, faults and       *)
(* reconciler passes (reserve, markSubmissionAmbiguous).                     *)
THEOREM StartedAtMostOnce == Spec => []AtMostOneStart
<1>1. RunInv => AtMostOneStart
  BY DEF RunInv, Rows, RowInv, AtMostOneStart
<1> QED BY <1>1, RunInvHolds, PTL

(* A cancelled run publishes nothing (updateProjection, markCancelled).      *)
THEOREM CancelledIsSilent == Spec => []CancelledPublishesNothing
<1>1. RunInv => CancelledPublishesNothing
  BY DEF RunInv, Rows, RowInv, CancelledPublishesNothing, ActiveStatuses
<1> QED BY <1>1, RunInvHolds, PTL

(* A verdict is never revised, except that an ambiguous submission may turn *)
(* out to be cancelled (updateProjection, markCancelled, attachSession).     *)
THEOREM VerdictsAreFinal == Spec => TerminalIsFinal
<1>1. RunInv /\ [Next]_vars =>
        [\A k \in Keys :
           run[k].status \in Terminal =>
              \/ run'[k].status = run[k].status
              \/ run[k].status = "submission-ambiguous" /\ run'[k].status = "cancelled"]_vars
  <2> SUFFICES ASSUME RunInv, [Next]_vars, NEW j \in Keys, run[j].status \in Terminal
               PROVE  \/ run'[j].status = run[j].status
                      \/ run[j].status = "submission-ambiguous" /\ run'[j].status = "cancelled"
    OBVIOUS
  <2>1. CASE UNCHANGED run
    BY <2>1
  <2>2. CASE \E k \in Keys : Moves(k)
    BY <2>2 DEF Moves, Later, Final
  <2> QED BY <2>1, <2>2, NextKeepsRunInv DEF Progress
<1> QED BY <1>1, RunInvHolds, PTL DEF Spec, TerminalIsFinal

(* The number of active runs only grows when a run is reserved.              *)
CapacityInv == IsFiniteSet(Active) /\ CapacityBound

(* A move of a known run makes no run active.                               *)
LEMMA ActiveUnlessReserved ==
    ASSUME RunInv, NEW k \in Keys, Moves(k), run[k].status # "absent"
    PROVE  Active' \subseteq Active
<1> SUFFICES ASSUME NEW j \in Keys, run'[j].status \in ActiveStatuses
             PROVE  run[j].status \in ActiveStatuses
  BY DEF Active
<1>1. CASE j # k
  BY <1>1 DEF Moves
<1>2. CASE j = k
  <2>1. run[k].status \in RunStatuses
    BY DEF RunInv, TypeOK, RowType
  <2>2. Final(run[k], run'[k])
    BY DEF Moves, Later
  <2> QED BY <1>2, <2>1, <2>2 DEF Final, Terminal, ActiveStatuses, RunStatuses
<1> QED BY <1>1, <1>2

(* Fewer active runs stay within the capacity.                              *)
LEMMA SmallerStaysWithin ==
    ASSUME CapacityInv, Active' \subseteq Active
    PROVE  CapacityInv'
<1>1. IsFiniteSet(Active') /\ Cardinality(Active') <= Cardinality(Active)
      /\ Cardinality(Active') \in Nat /\ Cardinality(Active) \in Nat
  BY FS_Subset, FS_CardinalityType DEF CapacityInv
<1>2. ASSUME NEW t \in Tenants
      PROVE  /\ Cardinality(ActiveOf(t)') <= Cardinality(ActiveOf(t))
             /\ Cardinality(ActiveOf(t)') \in Nat /\ Cardinality(ActiveOf(t)) \in Nat
  <2>1. ActiveOf(t)' \subseteq ActiveOf(t) /\ ActiveOf(t) \subseteq Active
    BY DEF ActiveOf
  <2>2. IsFiniteSet(ActiveOf(t))
    BY <2>1, FS_Subset DEF CapacityInv
  <2> QED BY <2>1, <2>2, FS_Subset, FS_CardinalityType
<1> QED BY <1>1, <1>2, RunConstants DEF CapacityInv, CapacityBound

(* The reservation counts the active runs before it adds one.               *)
LEMMA ReservedFits ==
    ASSUME RunInv, CapacityInv, NEW k \in Keys, Reserve(k)
    PROVE  CapacityInv'
<1>1. /\ run[k].status = "absent" /\ run'[k].status = "submitting" /\ ~ AtCapacity(k)
      /\ \A j \in Keys \ {k} : run'[j] = run[j]
  BY DEF Reserve, Reservable, WriteRun, AbsentRow, RunInv, TypeOK
<1>2. k \notin Active /\ Active' = Active \cup {k}
  BY <1>1 DEF Active, ActiveStatuses
<1>3. IsFiniteSet(Active') /\ Cardinality(Active') = Cardinality(Active) + 1
      /\ Cardinality(Active) \in Nat
  BY <1>2, FS_AddElement, FS_CardinalityType DEF CapacityInv
<1>4. MaxActive > 0 => Cardinality(Active') <= MaxActive
  BY <1>1, <1>3, RunConstants DEF AtCapacity
<1>5. ASSUME NEW t \in Tenants, MaxActivePerTenant > 0
      PROVE  Cardinality(ActiveOf(t)') <= MaxActivePerTenant
  <2>1. IsFiniteSet(ActiveOf(t)) /\ Cardinality(ActiveOf(t)) \in Nat
    <3>1. ActiveOf(t) \subseteq Active
      BY DEF ActiveOf
    <3> QED BY <3>1, FS_Subset, FS_CardinalityType DEF CapacityInv
  <2>2. CASE TenantOf[k] # t
    <3>1. ActiveOf(t)' = ActiveOf(t)
      BY <1>2, <2>2 DEF ActiveOf
    <3> QED BY <1>5, <3>1 DEF CapacityInv, CapacityBound
  <2>3. CASE TenantOf[k] = t
    <3>1. ActiveOf(t)' = ActiveOf(t) \cup {k} /\ k \notin ActiveOf(t)
      BY <1>2, <2>3 DEF ActiveOf
    <3>2. Cardinality(ActiveOf(t)') = Cardinality(ActiveOf(t)) + 1
      BY <2>1, <3>1, FS_AddElement
    <3>3. ~ (Cardinality(ActiveOf(t)) >= MaxActivePerTenant)
      BY <1>1, <1>5, <2>3 DEF AtCapacity
    <3> QED BY <2>1, <3>2, <3>3, RunConstants
  <2> QED BY <2>2, <2>3
<1> QED BY <1>3, <1>4, <1>5 DEF CapacityInv, CapacityBound

(* Progress keeps the capacity.                                             *)
LEMMA ProgressKeepsCapacity ==
    ASSUME RunInv, CapacityInv, Progress
    PROVE  CapacityInv'
<1>1. CASE UNCHANGED run
  <2>1. Active' = Active
    BY <1>1 DEF Active
  <2> QED BY <2>1, SmallerStaysWithin
<1>2. CASE \E k \in Keys : Moves(k) /\ run[k].status # "absent"
  BY <1>2, ActiveUnlessReserved, SmallerStaysWithin
<1>3. CASE \E k \in Keys : Reserve(k)
  BY <1>3, ReservedFits
<1> QED BY <1>1, <1>2, <1>3 DEF Progress

(* No active run at the start.                                              *)
LEMMA CapacityInit == Init => CapacityInv
<1> SUFFICES ASSUME Init PROVE CapacityInv
  OBVIOUS
<1>1. Active = {}
  BY DEF Init, Active, ActiveStatuses, AbsentRow
<1>2. IsFiniteSet(Active) /\ Cardinality(Active) = 0
  BY <1>1, FS_EmptySet
<1>3. \A t \in Tenants : ActiveOf(t) = Active
  BY <1>1 DEF ActiveOf
<1> QED BY <1>2, <1>3, RunConstants DEF CapacityInv, CapacityBound

(* The limits of reserve hold over the table at all times.                   *)
THEOREM CapacityRespected == Spec => []CapacityBound
<1>1. RunInv /\ CapacityInv /\ [Next]_vars => CapacityInv'
  BY NextKeepsRunInv, ProgressKeepsCapacity
<1>2. Spec => []CapacityInv
  BY CapacityInit, RunInvHolds, <1>1, PTL DEF Spec
<1> QED BY <1>2, PTL DEF CapacityInv

-----------------------------------------------------------------------------
(* The theorems about the answers, and those about the table once more:     *)
(* answering, which takes sessions on and reads their streams, moves no run *)
(* in a way an inspection does not.                                         *)

(* Both invariants hold in every state of the composed system.              *)
LEMMA InputInvHolds == InputSpec => [](RunInv /\ AnswerInv)
<1>1. InputInit => RunInv /\ AnswerInv
  BY RunInvInit, AnswerInvInit DEF InputInit
<1>2. RunInv /\ AnswerInv /\ [InputNext]_<<vars, inputVars>> => (RunInv /\ AnswerInv)'
  BY InputNextKeepsRunInv, InputNextKeepsAnswerInv DEF AnswerInv
<1> QED BY <1>1, <1>2, PTL DEF InputSpec

(* An input request is answered once and never recorded as failed after the *)
(* session took it, for any number of keys, calls, batches and late answers *)
(* (reserve, respondAgentRun and the three marks of the input store).       *)
THEOREM AnsweredOnce == InputSpec => []InputAnsweredOnce
<1>1. RunInv /\ AnswerInv => InputAnsweredOnce
  BY DEF AnswerInv, Recorded, InputAnsweredOnce, Taken, BagToSet
<1> QED BY <1>1, InputInvHolds, PTL

(* No run is started twice while its requests are being answered            *)
(* (submitReservedAgentRun, attachAgentRunSession).                         *)
THEOREM AnsweringStartsNothing == InputSpec => []AtMostOneStart
<1>1. RunInv /\ AnswerInv => AtMostOneStart
  BY DEF RunInv, Rows, RowInv, AtMostOneStart
<1> QED BY <1>1, InputInvHolds, PTL

(* Nor does answering exceed the capacity that reserve hands out            *)
(* (reserveAgentRun, under the advisory lock).                              *)
THEOREM AnsweringKeepsCapacity == InputSpec => []CapacityBound
<1> DEFINE Inv == RunInv /\ AnswerInv
<1>1. InputInit => CapacityInv
  BY CapacityInit DEF InputInit
<1>2. Inv /\ CapacityInv /\ [InputNext]_<<vars, inputVars>> => CapacityInv'
  BY InputNextKeepsRunInv, ProgressKeepsCapacity DEF AnswerInv
<1>3. CapacityInv => CapacityBound
  BY DEF CapacityInv
<1>4. InputSpec => []Inv
  BY InputInvHolds
<1> HIDE DEF Inv
<1> QED BY <1>1, <1>2, <1>3, <1>4, PTL DEF InputSpec

-----------------------------------------------------------------------------
(* The stream read in pages against the stream read in one go. *)

(* The projection, with its flags, after the first n events of a stream     *)
(* that is read in one go.                                                  *)
After(log, n) == Accumulated(EmptyProjection, log)[n]

(* Two accumulators no event tells apart: the fields of the row that the    *)
(* projection does not compute, and its count, do not matter.               *)
Same(a, b) ==
    /\ a.cancelled = b.cancelled /\ a.input = b.input /\ a.auth = b.auth
    /\ a.p.status = b.p.status /\ a.p.result = b.p.result
    /\ a.p.failure = b.p.failure /\ a.p.steps = b.p.steps

Pending == {"running", "waiting-input", "waiting-authorization"}

(* While no verdict is reached the status tells all flags: what the next    *)
(* page starts from is what the flags are.                                  *)
Coherent(a) ==
    a.p.status \in Pending =>
        /\ ~ a.cancelled /\ ~ a.p.failure
        /\ a.input = (a.p.status = "waiting-input")
        /\ a.auth = (a.p.status = "waiting-authorization")

(* Where Eve stands after the n events of its stream, and what they project *)
(* to.                                                                      *)
Phase(state, log, n, a) ==
    /\ state = "live" => a.p.status = "running"
    /\ state \in {"asking", "parked"} =>
          a.p.status \in {"waiting-input", "waiting-authorization"}
    /\ state = "asking" => n > 0 /\ (a.p.status = "waiting-input" => log[n] = "input.requested")
    /\ state = "parked" /\ a.p.status = "waiting-input" => log[n - 1] = "input.requested"
    /\ state = "ending" =>
          (a.cancelled \/ a.p.failure) /\ a.p.status \in {"failed", "cancelled"}

StreamInv(e) ==
    /\ \A n \in 0..Len(e.log) : Coherent(After(e.log, n))
    /\ Phase(e.state, e.log, Len(e.log), After(e.log, Len(e.log)))

(* A row, or a copy of one, against the stream: its steps are those of the  *)
(* first count events; without a verdict the next page goes on exactly      *)
(* where they end; with one, it is the verdict of an earlier prefix.        *)
Exact(r, log) ==
    /\ r.steps = After(log, r.count).p.steps
    /\ r.status = "submitting" /\ ~ r.cancel => r.count = 0
    /\ r.status \in ActiveStatuses /\ ~ r.cancel => Same(Begin(r), After(log, r.count))
    /\ r.session /\ ~ r.cancel /\ r.status \in {"completed", "failed", "cancelled"} =>
          /\ \E n \in 0..r.count : r.status = After(log, n).p.status
          /\ r.status # "cancelled" => r.result = After(log, r.count).p.result

Streams == \A k \in Keys : StreamInv(eve[k])

ExactRows == \A k \in Keys : Exact(run[k], eve[k].log)

ExactCopies ==
    \A p \in Pollers : poller[p].pc # "idle" => Exact(poller[p].rec, eve[RunOf(p)].log)

ExactInv == Streams /\ ExactRows /\ ExactCopies

(* The fold of the whole stream, event by event.                            *)
LEMMA AfterUnfolds ==
    ASSUME NEW log, Len(log) \in Nat
    PROVE  /\ After(log, 0) = Begin(EmptyProjection)
           /\ \A n \in 1..Len(log) : After(log, n) = Apply(After(log, n - 1), log[n])
BY AccumulatedUnfolds DEF After

(* What the fold starts from.                                               *)
LEMMA AfterNothing ==
    ASSUME NEW log, Len(log) \in Nat
    PROVE  /\ After(log, 0).p = EmptyProjection
           /\ After(log, 0).cancelled = FALSE /\ After(log, 0).input = FALSE
           /\ After(log, 0).auth = FALSE
<1>1. EmptyProjection.status = "running"
  BY DEF EmptyProjection
<1>2. Begin(EmptyProjection) =
         [p |-> EmptyProjection, cancelled |-> FALSE, input |-> FALSE, auth |-> FALSE]
  BY <1>1 DEF Begin
<1> QED BY <1>2, AfterUnfolds

(* One event keeps the projection well typed.                               *)
LEMMA ApplyProjectionType ==
    ASSUME NEW a \in Flags(ProjectionType), a.p.status \in Reported, NEW e \in Events
    PROVE  Apply(a, e) \in Flags(ProjectionType) /\ Apply(a, e).p.status \in Reported
<1> USE DEF Flags, ProjectionType, Reported, RunStatuses, Results
<1>1. CASE e = "turn.started"
  BY <1>1 DEF Apply, Undecided
<1>2. CASE e = "input.requested"
  BY <1>2 DEF Apply
<1>3. CASE e = "authorization.required"
  BY <1>3 DEF Apply
<1>4. CASE e = "authorization.completed"
  BY <1>4 DEF Apply
<1>5. CASE e = "result.completed"
  BY <1>5 DEF Apply
<1>6. CASE e = "message.completed"
  BY <1>6 DEF Apply
<1>7. CASE e = "step.completed"
  BY <1>7 DEF Apply
<1>8. CASE e = "turn.cancelled"
  BY <1>8 DEF Apply
<1>9. CASE e = "turn.failed"
  BY <1>9 DEF Apply
<1>10. CASE e = "session.completed"
  BY <1>10 DEF Apply, Undecided
<1>11. CASE e = "session.waiting"
  BY <1>11 DEF Apply, Parked
<1> QED BY <1>1, <1>2, <1>3, <1>4, <1>5, <1>6, <1>7, <1>8, <1>9, <1>10, <1>11 DEF Events

(* Every value of the fold is well typed.                                   *)
LEMMA AfterType ==
    ASSUME NEW log \in Seq(Events), NEW n \in 0..Len(log)
    PROVE  After(log, n) \in Flags(ProjectionType) /\ After(log, n).p.status \in Reported
<1> DEFINE Good(m) == After(log, m) \in Flags(ProjectionType) /\ After(log, m).p.status \in Reported
           Bad == {m \in 0..Len(log) : ~ Good(m)}
<1>1. Len(log) \in Nat /\ \A m \in 1..Len(log) : log[m] \in Events
  OBVIOUS
<1>2. Good(0)
  <2>1. EmptyProjection \in ProjectionType /\ EmptyProjection.status = "running"
    BY DEF EmptyProjection, ProjectionType, RunStatuses, Results
  <2>2. Begin(EmptyProjection) =
           [p |-> EmptyProjection, cancelled |-> FALSE, input |-> FALSE, auth |-> FALSE]
    BY <2>1 DEF Begin
  <2>3. After(log, 0) = Begin(EmptyProjection)
    BY <1>1, AfterUnfolds
  <2>4. Begin(EmptyProjection) \in Flags(ProjectionType)
    BY <2>1, <2>2 DEF Flags
  <2>5. Begin(EmptyProjection).p.status \in Reported
    BY <2>1, <2>2 DEF Reported
  <2> QED BY <2>3, <2>4, <2>5
<1> SUFFICES ASSUME Bad # {} PROVE FALSE
  OBVIOUS
<1>3. PICK m \in Bad : \A i \in Bad : m <= i
  <2>1. Bad \subseteq Nat
    BY <1>1
  <2> HIDE DEF Bad
  <2> QED BY <2>1, LeastNatural
<1>4. m \in 1..Len(log) /\ m - 1 \in 0..Len(log) /\ ~ (m <= m - 1)
  BY <1>1, <1>2, <1>3
<1>5. Good(m - 1)
  BY <1>3, <1>4
<1>6. Good(m)
  BY <1>1, <1>4, <1>5, AfterUnfolds, ApplyProjectionType
<1> QED BY <1>3, <1>6

(* Streams that agree on their first n events have the same fold of them.   *)
LEMMA AfterAgrees ==
    ASSUME NEW log, NEW other, Len(log) \in Nat, Len(other) \in Nat,
           NEW n \in Nat, n <= Len(log), n <= Len(other),
           \A i \in 1..n : log[i] = other[i]
    PROVE  After(log, n) = After(other, n)
<1> DEFINE Bad == {m \in 0..n : After(log, m) # After(other, m)}
<1> SUFFICES ASSUME Bad # {} PROVE FALSE
  OBVIOUS
<1>1. PICK m \in Bad : \A i \in Bad : m <= i
  <2>1. Bad \subseteq Nat
    OBVIOUS
  <2> HIDE DEF Bad
  <2> QED BY <2>1, LeastNatural
<1>2. m # 0
  BY <1>1, AfterUnfolds
<1>3. /\ m \in 1..Len(log) /\ m \in 1..Len(other) /\ m \in 1..n
      /\ m - 1 \in 0..n /\ ~ (m <= m - 1)
  BY <1>1, <1>2
<1>4. After(log, m - 1) = After(other, m - 1)
  BY <1>1, <1>3
<1>5. After(log, m) = After(other, m)
  BY <1>3, <1>4, AfterUnfolds
<1> QED BY <1>1, <1>5

(* The projection of the first n events.                                    *)
LEMMA PrefixIsAfter ==
    ASSUME NEW log \in Seq(Events), NEW n \in 0..Len(log)
    PROVE  LET q == ProjectAll(SubSeq(log, 1, n))
               a == After(log, n).p
           IN  q.status = a.status /\ q.steps = a.steps /\ q.result = a.result
<1> DEFINE pre == SubSeq(log, 1, n)
<1>1. Len(log) \in Nat /\ n \in Nat /\ n <= Len(log)
  OBVIOUS
<1>2. Len(pre) = n /\ \A i \in 1..n : pre[i] = log[i]
  BY <1>1
<1>3. pre \in Seq(Events)
  BY <1>1
<1> HIDE DEF pre
<1>4. After(pre, n) = After(log, n)
  BY <1>1, <1>2, AfterAgrees
<1>5. After(log, n).p \in ProjectionType
  BY AfterType DEF Flags
<1>6. ProjectAll(pre) = [After(log, n).p EXCEPT !.count = EmptyProjection.count + n]
  BY <1>2, <1>4 DEF ProjectAll, Project, After
<1> QED BY <1>5, <1>6 DEF pre, ProjectionType

(* An event counts its step whatever the flags are.                         *)
LEMMA ApplySteps ==
    ASSUME NEW a \in Flags(RowType), NEW b \in Flags(ProjectionType), a.p.steps = b.p.steps,
           NEW e \in Events
    PROVE  Apply(a, e).p.steps = Apply(b, e).p.steps
<1> USE DEF Flags, RowType, ProjectionType
<1>1. CASE e = "turn.started"
  BY <1>1 DEF Apply
<1>2. CASE e = "input.requested"
  BY <1>2 DEF Apply
<1>3. CASE e = "authorization.required"
  BY <1>3 DEF Apply
<1>4. CASE e = "authorization.completed"
  BY <1>4 DEF Apply
<1>5. CASE e = "result.completed"
  BY <1>5 DEF Apply
<1>6. CASE e = "message.completed"
  BY <1>6 DEF Apply
<1>7. CASE e = "step.completed"
  BY <1>7 DEF Apply
<1>8. CASE e = "turn.cancelled"
  BY <1>8 DEF Apply
<1>9. CASE e = "turn.failed"
  BY <1>9 DEF Apply
<1>10. CASE e = "session.completed"
  BY <1>10 DEF Apply
<1>11. CASE e = "session.waiting"
  BY <1>11 DEF Apply
<1> QED BY <1>1, <1>2, <1>3, <1>4, <1>5, <1>6, <1>7, <1>8, <1>9, <1>10, <1>11 DEF Events

(* One event keeps accumulators alike.                                      *)
LEMMA ApplySame ==
    ASSUME NEW a \in Flags(RowType), NEW b \in Flags(ProjectionType), Same(a, b),
           NEW e \in Events
    PROVE  Same(Apply(a, e), Apply(b, e))
<1> USE DEF Flags, RowType, ProjectionType, Same
<1>1. CASE e = "turn.started"
  BY ZenonT(30), <1>1 DEF Apply, Undecided
<1>2. CASE e = "input.requested"
  BY <1>2 DEF Apply
<1>3. CASE e = "authorization.required"
  BY <1>3 DEF Apply
<1>4. CASE e = "authorization.completed"
  BY <1>4 DEF Apply
<1>5. CASE e = "result.completed"
  BY <1>5 DEF Apply
<1>6. CASE e = "message.completed"
  BY <1>6 DEF Apply
<1>7. CASE e = "step.completed"
  BY <1>7 DEF Apply
<1>8. CASE e = "turn.cancelled"
  BY <1>8 DEF Apply
<1>9. CASE e = "turn.failed"
  BY <1>9 DEF Apply
<1>10. CASE e = "session.completed"
  BY <1>10 DEF Apply, Undecided
<1>11. CASE e = "session.waiting"
  BY <1>11 DEF Apply, Parked
<1> QED BY <1>1, <1>2, <1>3, <1>4, <1>5, <1>6, <1>7, <1>8, <1>9, <1>10, <1>11 DEF Events

(* A page goes on with the fold of the stream where the row left off.       *)
LEMMA PageContinues ==
    ASSUME NEW r \in RowType, r.status \in ActiveStatuses, NEW log \in Seq(Events),
           NEW page \in Seq(Events), r.count + Len(page) <= Len(log),
           \A i \in 1..Len(page) : page[i] = log[r.count + i],
           r.steps = After(log, r.count).p.steps,
           NEW n \in 0..Len(page)
    PROVE  /\ Accumulated(r, page)[n].p.steps = After(log, r.count + n).p.steps
           /\ Same(Begin(r), After(log, r.count)) =>
                 Same(Accumulated(r, page)[n], After(log, r.count + n))
<1> DEFINE a == Accumulated(r, page)
           c == r.count
           Good(m) == /\ a[m].p.steps = After(log, c + m).p.steps
                      /\ Same(Begin(r), After(log, c)) => Same(a[m], After(log, c + m))
           Bad == {m \in 0..Len(page) : ~ Good(m)}
<1>1. /\ Len(page) \in Nat /\ Len(log) \in Nat /\ c \in Nat
      /\ \A m \in 1..Len(page) : page[m] \in Events
  BY DEF RowType
<1>2. /\ a[0] = Begin(r)
      /\ \A m \in 1..Len(page) : a[m] = Apply(a[m - 1], page[m])
  BY <1>1, AccumulatedUnfolds
<1>3. \A m \in 0..Len(page) : a[m] \in Flags(RowType)
  BY AccumulatedType
<1>4. \A m \in 1..Len(page) :
         /\ c + m \in 1..Len(log) /\ c + (m - 1) \in 0..Len(log)
         /\ After(log, c + m) = Apply(After(log, c + (m - 1)), page[m])
         /\ After(log, c + (m - 1)) \in Flags(ProjectionType)
  <2> SUFFICES ASSUME NEW m \in 1..Len(page)
               PROVE  /\ c + m \in 1..Len(log) /\ c + (m - 1) \in 0..Len(log)
                      /\ After(log, c + m) = Apply(After(log, c + (m - 1)), page[m])
                      /\ After(log, c + (m - 1)) \in Flags(ProjectionType)
    OBVIOUS
  <2>1. c + m \in 1..Len(log) /\ c + (m - 1) \in 0..Len(log) /\ (c + m) - 1 = c + (m - 1)
    BY <1>1
  <2>2. After(log, c + m) = Apply(After(log, (c + m) - 1), log[c + m])
    BY <1>1, <2>1, AfterUnfolds
  <2>3. page[m] = log[c + m]
    OBVIOUS
  <2> QED BY <2>1, <2>2, <2>3, AfterType
<1>5. Good(0)
  <2>1. Begin(r).p.steps = r.steps
    BY DEF Begin, RowType
  <2>2. c + 0 = c
    BY <1>1
  <2> QED BY <1>2, <2>1, <2>2
<1> HIDE DEF a, c
<1> SUFFICES ASSUME Bad # {} PROVE FALSE
  BY DEF a, c
<1>6. PICK m \in Bad : \A i \in Bad : m <= i
  <2>1. Bad \subseteq Nat
    BY <1>1
  <2> HIDE DEF Bad
  <2> QED BY <2>1, LeastNatural
<1>7. m \in 1..Len(page) /\ m - 1 \in 0..Len(page) /\ ~ (m <= m - 1)
  <2>1. m # 0 /\ m \in 0..Len(page)
    BY <1>5
  <2> HIDE DEF Bad
  <2> QED BY <1>1, <2>1
<1>8. Good(m - 1)
  BY <1>6, <1>7
<1> DEFINE l == After(log, c + (m - 1))
<1>9. /\ a[m] = Apply(a[m - 1], page[m]) /\ a[m - 1] \in Flags(RowType)
      /\ After(log, c + m) = Apply(l, page[m]) /\ l \in Flags(ProjectionType)
      /\ page[m] \in Events
  <2>1. a[m] = Apply(a[m - 1], page[m])
    BY <1>2, <1>7
  <2>2. a[m - 1] \in Flags(RowType)
    BY <1>3, <1>7
  <2>3. After(log, c + m) = Apply(l, page[m]) /\ l \in Flags(ProjectionType)
    BY <1>4, <1>7
  <2>4. page[m] \in Events
    BY <1>1, <1>7
  <2> QED BY <2>1, <2>2, <2>3, <2>4
<1>10. /\ a[m - 1].p.steps = l.p.steps
       /\ Same(Begin(r), After(log, c)) => Same(a[m - 1], l)
  BY <1>8
<1> HIDE DEF l
<1>11. a[m].p.steps = After(log, c + m).p.steps
  BY <1>9, <1>10, ApplySteps
<1>12. Same(Begin(r), After(log, c)) => Same(a[m], After(log, c + m))
  BY <1>9, <1>10, ApplySame
<1> QED BY <1>6, <1>11, <1>12

(* The projection of a page against the projection of the stream.           *)
LEMMA ProjectExact ==
    ASSUME NEW r \in RowType, r.status \in ActiveStatuses, NEW log \in Seq(Events),
           NEW page \in Seq(Events), r.count + Len(page) <= Len(log),
           \A i \in 1..Len(page) : page[i] = log[r.count + i],
           r.steps = After(log, r.count).p.steps
    PROVE  LET q == Project(r, page)
               a == After(log, q.count)
           IN  /\ q.count = r.count + Len(page)
               /\ q.steps = a.p.steps
               /\ Same(Begin(r), After(log, r.count)) =>
                     /\ q.status = a.p.status /\ q.result = a.p.result
                     /\ q.failure = a.p.failure
<1> DEFINE n == Len(page)
           b == Accumulated(r, page)[n]
<1>1. n \in 0..Len(page) /\ n \in Nat /\ r.count \in Nat
  BY DEF RowType
<1>2. b \in Flags(RowType)
  BY <1>1, AccumulatedType
<1>3. /\ b.p.steps = After(log, r.count + n).p.steps
      /\ Same(Begin(r), After(log, r.count)) => Same(b, After(log, r.count + n))
  BY <1>1, PageContinues
<1>4. Project(r, page) = [b.p EXCEPT !.count = r.count + n]
  BY DEF Project
<1>5. b.p \in RowType
  BY <1>2 DEF Flags
<1> HIDE DEF b, n
<1>6. /\ Project(r, page).count = r.count + n /\ Project(r, page).steps = b.p.steps
      /\ Project(r, page).status = b.p.status /\ Project(r, page).result = b.p.result
      /\ Project(r, page).failure = b.p.failure
  BY <1>1, <1>4, <1>5 DEF RowType
<1> QED BY <1>3, <1>6 DEF Same, n

-----------------------------------------------------------------------------
(* The stream: which events Eve emits, and what they project to. *)

(* The event e is one that Eve may emit in this state, and leads to next.   *)
Fits(state, log, e, next) ==
    \/ state = "live" /\ next = "live"
       /\ e \in {"step.completed", "message.completed", "result.completed"}
    \/ state = "live" /\ next = "asking" /\ e \in {"input.requested", "authorization.required"}
    \/ state = "asking" /\ next = "parked" /\ e = "session.waiting"
    \/ /\ state = "parked" /\ next = "live"
       /\ e = IF log[Len(log) - 1] = "input.requested"
              THEN "turn.started" ELSE "authorization.completed"
    \/ state = "live" /\ next = "idle" /\ e = "session.waiting"
    \/ state = "live" /\ next = "ending" /\ e = "turn.failed"
    \/ state \in {"live", "asking", "parked"} /\ next = "ending" /\ e = "turn.cancelled"
    \/ state = "ending" /\ next = "idle" /\ e = "session.waiting"

(* The events a stream has stay where they are.                             *)
Extends(log, longer) ==
    /\ Len(log) <= Len(longer)
    /\ \A i \in 1..Len(log) : log[i] = longer[i]

(* An event that Eve emits in a turn leaves the flags to be read from the   *)
(* status, and the stream where its state says.                             *)
LEMMA FitsCoherent ==
    ASSUME NEW log \in Seq(Events), NEW a \in Flags(ProjectionType), Coherent(a),
           NEW state, NEW next, NEW e \in Events,
           Phase(state, log, Len(log), a), Fits(state, log, e, next)
    PROVE  /\ Coherent(Apply(a, e))
           /\ Phase(next, Append(log, e), Len(log) + 1, Apply(a, e))
<1> DEFINE n == Len(log)
           more == Append(log, e)
           b == Apply(a, e)
<1>0. n \in Nat /\ n + 1 > 0 /\ more[n + 1] = e /\ (n > 0 => more[(n + 1) - 1] = log[n])
  OBVIOUS
<1> HIDE DEF n, more
<1>t. /\ a.p.status \in RunStatuses /\ a.p.failure \in BOOLEAN
      /\ a.cancelled \in BOOLEAN /\ a.input \in BOOLEAN /\ a.auth \in BOOLEAN
  BY DEF Flags, ProjectionType
<1>1. CASE state = "live" /\ next = "live"
           /\ e \in {"step.completed", "message.completed", "result.completed"}
  <2>1. /\ b.p.status = a.p.status /\ b.p.failure = a.p.failure
        /\ b.cancelled = a.cancelled /\ b.input = a.input /\ b.auth = a.auth
    <3>1. CASE e = "step.completed"
      BY <3>1 DEF Apply, Flags, ProjectionType
    <3>2. CASE e = "message.completed"
      BY <3>2 DEF Apply, Flags, ProjectionType
    <3>3. CASE e = "result.completed"
      BY <3>3 DEF Apply, Flags, ProjectionType
    <3> QED BY <1>1, <3>1, <3>2, <3>3
  <2> HIDE DEF b
  <2>2. Coherent(b) /\ Phase(next, more, n + 1, b)
    BY <1>1, <2>1 DEF Coherent, Phase
  <2> QED BY <2>2 DEF b, n, more
<1>2. CASE state = "live" /\ next = "asking" /\ e = "input.requested"
  <2>1. /\ b.p.status = "waiting-input" /\ b.p.failure = a.p.failure
        /\ b.cancelled = a.cancelled /\ b.input = TRUE /\ b.auth = a.auth
    BY <1>2 DEF Apply, Flags, ProjectionType
  <2> HIDE DEF b
  <2>2. a.p.status = "running"
    BY <1>2 DEF Phase
  <2>3. Coherent(b) /\ Phase(next, more, n + 1, b)
    BY <1>0, <1>2, <2>1, <2>2 DEF Coherent, Phase, Pending
  <2> QED BY <2>3 DEF b, n, more
<1>3. CASE state = "live" /\ next = "asking" /\ e = "authorization.required"
  <2>1. /\ b.p.status = "waiting-authorization" /\ b.p.failure = a.p.failure
        /\ b.cancelled = a.cancelled /\ b.input = a.input /\ b.auth = TRUE
    BY <1>3 DEF Apply, Flags, ProjectionType
  <2> HIDE DEF b
  <2>2. a.p.status = "running"
    BY <1>3 DEF Phase
  <2>3. Coherent(b) /\ Phase(next, more, n + 1, b)
    BY <1>0, <1>3, <2>1, <2>2 DEF Coherent, Phase, Pending
  <2> QED BY <2>3 DEF b, n, more
<1>4. CASE state = "asking" /\ next = "parked" /\ e = "session.waiting"
  <2>1. a.p.status \in {"waiting-input", "waiting-authorization"}
        /\ n > 0 /\ (a.p.status = "waiting-input" => log[n] = "input.requested")
    BY <1>4 DEF Phase, n
  <2>2. Parked(a) = a.p.status
    BY <2>1 DEF Coherent, Pending, Parked
  <2>3. /\ b.p.status = a.p.status /\ b.p.failure = a.p.failure
        /\ b.cancelled = a.cancelled /\ b.input = a.input /\ b.auth = a.auth
    BY <1>4, <2>2 DEF Apply, Flags, ProjectionType
  <2> HIDE DEF b
  <2>4. Coherent(b) /\ Phase(next, more, n + 1, b)
    BY <1>0, <1>4, <2>1, <2>3 DEF Coherent, Phase
  <2> QED BY <2>4 DEF b, n, more
<1>5. CASE state = "parked" /\ next = "live" /\ e = "turn.started"
  <2>1. a.p.status \in {"waiting-input", "waiting-authorization"}
    BY <1>5 DEF Phase
  <2>2. Undecided(a)
    BY <2>1 DEF Coherent, Pending, Undecided
  <2>3. /\ b.p.status = "running" /\ b.p.failure = a.p.failure
        /\ b.cancelled = a.cancelled /\ b.input = FALSE /\ b.auth = FALSE
    BY <1>5, <2>2 DEF Apply, Flags, ProjectionType
  <2> HIDE DEF b
  <2>4. Coherent(b) /\ Phase(next, more, n + 1, b)
    BY <1>5, <2>1, <2>3 DEF Coherent, Phase, Pending
  <2> QED BY <2>4 DEF b, n, more
<1>6. CASE state = "parked" /\ next = "live" /\ e = "authorization.completed"
           /\ log[n - 1] # "input.requested"
  <2>1. a.p.status = "waiting-authorization"
    BY <1>6 DEF Phase, n
  <2>2. /\ b.p.status = "running" /\ b.p.failure = a.p.failure
        /\ b.cancelled = a.cancelled /\ b.input = a.input /\ b.auth = FALSE
    BY <1>6 DEF Apply, Flags, ProjectionType
  <2> HIDE DEF b
  <2>3. Coherent(b) /\ Phase(next, more, n + 1, b)
    BY <1>6, <2>1, <2>2 DEF Coherent, Phase, Pending
  <2> QED BY <2>3 DEF b, n, more
<1>7. CASE state = "live" /\ next = "idle" /\ e = "session.waiting"
  <2>1. a.p.status = "running"
    BY <1>7 DEF Phase
  <2>2. Parked(a) = "completed"
    BY <2>1 DEF Coherent, Pending, Parked
  <2>3. b.p.status = "completed"
    BY <1>7, <2>2 DEF Apply, Flags, ProjectionType
  <2> HIDE DEF b
  <2>4. Coherent(b) /\ Phase(next, more, n + 1, b)
    BY <1>7, <2>3 DEF Coherent, Phase, Pending
  <2> QED BY <2>4 DEF b, n, more
<1>8. CASE next = "ending" /\ e = "turn.failed"
  <2>1. b.p.status = "failed" /\ b.p.failure = TRUE
    BY <1>8 DEF Apply, Flags, ProjectionType
  <2> HIDE DEF b
  <2>2. Coherent(b) /\ Phase(next, more, n + 1, b)
    BY <1>8, <2>1 DEF Coherent, Phase, Pending
  <2> QED BY <2>2 DEF b, n, more
<1>9. CASE next = "ending" /\ e = "turn.cancelled"
  <2>1. b.p.status = "cancelled" /\ b.cancelled = TRUE
    BY <1>9 DEF Apply, Flags, ProjectionType
  <2> HIDE DEF b
  <2>2. Coherent(b) /\ Phase(next, more, n + 1, b)
    BY <1>9, <2>1 DEF Coherent, Phase, Pending
  <2> QED BY <2>2 DEF b, n, more
<1>10. CASE state = "ending" /\ next = "idle" /\ e = "session.waiting"
  <2>1. a.cancelled \/ a.p.failure
    BY <1>10 DEF Phase
  <2>2. Parked(a) \in {"cancelled", "failed"}
    BY <2>1 DEF Parked
  <2>3. b.p.status \in {"cancelled", "failed"}
    BY <1>10, <2>2 DEF Apply, Flags, ProjectionType
  <2> HIDE DEF b
  <2>4. Coherent(b) /\ Phase(next, more, n + 1, b)
    BY <1>10, <2>3 DEF Coherent, Phase, Pending
  <2> QED BY <2>4 DEF b, n, more
<1> QED BY <1>1, <1>2, <1>3, <1>4, <1>5, <1>6, <1>7, <1>8, <1>9, <1>10 DEF Fits, n

(* The last event of a session that is reset is one after which nothing     *)
(* pends.                                                                   *)
LEMMA TailCoherent ==
    ASSUME NEW a \in Flags(ProjectionType), Coherent(a),
           NEW e \in {"turn.failed", "session.completed"}
    PROVE  Coherent(Apply(a, e))
<1>1. CASE e = "turn.failed"
  <2>1. Apply(a, e).p.status = "failed"
    BY <1>1 DEF Apply, Flags, ProjectionType
  <2> QED BY <2>1 DEF Coherent, Pending
<1>2. CASE e = "session.completed"
  <2>1. Undecided(a) => Apply(a, e).p.status = "completed"
    BY <1>2 DEF Apply, Flags, ProjectionType
  <2>2. ~ Undecided(a) => Apply(a, e).p.status = a.p.status
    BY <1>2 DEF Apply, Flags, ProjectionType
  <2>3. a.p.status \in Pending => Undecided(a)
    BY DEF Coherent, Undecided
  <2> QED BY <2>1, <2>2, <2>3 DEF Coherent, Pending
<1> QED BY <1>1, <1>2

(* One event more: the fold of the events before it does not change.        *)
LEMMA AfterAppend ==
    ASSUME NEW log \in Seq(Events), NEW e \in Events
    PROVE  LET more == Append(log, e)
           IN  /\ Extends(log, more) /\ Len(more) = Len(log) + 1 /\ more \in Seq(Events)
               /\ \A n \in 0..Len(log) : After(more, n) = After(log, n)
               /\ After(more, Len(more)) = Apply(After(log, Len(log)), e)
<1> DEFINE more == Append(log, e)
           l == Len(log)
<1>1. /\ l \in Nat /\ Len(more) = l + 1 /\ more \in Seq(Events) /\ more[l + 1] = e
      /\ \A i \in 1..l : log[i] = more[i]
  OBVIOUS
<1> HIDE DEF more
<1>2. \A n \in 0..Len(log) : After(more, n) = After(log, n)
  <2> SUFFICES ASSUME NEW n \in 0..Len(log) PROVE After(more, n) = After(log, n)
    OBVIOUS
  <2>1. n \in Nat /\ n <= Len(log) /\ n <= Len(more) /\ \A i \in 1..n : log[i] = more[i]
    BY <1>1
  <2> QED BY <1>1, <2>1, AfterAgrees
<1>3. After(more, l + 1) = Apply(After(more, (l + 1) - 1), more[l + 1])
  BY <1>1, AfterUnfolds
<1>4. (l + 1) - 1 = l /\ l \in 0..l
  BY <1>1
<1> QED BY <1>1, <1>2, <1>3, <1>4 DEF Extends, more

(* A step of a stream.                                                      *)
StreamMove(k) ==
    \/ eve'[k].log = eve[k].log /\ eve'[k].state = eve[k].state
    \/ \E e \in Events, next \in EveStates :
          /\ Fits(eve[k].state, eve[k].log, e, next)
          /\ eve'[k].log = Append(eve[k].log, e) /\ eve'[k].state = next
    \/ /\ eve'[k].state = "gone"
       /\ \/ eve'[k].log = eve[k].log
          \/ \E e \in {"turn.failed", "session.completed"} : eve'[k].log = Append(eve[k].log, e)
    \/ eve[k].log = <<>> /\ eve'[k].log = <<>> /\ eve'[k].state = "live"

(* Every step of a stream extends it and keeps it readable in pages.        *)
LEMMA StreamMoves ==
    ASSUME TypeOK, NEW k \in Keys, StreamInv(eve[k]), StreamMove(k)
    PROVE  StreamInv(eve'[k]) /\ Extends(eve[k].log, eve'[k].log)
<1> DEFINE log == eve[k].log
           l == Len(log)
<1>1. log \in Seq(Events) /\ l \in Nat /\ l \in 0..l
  BY Typed
<1>2. \A n \in 0..l : Coherent(After(log, n))
  BY DEF StreamInv
<1>3. After(log, l) \in Flags(ProjectionType) /\ Coherent(After(log, l))
  BY <1>1, <1>2, AfterType
<1>4. ASSUME NEW e \in Events, eve'[k].log = Append(log, e), Coherent(Apply(After(log, l), e))
      PROVE  /\ Extends(log, eve'[k].log) /\ Len(eve'[k].log) = l + 1
             /\ After(eve'[k].log, l + 1) = Apply(After(log, l), e)
             /\ \A n \in 0..Len(eve'[k].log) : Coherent(After(eve'[k].log, n))
  <2> DEFINE more == eve'[k].log
  <2>1. /\ Extends(log, more) /\ Len(more) = l + 1
        /\ \A n \in 0..l : After(more, n) = After(log, n)
        /\ After(more, l + 1) = Apply(After(log, l), e)
    BY <1>1, <1>4, AfterAppend
  <2> HIDE DEF more
  <2>2. ASSUME NEW n \in 0..Len(more) PROVE Coherent(After(more, n))
    <3>1. n \in 0..l \/ n = l + 1
      BY <1>1, <2>1
    <3> QED BY <3>1, <1>2, <1>4, <2>1
  <2> QED BY <2>1, <2>2 DEF more
<1>5. CASE eve'[k].log = log /\ eve'[k].state = eve[k].state
  BY <1>1, <1>5 DEF Extends, StreamInv
<1>6. ASSUME NEW e \in Events, NEW next \in EveStates,
             Fits(eve[k].state, log, e, next), eve'[k].log = Append(log, e), eve'[k].state = next
      PROVE  StreamInv(eve'[k]) /\ Extends(log, eve'[k].log)
  <2>1. Phase(eve[k].state, log, l, After(log, l))
    BY DEF StreamInv
  <2>2. /\ Coherent(Apply(After(log, l), e))
        /\ Phase(next, Append(log, e), l + 1, Apply(After(log, l), e))
    BY <1>1, <1>3, <1>6, <2>1, FitsCoherent
  <2>3. /\ Extends(log, eve'[k].log) /\ Len(eve'[k].log) = l + 1
        /\ After(eve'[k].log, l + 1) = Apply(After(log, l), e)
        /\ \A n \in 0..Len(eve'[k].log) : Coherent(After(eve'[k].log, n))
    BY <1>4, <1>6, <2>2
  <2>4. Phase(eve'[k].state, eve'[k].log, Len(eve'[k].log), After(eve'[k].log, Len(eve'[k].log)))
    BY <1>6, <2>2, <2>3
  <2> QED BY <2>3, <2>4 DEF StreamInv
<1>7. CASE eve'[k].state = "gone" /\ eve'[k].log = log
  BY <1>1, <1>2, <1>7 DEF StreamInv, Phase, Extends
<1>8. ASSUME NEW e \in {"turn.failed", "session.completed"},
             eve'[k].state = "gone", eve'[k].log = Append(log, e)
      PROVE  StreamInv(eve'[k]) /\ Extends(log, eve'[k].log)
  <2>1. e \in Events
    BY DEF Events
  <2>2. Coherent(Apply(After(log, l), e))
    BY <1>3, TailCoherent
  <2>3. /\ Extends(log, eve'[k].log)
        /\ \A n \in 0..Len(eve'[k].log) : Coherent(After(eve'[k].log, n))
    BY <1>4, <1>8, <2>1, <2>2
  <2> QED BY <1>8, <2>3 DEF StreamInv, Phase
<1>9. CASE log = <<>> /\ eve'[k].log = <<>> /\ eve'[k].state = "live"
  <2>1. l = 0 /\ Len(eve'[k].log) = 0
    BY <1>9
  <2>2. After(log, 0).p.status = "running"
    <3>1. EmptyProjection.status = "running"
      BY DEF EmptyProjection
    <3> QED BY <1>1, <3>1, AfterNothing
  <2> QED BY <1>2, <1>9, <2>1, <2>2 DEF StreamInv, Phase, Extends
<1> QED BY <1>5, <1>6, <1>7, <1>8, <1>9 DEF StreamMove

(* What Eve emits fits the state of its session.                            *)
LEMMA EveEmitsFit ==
    ASSUME NEW k \in Keys, EveStep(k)
    PROVE  \E e \in Events, next \in EveStates :
              Emit(k, e, next) /\ Fits(eve[k].state, eve[k].log, e, next)
<1> USE DEF Events, EveStates, Fits
<1>1. CASE eve[k].state = "live" /\ \E e \in {"step.completed", "message.completed", "result.completed"} :
                Emit(k, e, "live")
  BY <1>1
<1>2. CASE eve[k].state = "live" /\ \E e \in {"input.requested", "authorization.required"} :
                Emit(k, e, "asking")
  BY <1>2
<1>3. CASE eve[k].state = "asking" /\ Emit(k, "session.waiting", "parked")
  BY <1>3
<1>4. CASE eve[k].state = "parked"
           /\ Emit(k, IF eve[k].log[Len(eve[k].log) - 1] = "input.requested"
                      THEN "turn.started" ELSE "authorization.completed", "live")
  <2>1. CASE eve[k].log[Len(eve[k].log) - 1] = "input.requested"
    <3>1. Emit(k, "turn.started", "live") /\ Fits(eve[k].state, eve[k].log, "turn.started", "live")
      BY <1>4, <2>1
    <3> QED BY <3>1
  <2>2. CASE eve[k].log[Len(eve[k].log) - 1] # "input.requested"
    <3>1. /\ Emit(k, "authorization.completed", "live")
          /\ Fits(eve[k].state, eve[k].log, "authorization.completed", "live")
      BY <1>4, <2>2
    <3> QED BY <3>1
  <2> QED BY <2>1, <2>2
<1>5. CASE eve[k].state = "live" /\ Emit(k, "session.waiting", "idle")
  BY <1>5
<1>6. CASE eve[k].state = "live" /\ Emit(k, "turn.failed", "ending")
  BY <1>6
<1>7. CASE InTurn(k) /\ Emit(k, "turn.cancelled", "ending")
  BY <1>7 DEF InTurn
<1>8. CASE eve[k].state = "ending" /\ Emit(k, "session.waiting", "idle")
  BY <1>8
<1> QED BY <1>1, <1>2, <1>3, <1>4, <1>5, <1>6, <1>7, <1>8 DEF EveStep

(* A reset of a session is a step of its stream, and of no other.           *)
LEMMA ResetMovesStream ==
    ASSUME TypeOK, NEW j \in Keys, EveReset(j), NEW k \in Keys
    PROVE  StreamMove(k)
<1>1. CASE UNCHANGED eve
  BY <1>1 DEF StreamMove
<1>2. CASE eve[j].state \notin {"none", "gone"}
  <2>1. PICK tail \in {<<>>, <<"turn.failed">>, <<"session.completed">>} :
            eve' = [eve EXCEPT ![j].state = "gone", ![j].log = @ \o tail]
    BY <1>2 DEF EveReset
  <2>2. CASE k # j
    BY <2>1, <2>2 DEF StreamMove, TypeOK
  <2>3. CASE k = j
    <3>1. eve[k].log \in Seq(Events) /\ eve[k] \in SessionType
      BY Typed DEF TypeOK
    <3>2. eve'[k].state = "gone" /\ eve'[k].log = eve[k].log \o tail
      BY <2>1, <2>3, <3>1 DEF TypeOK, SessionType
    <3>3. eve[k].log \o <<>> = eve[k].log
      BY <3>1
    <3>4. \A e \in Events : eve[k].log \o <<e>> = Append(eve[k].log, e)
      BY <3>1
    <3>5. "turn.failed" \in Events /\ "session.completed" \in Events
      BY DEF Events
    <3> QED BY <2>1, <3>2, <3>3, <3>4, <3>5 DEF StreamMove
  <2> QED BY <2>2, <2>3
<1> QED BY <1>1, <1>2 DEF EveReset

(* The session of a call that starts has nothing in its stream.             *)
LEMMA CreationMovesStream ==
    ASSUME RunInv, NEW s \in Starters, starter[s].pc = "start", EveCreated(KeyOf(s)),
           NEW k \in Keys
    PROVE  StreamMove(k)
<1>1. /\ KeyOf(s) \in Keys /\ starts[KeyOf(s)] = 0
      /\ RowInv(run[KeyOf(s)], starts[KeyOf(s)], eve[KeyOf(s)])
  BY CallKnows DEF CallInv, RunInv, Rows
<1>2. eve[KeyOf(s)].log = <<>>
  BY <1>1 DEF RowInv
<1>3. CASE k # KeyOf(s)
  BY <1>3 DEF EveCreated, StreamMove, RunInv, TypeOK
<1>4. CASE k = KeyOf(s)
  BY <1>1, <1>2, <1>4 DEF EveCreated, StreamMove, RunInv, TypeOK
<1> QED BY <1>3, <1>4

(* Whatever happens, a stream only moves forward.                           *)
LEMMA NextMovesStreams ==
    ASSUME RunInv, [Next]_vars, NEW k \in Keys
    PROVE  StreamMove(k)
<1>1. CASE UNCHANGED eve
  BY <1>1 DEF StreamMove
<1>2. ASSUME NEW j \in Keys, EveStep(j) PROVE StreamMove(k)
  <2>1. PICK e \in Events, next \in EveStates :
              Emit(j, e, next) /\ Fits(eve[j].state, eve[j].log, e, next)
    BY <1>2, EveEmitsFit
  <2>2. /\ \A i \in Keys \ {j} : eve'[i] = eve[i]
        /\ eve'[j].log = Append(eve[j].log, e) /\ eve'[j].state = next
    BY <2>1, Emitted DEF RunInv
  <2> QED BY <2>1, <2>2 DEF StreamMove
<1>3. ASSUME NEW p \in Pollers, Stops(p) PROVE StreamMove(k)
  <2>1. RunOf(p) \in Keys
    BY CopyKnows
  <2>2. eve' = [eve EXCEPT ![RunOf(p)].stop = eve[RunOf(p)].stop \/ InTurn(RunOf(p))]
    BY <1>3, <2>1 DEF Stops, RunInv, TypeOK
  <2>3. eve[k] \in SessionType
    BY DEF RunInv, TypeOK
  <2>4. eve'[k].log = eve[k].log /\ eve'[k].state = eve[k].state
    BY <2>1, <2>2, <2>3 DEF RunInv, TypeOK, SessionType
  <2> QED BY <2>4 DEF StreamMove
<1>4. ASSUME NEW p \in Pollers, Inspects(p) \/ AsksToCancel(p) \/ PollerProceeds(p) \/ PollerDies(p)
      PROVE  StreamMove(k)
  <2>1. CASE Stops(p)
    BY <1>3, <2>1
  <2>2. CASE ResetsAfterGrace(p)
    BY <2>2, CopyKnows, ResetMovesStream DEF ResetsAfterGrace, RunInv
  <2> QED BY <1>1, <1>4, <2>1, <2>2
      DEF Inspects, AsksToCancel, Looks, PollerProceeds, PollerDies, Stamps, Reads, Projects,
          Synchronized, MarksCancelled
<1>5. ASSUME NEW s \in Starters, StarterStep(s) PROVE StreamMove(k)
  <2>1. CASE StartAccepted(s)
    BY <2>1, CreationMovesStream DEF StartAccepted
  <2>2. CASE StartUnknown(s)
    BY <1>1, <2>2, CreationMovesStream DEF StartUnknown
  <2>3. CASE CleansUp(s)
    <3>1. KeyOf(s) \in Keys
      BY <2>3, CallKnows DEF CleansUp
    <3> QED BY <2>3, <3>1, ResetMovesStream DEF CleansUp, RunInv
  <2> QED BY <1>1, <1>5, <2>1, <2>2, <2>3
      DEF StarterStep, Reserves, StartRejected, RejectionRecorded, Attaches, AttachFails,
          BindFindsRunning, Binds, CleanupFails, MarksAmbiguous, StarterDies
<1>6. CASE ReconcilerStep \/ ReconcilerFails
  <2>1. recon.key \in Keys
    BY DEF RunInv, TypeOK
  <2>2. CASE ReconcilerResets
    BY <2>1, <2>2, ResetMovesStream DEF ReconcilerResets, RunInv
  <2> QED BY <1>1, <1>6, <2>2
      DEF ReconcilerStep, ListsStale, ReconcilerMarks, ReconcilerFails
<1>7. ASSUME NEW j \in Keys, GraceElapses(j) \/ SubmissionAges(j) PROVE StreamMove(k)
  BY <1>1, <1>7 DEF GraceElapses, SubmissionAges
<1> QED BY <1>1, <1>2, <1>4, <1>5, <1>6, <1>7 DEF Next, vars

-----------------------------------------------------------------------------
(* The rows: what is written to them, and that it is exact. *)

(* What a page starts from.                                                 *)
LEMMA BeginIs ==
    ASSUME NEW r \in RowType
    PROVE  /\ Begin(r).p.status = IF r.status = "submitting" THEN "running" ELSE r.status
           /\ Begin(r).p.result = r.result /\ Begin(r).p.failure = r.failure
           /\ Begin(r).p.steps = r.steps
           /\ Begin(r).cancelled = (r.status = "cancelled")
           /\ Begin(r).input = (r.status = "waiting-input")
           /\ Begin(r).auth = (r.status = "waiting-authorization")
BY DEF Begin, RowType

(* What a statement may do to a row.                                        *)
RowMove(k, r, n) ==
    \/ n = r
    \/ r.status = "absent" /\ n = [AbsentRow EXCEPT !.status = "submitting"]
    \/ /\ r.status = "submitting"
       /\ \/ n = Touched([r EXCEPT !.status = "running", !.session = TRUE])
          \/ n = Touched([r EXCEPT !.session = TRUE])
          \/ n = Touched([r EXCEPT !.status = "submission-ambiguous", !.failure = TRUE])
          \/ ~ r.session /\ n = Touched([r EXCEPT !.status = "failed", !.failure = TRUE])
          \/ n = [r EXCEPT !.old = TRUE]
    \/ n = Touched([r EXCEPT !.cancel = TRUE])
    \/ r.cancel /\ n = Cancelled(r)
    \/ \E p \in Pollers :
          /\ poller[p].pc = "project" /\ RunOf(p) = k
          /\ n = Projected(r, Project(poller[p].rec, PageOf(p)))

(* A row whose next page starts from the same flags is as exact as before.  *)
LEMMA ExactKept ==
    ASSUME NEW r \in RowType, NEW n \in RowType, NEW log, Exact(r, log),
           n.steps = r.steps, n.count = r.count, n.result = r.result, n.failure = r.failure,
           n.status = r.status, r.cancel => n.cancel,
           n.session = r.session \/ r.status = "submitting"
    PROVE  Exact(n, log)
<1>1. Same(Begin(r), After(log, r.count)) => Same(Begin(n), After(log, n.count))
  BY BeginIs DEF Same
<1>2. n.status = "submitting" /\ ~ n.cancel => n.count = 0
  BY DEF Exact
<1>3. n.session /\ ~ n.cancel /\ n.status \in {"completed", "failed", "cancelled"} =>
          /\ \E i \in 0..n.count : n.status = After(log, i).p.status
          /\ n.status # "cancelled" => n.result = After(log, n.count).p.result
  BY DEF Exact
<1>4. n.status \in ActiveStatuses /\ ~ n.cancel => Same(Begin(n), After(log, n.count))
  BY <1>1 DEF Exact
<1> QED BY <1>2, <1>3, <1>4 DEF Exact

(* A row that is reserved has read nothing.                                 *)
LEMMA ExactReserved ==
    ASSUME NEW log, Len(log) \in Nat
    PROVE  Exact([AbsentRow EXCEPT !.status = "submitting"], log)
<1> DEFINE n == [AbsentRow EXCEPT !.status = "submitting"]
<1>1. /\ n \in RowType /\ n.status = "submitting" /\ n.result = "none" /\ n.failure = FALSE
      /\ n.steps = 0 /\ n.count = 0
  BY DEF AbsentRow, RowType, RunStatuses, Results
<1> HIDE DEF n
<1>2. /\ EmptyProjection.status = "running" /\ EmptyProjection.result = "none"
      /\ EmptyProjection.failure = FALSE /\ EmptyProjection.steps = 0
  BY DEF EmptyProjection
<1>3. Same(Begin(n), After(log, n.count))
  <2>1. /\ Begin(n).p.status = "running" /\ Begin(n).p.result = "none"
        /\ Begin(n).p.failure = FALSE /\ Begin(n).p.steps = 0
        /\ Begin(n).cancelled = FALSE /\ Begin(n).input = FALSE /\ Begin(n).auth = FALSE
    BY <1>1, BeginIs
  <2>2. n.count = 0
    BY <1>1
  <2> QED BY <1>2, <2>1, <2>2, AfterNothing DEF Same
<1>4. n.steps = After(log, n.count).p.steps
  BY <1>1, <1>2, AfterNothing
<1> QED BY <1>1, <1>3, <1>4 DEF Exact, n

(* A start call that settles its reservation keeps it exact.                *)
LEMMA ExactSubmission ==
    ASSUME NEW r \in RowType, NEW log, Exact(r, log), r.status = "submitting", NEW n,
           \/ n = Touched([r EXCEPT !.status = "running", !.session = TRUE])
           \/ n = Touched([r EXCEPT !.session = TRUE])
           \/ n = Touched([r EXCEPT !.status = "submission-ambiguous", !.failure = TRUE])
           \/ ~ r.session /\ n = Touched([r EXCEPT !.status = "failed", !.failure = TRUE])
           \/ n = [r EXCEPT !.old = TRUE]
    PROVE  Exact(n, log)
<1>1. CASE n = Touched([r EXCEPT !.status = "running", !.session = TRUE])
  <2>1. /\ n \in RowType /\ n.status = "running" /\ n.steps = r.steps /\ n.count = r.count
        /\ n.result = r.result /\ n.failure = r.failure /\ n.cancel = r.cancel
    BY <1>1 DEF Touched, RowType, RunStatuses
  <2>2. Same(Begin(r), After(log, r.count)) => Same(Begin(n), After(log, n.count))
    BY <2>1, BeginIs DEF Same
  <2> QED BY <2>1, <2>2 DEF Exact, ActiveStatuses
<1>2. CASE n = Touched([r EXCEPT !.session = TRUE])
  <2>1. /\ n \in RowType /\ n.status = r.status /\ n.steps = r.steps /\ n.count = r.count
        /\ n.result = r.result /\ n.failure = r.failure /\ n.cancel = r.cancel
    BY <1>2 DEF Touched, RowType
  <2> QED BY <2>1, ExactKept
<1>3. CASE n = Touched([r EXCEPT !.status = "submission-ambiguous", !.failure = TRUE])
  <2>1. n.status = "submission-ambiguous" /\ n.steps = r.steps /\ n.count = r.count
    BY <1>3 DEF Touched, RowType
  <2> QED BY <2>1 DEF Exact, ActiveStatuses
<1>4. CASE ~ r.session /\ n = Touched([r EXCEPT !.status = "failed", !.failure = TRUE])
  <2>1. n.status = "failed" /\ n.steps = r.steps /\ n.count = r.count /\ n.session = r.session
    BY <1>4 DEF Touched, RowType
  <2> QED BY <1>4, <2>1 DEF Exact, ActiveStatuses
<1>5. CASE n = [r EXCEPT !.old = TRUE]
  <2>1. /\ n \in RowType /\ n.status = r.status /\ n.steps = r.steps /\ n.count = r.count
        /\ n.result = r.result /\ n.failure = r.failure /\ n.cancel = r.cancel
    BY <1>5 DEF RowType
  <2> QED BY <2>1, ExactKept
<1> QED BY <1>1, <1>2, <1>3, <1>4, <1>5

(* A cancelled row has nothing left to be exact but its steps.              *)
LEMMA ExactCancel ==
    ASSUME NEW r \in RowType, NEW log, Exact(r, log), NEW n,
           \/ n = Touched([r EXCEPT !.cancel = TRUE])
           \/ r.cancel /\ n = Cancelled(r)
    PROVE  Exact(n, log)
<1>1. n.cancel /\ n.steps = r.steps /\ n.count = r.count
  BY DEF Touched, Cancelled, RowType
<1> QED BY <1>1 DEF Exact

(* A page written over the row: an exact projection of the stream, read by  *)
(* a call that knew of a cancellation only if the row does.                 *)
LEMMA ExactProjected ==
    ASSUME NEW r \in RowType, NEW log \in Seq(Events), Exact(r, log), r.session,
           r.status # "absent",
           \A i \in 0..Len(log) : Coherent(After(log, i)),
           NEW q \in RowType, q.status \in Reported, q.count <= Len(log),
           q.steps = After(log, q.count).p.steps,
           ~ r.cancel => /\ q.status = After(log, q.count).p.status
                         /\ q.result = After(log, q.count).p.result
                         /\ q.failure = After(log, q.count).p.failure
    PROVE  Exact(Projected(r, q), log)
<1> DEFINE status  == NextStatus(r, q)
           muted   == r.cancel \/ status = "cancelled"
           result  == IF muted THEN "none" ELSE q.result
           failure == ~ muted /\ q.failure
           new     == [r EXCEPT !.status  = status,
                                !.count   = q.count,
                                !.steps   = q.steps,
                                !.result  = result,
                                !.failure = failure]
           n       == Touched(new)
           a       == After(log, q.count)
<1>1. Projected(r, q) = IF r.count > q.count \/ new = r THEN r ELSE n
  BY DEF Projected
<1>2. CASE Projected(r, q) = r
  BY <1>2
<1>3. CASE Projected(r, q) = n /\ ~ (r.count > q.count)
  <2>1. /\ status \in RunStatuses
        /\ r.status \in Terminal => status = r.status
        /\ ~ r.cancel /\ r.status \notin Terminal => status = q.status
    BY DEF NextStatus, RowType, RunStatuses, Reported, Terminal
  <2>2. result \in Results /\ failure \in BOOLEAN /\ q.count \in Nat /\ q.steps \in Nat
        /\ r.count \in Nat
    BY DEF RowType, Results
  <2>3. ~ r.cancel /\ status # "cancelled" => result = q.result /\ (failure <=> q.failure)
    OBVIOUS
  <2> HIDE DEF status, result, failure
  <2>4. new \in RowType /\ new.status = status /\ new.count = q.count /\ new.session = r.session
        /\ new.cancel = r.cancel /\ new.result = result /\ new.failure = failure
        /\ new.steps = q.steps
    <3>1. status \in RunStatuses \cup {"absent"}
      BY <2>1
    <3> QED BY <2>2, <3>1 DEF RowType
  <2> HIDE DEF new
  <2>5. n \in RowType /\ n.status = status /\ n.count = q.count /\ n.session = r.session
        /\ n.cancel = r.cancel /\ n.result = result /\ n.failure = failure
        /\ n.steps = q.steps
    BY <2>4 DEF RowType, Touched
  <2> HIDE DEF n
  <2>6. q.count \in 0..Len(log) /\ q.count \in 0..q.count /\ r.count <= q.count
    BY <1>3, <2>2
  <2>7. a \in Flags(ProjectionType) /\ Coherent(a)
    BY <2>6, AfterType
  <2>8. CASE r.cancel
    BY <1>3, <2>5, <2>8 DEF Exact
  <2>9. CASE ~ r.cancel /\ r.status \in Terminal
    <3>1. n.status = r.status /\ n.status \notin ActiveStatuses
      BY <2>1, <2>5, <2>9 DEF Terminal, ActiveStatuses
    <3>2. ASSUME n.status \in {"completed", "failed", "cancelled"}
          PROVE  /\ \E i \in 0..n.count : n.status = After(log, i).p.status
                 /\ n.status # "cancelled" => n.result = a.p.result
      <4>1. PICK i \in 0..r.count : r.status = After(log, i).p.status
        BY <2>9, <3>1, <3>2 DEF Exact
      <4>2. i \in 0..n.count
        BY <2>2, <2>5, <2>6
      <4>3. n.status # "cancelled" => n.result = a.p.result
        BY <2>3, <2>5, <2>9
      <4> QED BY <3>1, <4>1, <4>2, <4>3
    <3> QED BY <1>3, <2>5, <3>1, <3>2 DEF Exact, ActiveStatuses
  <2>10. CASE ~ r.cancel /\ r.status \notin Terminal
    <3>1. /\ n.status = a.p.status /\ n.status \in Reported
          /\ n.status # "cancelled" => n.result = a.p.result /\ (n.failure <=> a.p.failure)
      BY <2>1, <2>3, <2>5, <2>10
    <3>2. n.status # "submitting"
      BY <3>1 DEF Reported
    <3>3. ASSUME n.status \in ActiveStatuses PROVE Same(Begin(n), a)
      <4>1. n.status \in Pending /\ n.status # "cancelled"
        BY <3>1, <3>3 DEF Reported, ActiveStatuses, Pending
      <4>2. /\ a.cancelled = FALSE /\ a.input = (n.status = "waiting-input")
            /\ a.auth = (n.status = "waiting-authorization")
        BY <2>7, <3>1, <4>1 DEF Coherent, Flags
      <4>3. n.failure = a.p.failure
        BY <2>5, <2>7, <3>1, <4>1 DEF Flags, RowType, ProjectionType
      <4>4. Begin(n).p.status = n.status /\ Begin(n).cancelled = FALSE
        BY <2>5, <3>2, <4>1, BeginIs
      <4> QED BY <2>5, <3>1, <4>1, <4>2, <4>3, <4>4, BeginIs DEF Same
    <3>4. /\ \E i \in 0..n.count : n.status = After(log, i).p.status
          /\ n.status # "cancelled" => n.result = a.p.result
      BY <2>5, <2>6, <3>1
    <3> QED BY <1>3, <2>5, <3>2, <3>3, <3>4 DEF Exact
  <2> QED BY <2>8, <2>9, <2>10
<1> QED BY <1>1, <1>2, <1>3

(* The page of a copy is a part of the stream.                              *)
LEMMA PageIsPart ==
    ASSUME RunInv, NEW p \in Pollers, poller[p].pc = "project"
    PROVE  LET r    == poller[p].rec
               log  == eve[RunOf(p)].log
               page == PageOf(p)
           IN  /\ r \in RowType /\ r.status \in ActiveStatuses
               /\ r.cancel => run[RunOf(p)].cancel
               /\ log \in Seq(Events) /\ page \in Seq(Events)
               /\ r.count + Len(page) <= Len(log)
               /\ \A i \in 1..Len(page) : page[i] = log[r.count + i]
<1> DEFINE r    == poller[p].rec
           from == r.count
           log  == eve[RunOf(p)].log
           m    == poller[p].page
<1>1. /\ poller[p] \in PollerType /\ RunOf(p) \in Keys
      /\ CopyInv(poller[p], run[RunOf(p)], eve[RunOf(p)])
  BY CopyKnows
<1>2. r \in RowType /\ r.status \in ActiveStatuses /\ (r.cancel => run[RunOf(p)].cancel)
  BY <1>1 DEF CopyInv, PollerType
<1>3. /\ from \in Nat /\ m \in Nat /\ from + m <= Len(log) /\ log \in Seq(Events)
  BY <1>1, <1>2, Typed DEF CopyInv, RunInv
<1>4. PageOf(p) = SubSeq(log, from + 1, from + m)
  BY DEF PageOf
<1> HIDE DEF from, log, m
<1>5. /\ SubSeq(log, from + 1, from + m) \in Seq(Events)
      /\ Len(SubSeq(log, from + 1, from + m)) = m
  BY <1>3
<1>6. \A i \in 1..m : SubSeq(log, from + 1, from + m)[i] = log[from + i]
  BY <1>3
<1> QED BY <1>2, <1>3, <1>4, <1>5, <1>6 DEF from, log

(* Whatever is written to a row, it stays exact.                            *)
LEMMA RowStaysExact ==
    ASSUME RunInv, ExactInv, NEW k \in Keys, RowMove(k, run[k], run'[k])
    PROVE  Exact(run'[k], eve[k].log)
<1> DEFINE r == run[k]
           n == run'[k]
           log == eve[k].log
<1>1. /\ r \in RowType /\ log \in Seq(Events) /\ Len(log) \in Nat /\ Exact(r, log)
      /\ \A i \in 0..Len(log) : Coherent(After(log, i))
  BY Typed DEF RunInv, TypeOK, ExactInv, ExactRows, Streams, StreamInv
<1>2. ASSUME NEW p \in Pollers, poller[p].pc = "project", RunOf(p) = k,
             n = Projected(r, Project(poller[p].rec, PageOf(p)))
      PROVE  Exact(n, log)
  <2> DEFINE c == poller[p].rec
             q == Project(c, PageOf(p))
  <2>1. /\ c \in RowType /\ c.status \in ActiveStatuses /\ (c.cancel => r.cancel)
        /\ PageOf(p) \in Seq(Events) /\ c.count + Len(PageOf(p)) <= Len(log)
        /\ \A i \in 1..Len(PageOf(p)) : PageOf(p)[i] = log[c.count + i]
    BY <1>2, PageIsPart
  <2>2. r.session /\ r.status # "absent"
    BY <1>2, CopyKnows
  <2>3. Exact(c, log)
    BY <1>2 DEF ExactInv, ExactCopies
  <2>4. c.steps = After(log, c.count).p.steps /\ (~ c.cancel => Same(Begin(c), After(log, c.count)))
    BY <2>1, <2>3 DEF Exact
  <2>5. q \in RowType /\ q.status \in Reported /\ q.count = c.count + Len(PageOf(p))
    BY <2>1, ProjectType
  <2>6. /\ q.steps = After(log, q.count).p.steps
        /\ ~ c.cancel => /\ q.status = After(log, q.count).p.status
                         /\ q.result = After(log, q.count).p.result
                         /\ q.failure = After(log, q.count).p.failure
    BY ZenonT(30), <1>1, <2>1, <2>4, ProjectExact
  <2> HIDE DEF q
  <2>7. Exact(Projected(r, q), log)
    BY <1>1, <2>1, <2>2, <2>5, <2>6, ExactProjected
  <2> QED BY <1>2, <2>7 DEF q
<1>3. CASE n = r
  BY <1>1, <1>3
<1>4. CASE n = [AbsentRow EXCEPT !.status = "submitting"]
  BY <1>1, <1>4, ExactReserved
<1>5. CASE /\ r.status = "submitting"
           /\ \/ n = Touched([r EXCEPT !.status = "running", !.session = TRUE])
              \/ n = Touched([r EXCEPT !.session = TRUE])
              \/ n = Touched([r EXCEPT !.status = "submission-ambiguous", !.failure = TRUE])
              \/ ~ r.session /\ n = Touched([r EXCEPT !.status = "failed", !.failure = TRUE])
              \/ n = [r EXCEPT !.old = TRUE]
  BY <1>1, <1>5, ExactSubmission
<1>6. CASE n = Touched([r EXCEPT !.cancel = TRUE]) \/ (r.cancel /\ n = Cancelled(r))
  BY <1>1, <1>6, ExactCancel
<1> QED BY <1>2, <1>3, <1>4, <1>5, <1>6 DEF RowMove

(* A statement writes one row.                                              *)
LEMMA WritesOne ==
    ASSUME TypeOK, NEW j \in Keys, NEW n, WriteRun(j, n), RowMove(j, run[j], n), NEW k \in Keys
    PROVE  RowMove(k, run[k], run'[k])
BY DEF WriteRun, TypeOK, RowMove

(* What a start call and the reconciler write.                              *)
LEMMA SubmissionMovesRows ==
    ASSUME RunInv, NEW j \in Keys, SubmissionWrite(j), NEW k \in Keys
    PROVE  RowMove(k, run[k], run'[k])
<1>0. TypeOK
  BY DEF RunInv
<1>1. CASE UNCHANGED run
  BY <1>1 DEF RowMove
<1>2. ASSUME NEW n, WriteRun(j, n), RowMove(j, run[j], n)
      PROVE  RowMove(k, run[k], run'[k])
  BY <1>0, <1>2, WritesOne
<1>3. CASE AttachSession(j)
  BY <1>1, <1>2, <1>3 DEF AttachSession, RowMove
<1>4. CASE BindSubmissionSession(j)
  BY <1>2, <1>4 DEF BindSubmissionSession, RowMove
<1>5. CASE MarkSubmissionAmbiguous(j)
  <2>1. CASE run[j].status = "submitting"
    BY <1>2, <1>5, <2>1 DEF MarkSubmissionAmbiguous, RowMove
  <2>2. CASE run[j].status # "submitting"
    BY <1>2, <1>5, <2>2 DEF MarkSubmissionAmbiguous, RowMove
  <2> QED BY <2>1, <2>2
<1>6. CASE MarkSubmissionFailed(j) /\ ~ run[j].session
  BY <1>2, <1>6 DEF MarkSubmissionFailed, RowMove
<1> QED BY <1>1, <1>3, <1>4, <1>5, <1>6 DEF SubmissionWrite

(* What an inspection or a cancellation writes.                             *)
LEMMA PollerMovesRows ==
    ASSUME RunInv, NEW p \in Pollers,
           Inspects(p) \/ AsksToCancel(p) \/ PollerProceeds(p) \/ PollerDies(p), NEW k \in Keys
    PROVE  RowMove(k, run[k], run'[k])
<1> DEFINE j == RunOf(p)
<1>0. TypeOK /\ j \in Keys /\ CopyInv(poller[p], run[j], eve[j])
  BY CopyKnows DEF RunInv
<1>1. CASE UNCHANGED run
  BY <1>1 DEF RowMove
<1>2. CASE Stamps(p)
  <2>1. CASE CanRequestCancellation(j)
    <3> DEFINE n == Touched([run[j] EXCEPT !.cancel = TRUE])
    <3>1. WriteRun(j, n)
      BY <1>2, <2>1 DEF Stamps
    <3>2. RowMove(j, run[j], n)
      BY DEF RowMove
    <3> QED BY <1>0, <3>1, <3>2, WritesOne
  <2>2. CASE ~ CanRequestCancellation(j)
    BY <1>1, <1>2, <2>2 DEF Stamps
  <2> QED BY <2>1, <2>2
<1>3. CASE Projects(p)
  <2> DEFINE n == Projected(run[j], Project(poller[p].rec, PageOf(p)))
  <2>1. WriteRun(j, n) /\ poller[p].pc = "project"
    BY <1>3 DEF Projects
  <2>2. RowMove(j, run[j], n)
    BY <2>1 DEF RowMove
  <2> QED BY <1>0, <2>1, <2>2, WritesOne
<1>4. CASE MarksCancelled(p)
  <2>1. run[j].cancel
    BY <1>0, <1>4 DEF MarksCancelled, CopyInv
  <2>2. \/ WriteRun(j, Cancelled(run[j]))
        \/ WriteRun(j, run[j])
    BY <1>4 DEF MarksCancelled, MarkCancelled
  <2>3. RowMove(j, run[j], Cancelled(run[j])) /\ RowMove(j, run[j], run[j])
    BY <2>1 DEF RowMove
  <2> QED BY <1>0, <2>2, <2>3, WritesOne
<1> QED BY <1>1, <1>2, <1>3, <1>4
    DEF Inspects, AsksToCancel, Looks, PollerProceeds, PollerDies, Stops, Reads, ResetsAfterGrace,
        Synchronized

(* Every step writes to the rows only what RowMove allows.                  *)
LEMMA NextMovesRows ==
    ASSUME RunInv, [Next]_vars, NEW k \in Keys
    PROVE  RowMove(k, run[k], run'[k])
<1>0. TypeOK
  BY DEF RunInv
<1>1. CASE UNCHANGED run
  BY <1>1 DEF RowMove
<1>2. ASSUME NEW j \in Keys, EveStep(j) \/ GraceElapses(j) PROVE RowMove(k, run[k], run'[k])
  BY <1>1, <1>2 DEF EveStep, GraceElapses
<1>3. ASSUME NEW j \in Keys, SubmissionAges(j) PROVE RowMove(k, run[k], run'[k])
  <2> DEFINE n == [run[j] EXCEPT !.old = TRUE]
  <2>1. WriteRun(j, n) /\ RowMove(j, run[j], n)
    BY <1>3 DEF SubmissionAges, RowMove
  <2> QED BY <1>0, <2>1, WritesOne
<1>4. ASSUME NEW s \in Starters, StarterStep(s) PROVE RowMove(k, run[k], run'[k])
  <2>1. CASE Reserves(s)
    <3>1. PICK j \in Keys : Reserve(j)
      BY <2>1 DEF Reserves
    <3> DEFINE n == [AbsentRow EXCEPT !.status = "submitting"]
    <3>2. WriteRun(j, n) /\ RowMove(j, run[j], n)
      BY <3>1 DEF Reserve, Reservable, RowMove
    <3> HIDE DEF n
    <3> QED BY <1>0, <3>2, WritesOne
  <2>2. CASE starter[s].pc # "idle" /\ ~ UNCHANGED run
    <3>1. KeyOf(s) \in Keys /\ CallInv(starter[s], run[KeyOf(s)], starts[KeyOf(s)])
      BY <2>2, CallKnows
    <3>2. SubmissionWrite(KeyOf(s))
      <4>1. starter[s].pc = "reject" => ~ run[KeyOf(s)].session
        BY <3>1 DEF CallInv
      <4> QED BY <1>4, <2>2, <4>1
          DEF StarterStep, Reserves, StartAccepted, StartRejected, StartUnknown, RejectionRecorded,
              Attaches, AttachFails, BindFindsRunning, Binds, CleansUp, CleanupFails, MarksAmbiguous,
              StarterDies, OtherThanStart, SubmissionWrite
    <3> QED BY <3>1, <3>2, SubmissionMovesRows
  <2>3. starter[s].pc = "idle" => Reserves(s)
    BY <1>4 DEF StarterStep, StartAccepted, StartRejected, StartUnknown, RejectionRecorded,
                Attaches, AttachFails, BindFindsRunning, Binds, CleansUp, CleanupFails,
                MarksAmbiguous, StarterDies
  <2> QED BY <1>1, <2>1, <2>2, <2>3
<1>5. ASSUME NEW p \in Pollers,
             Inspects(p) \/ AsksToCancel(p) \/ PollerProceeds(p) \/ PollerDies(p)
      PROVE  RowMove(k, run[k], run'[k])
  BY <1>5, PollerMovesRows
<1>6. CASE ReconcilerStep \/ ReconcilerFails
  <2>1. recon.key \in Keys
    BY DEF RunInv, TypeOK
  <2>2. CASE ReconcilerMarks
    BY <2>1, <2>2, SubmissionMovesRows DEF ReconcilerMarks, SubmissionWrite
  <2> QED BY <1>1, <1>6, <2>2 DEF ReconcilerStep, ListsStale, ReconcilerResets, ReconcilerFails
<1> QED BY <1>1, <1>2, <1>3, <1>4, <1>5, <1>6 DEF Next, vars

(* A row counts no event that was not in the stream before the step.        *)
LEMMA RowCounts ==
    ASSUME RunInv, NEW k \in Keys, RowMove(k, run[k], run'[k])
    PROVE  run'[k].count <= Len(eve[k].log)
<1> DEFINE r == run[k]
           n == run'[k]
           log == eve[k].log
<1>1. r \in RowType /\ r.count <= Len(log) /\ Len(log) \in Nat
  BY Typed DEF RunInv, TypeOK, Rows, RowInv
<1>2. ASSUME NEW p \in Pollers, poller[p].pc = "project", RunOf(p) = k,
             n = Projected(r, Project(poller[p].rec, PageOf(p)))
      PROVE  n.count <= Len(log)
  <2> DEFINE c == poller[p].rec
             q == Project(c, PageOf(p))
  <2>1. /\ c \in RowType /\ c.status \in ActiveStatuses /\ PageOf(p) \in Seq(Events)
        /\ c.count + Len(PageOf(p)) <= Len(log)
    BY <1>2, PageIsPart
  <2>2. q \in RowType /\ q.count <= Len(log)
    BY <2>1, ProjectType
  <2> HIDE DEF q
  <2>3. n = Projected(r, q)
    BY <1>2 DEF q
  <2>4. n.count = r.count \/ n.count = q.count
    BY <1>1, <2>3 DEF Projected, Touched, RowType
  <2> QED BY <1>1, <2>2, <2>4
<1>3. CASE n = [AbsentRow EXCEPT !.status = "submitting"]
  <2>1. n.count = 0
    BY <1>3 DEF AbsentRow
  <2> QED BY <1>1, <2>1
<1>4. CASE n = r
  BY <1>1, <1>4
<1>5. CASE \/ n = Touched([r EXCEPT !.status = "running", !.session = TRUE])
           \/ n = Touched([r EXCEPT !.session = TRUE])
           \/ n = Touched([r EXCEPT !.status = "submission-ambiguous", !.failure = TRUE])
           \/ n = Touched([r EXCEPT !.status = "failed", !.failure = TRUE])
           \/ n = [r EXCEPT !.old = TRUE]
           \/ n = Touched([r EXCEPT !.cancel = TRUE])
           \/ n = Cancelled(r)
  <2>1. n.count = r.count
    BY <1>1, <1>5 DEF Touched, Cancelled, RowType
  <2> QED BY <1>1, <2>1
<1> QED BY <1>2, <1>3, <1>4, <1>5 DEF RowMove

(* What was exact stays exact when the stream grows.                        *)
LEMMA ExactExtends ==
    ASSUME NEW r \in RowType, NEW log \in Seq(Events), NEW longer \in Seq(Events),
           Extends(log, longer), r.count <= Len(log), Exact(r, log)
    PROVE  Exact(r, longer)
<1>1. Len(log) \in Nat /\ Len(longer) \in Nat /\ r.count \in Nat
  BY DEF RowType
<1>2. ASSUME NEW n \in 0..r.count PROVE After(longer, n) = After(log, n)
  <2>1. n \in Nat /\ n <= Len(log) /\ n <= Len(longer) /\ \A i \in 1..n : log[i] = longer[i]
    BY <1>1 DEF Extends
  <2> QED BY <1>1, <2>1, AfterAgrees
<1>3. After(longer, r.count) = After(log, r.count)
  BY <1>1, <1>2
<1>4. (\E n \in 0..r.count : r.status = After(log, n).p.status) =>
         \E n \in 0..r.count : r.status = After(longer, n).p.status
  BY <1>2
<1> QED BY <1>3, <1>4 DEF Exact

(* The copy a call works on is the one it had or the row of its run.        *)
LEMMA CopyComes ==
    ASSUME RunInv, [Next]_vars, NEW p \in Pollers, poller'[p].pc # "idle"
    PROVE  \/ /\ poller[p].pc # "idle"
              /\ poller'[p].key = poller[p].key /\ poller'[p].rec = poller[p].rec
           \/ /\ poller'[p].key \in Keys
              /\ \/ poller'[p].rec = run'[poller'[p].key]
                 \/ poller'[p].rec = run[poller'[p].key] /\ run' = run
<1>1. poller[p] \in PollerType /\ poller \in [Pollers -> PollerType] /\ RunOf(p) \in Keys
  BY CopyKnows DEF RunInv, TypeOK
<1>2. CASE UNCHANGED poller
  BY <1>2
<1>3. ASSUME NEW q \in Pollers, q # p,
             Inspects(q) \/ AsksToCancel(q) \/ PollerProceeds(q) \/ PollerDies(q)
      PROVE  poller'[p] = poller[p]
  BY <1>1, <1>3
  DEF Inspects, AsksToCancel, Looks, PollerProceeds, PollerDies, Stamps, Stops, Reads, Projects,
      ResetsAfterGrace, Synchronized, MarksCancelled, PollerAt, PollerDone
<1>4. ASSUME NEW k \in Keys, NEW pc, Looks(p, k, pc)
      PROVE  poller'[p].key = k /\ poller'[p].rec = run[k] /\ run' = run
  BY <1>1, <1>4 DEF Looks
<1>5. CASE PollerDone(p)
  BY <1>1, <1>5, IdlePollerType DEF PollerDone
<1>6. CASE Stamps(p)
  <2>1. CASE run[RunOf(p)].status \in Terminal
    BY <1>5, <1>6, <2>1 DEF Stamps
  <2>2. CASE run[RunOf(p)].status \notin Terminal
    <3>1. poller'[p] = [poller[p] EXCEPT !.pc = "stop", !.rec = run'[RunOf(p)]]
      BY <1>1, <1>6, <2>2 DEF Stamps
    <3>2. poller'[p].key = RunOf(p) /\ poller'[p].rec = run'[RunOf(p)]
      BY <1>1, <3>1 DEF PollerType, RunOf
    <3> QED BY <1>1, <3>2
  <2> QED BY <2>1, <2>2
<1>7. CASE Projects(p)
  <2>1. poller'[p] = [poller[p] EXCEPT !.rec = run'[RunOf(p)], !.page = 0, !.pc = "grace"]
    BY <1>1, <1>7 DEF Projects
  <2>2. poller'[p].key = RunOf(p) /\ poller'[p].rec = run'[RunOf(p)]
    BY <1>1, <2>1 DEF PollerType, RunOf
  <2> QED BY <1>1, <2>2
<1>8. CASE Stops(p) \/ Reads(p) \/ ResetsAfterGrace(p)
  <2>1. poller[p].pc # "idle"
    BY <1>8 DEF Stops, Reads, ResetsAfterGrace
  <2>2. poller'[p].key = poller[p].key /\ poller'[p].rec = poller[p].rec
    BY <1>1, <1>8 DEF Stops, Reads, ResetsAfterGrace, PollerAt, PollerType
  <2> QED BY <2>1, <2>2
<1>9. ASSUME NEW q \in Pollers,
             Inspects(q) \/ AsksToCancel(q) \/ PollerProceeds(q) \/ PollerDies(q)
      PROVE  \/ poller'[p] = poller[p]
             \/ PollerDone(p) \/ Stamps(p) \/ Projects(p)
             \/ Stops(p) \/ Reads(p) \/ ResetsAfterGrace(p)
             \/ \E k \in Keys, pc \in {"read", "stamp"} : Looks(p, k, pc)
  <2>1. CASE q # p
    BY <1>3, <1>9, <2>1
  <2>2. CASE q = p
    BY <1>9, <2>2
    DEF Inspects, AsksToCancel, PollerProceeds, PollerDies, Synchronized, MarksCancelled
  <2> QED BY <2>1, <2>2
<1>10. CASE \E q \in Pollers :
              Inspects(q) \/ AsksToCancel(q) \/ PollerProceeds(q) \/ PollerDies(q)
  BY <1>4, <1>5, <1>6, <1>7, <1>8, <1>9, <1>10
<1>11. CASE \E s \in Starters : StarterStep(s)
  BY <1>2, <1>11
  DEF StarterStep, Reserves, StartAccepted, StartRejected, StartUnknown, RejectionRecorded, Attaches,
      AttachFails, BindFindsRunning, Binds, CleansUp, CleanupFails, MarksAmbiguous, StarterDies,
      OtherThanStart
<1>12. CASE ReconcilerStep \/ ReconcilerFails
  BY <1>2, <1>12
  DEF ReconcilerStep, ReconcilerFails, ListsStale, ReconcilerResets, ReconcilerMarks, OtherThanRecon
<1>13. CASE \E k \in Keys : EveStep(k) \/ GraceElapses(k) \/ SubmissionAges(k)
  BY <1>2, <1>13 DEF EveStep, GraceElapses, SubmissionAges
<1> QED BY <1>2, <1>10, <1>11, <1>12, <1>13 DEF Next, vars

(* Nothing is read at the start.                                            *)
LEMMA ExactInit == Init => ExactInv
<1> SUFFICES ASSUME Init PROVE ExactInv
  OBVIOUS
<1>1. \A k \in Keys : run[k] = AbsentRow /\ eve[k].log = <<>> /\ eve[k].state = "none"
  BY DEF Init
<1>2. Len(<<>>) = 0
  OBVIOUS
<1>3. /\ AbsentRow.steps = 0 /\ AbsentRow.count = 0 /\ AbsentRow.status = "absent"
      /\ EmptyProjection.steps = 0 /\ EmptyProjection.failure = FALSE
      /\ EmptyProjection.status = "running"
  BY DEF AbsentRow, EmptyProjection
<1>4. Exact(AbsentRow, <<>>)
  <2>1. Len(<<>>) \in Nat
    BY <1>2
  <2>2. After(<<>>, 0).p = EmptyProjection
    BY <2>1, AfterNothing
  <2>3. AbsentRow.steps = After(<<>>, AbsentRow.count).p.steps
    BY <1>3, <2>2
  <2>4. AbsentRow.status \notin ActiveStatuses \cup {"completed", "failed", "cancelled"}
    BY <1>3 DEF ActiveStatuses
  <2>5. AbsentRow.status # "submitting"
    BY <1>3
  <2> QED BY <2>3, <2>4, <2>5 DEF Exact
<1>5. Coherent(After(<<>>, 0))
  BY <1>2, <1>3, AfterNothing DEF Coherent
<1>6. ExactRows
  BY <1>1, <1>4 DEF ExactRows
<1>7. Streams
  <2> SUFFICES ASSUME NEW k \in Keys PROVE StreamInv(eve[k])
    BY DEF Streams
  <2>1. eve[k].log = <<>> /\ eve[k].state = "none" /\ Len(eve[k].log) = 0
    BY <1>1, <1>2
  <2>2. \A n \in 0..Len(eve[k].log) : Coherent(After(eve[k].log, n))
    BY <1>5, <2>1
  <2> QED BY <2>1, <2>2 DEF StreamInv, Phase
<1>8. ExactCopies
  BY DEF Init, IdlePoller, ExactCopies
<1> QED BY <1>6, <1>7, <1>8 DEF ExactInv

(* Every step keeps rows and copies exact.                                  *)
LEMMA NextKeepsExact ==
    ASSUME RunInv, RunInv', ExactInv, [Next]_vars
    PROVE  ExactInv'
<1>1. ASSUME NEW k \in Keys
      PROVE  /\ StreamInv(eve'[k]) /\ Extends(eve[k].log, eve'[k].log)
             /\ eve[k].log \in Seq(Events) /\ eve'[k].log \in Seq(Events)
             /\ Len(eve[k].log) \in Nat
  <2>1. StreamInv(eve'[k]) /\ Extends(eve[k].log, eve'[k].log)
    BY NextMovesStreams, StreamMoves DEF ExactInv, Streams, RunInv
  <2>2. eve[k].log \in Seq(Events) /\ eve'[k].log \in Seq(Events)
    BY DEF RunInv, TypeOK, SessionType
  <2> QED BY <2>1, <2>2
<1>3. ASSUME NEW k \in Keys PROVE Exact(run'[k], eve'[k].log)
  <2>1. Exact(run'[k], eve[k].log)
    BY NextMovesRows, RowStaysExact
  <2>2. run'[k] \in RowType
    BY DEF RunInv, TypeOK
  <2>3. run'[k].count <= Len(eve[k].log)
    BY NextMovesRows, RowCounts
  <2> QED BY <1>1, <2>1, <2>2, <2>3, ExactExtends
<1>4. ASSUME NEW p \in Pollers, poller'[p].pc # "idle"
      PROVE  Exact(poller'[p].rec, eve'[poller'[p].key].log)
  <2>1. CASE /\ poller[p].pc # "idle"
             /\ poller'[p].key = poller[p].key /\ poller'[p].rec = poller[p].rec
    <3>1. /\ poller[p] \in PollerType /\ RunOf(p) \in Keys /\ poller[p].key = RunOf(p)
          /\ CopyInv(poller[p], run[RunOf(p)], eve[RunOf(p)])
      BY CopyKnows
    <3>2. /\ poller[p].rec \in RowType /\ poller[p].rec.count \in Nat /\ poller[p].page \in Nat
          /\ poller[p].rec.count + poller[p].page <= Len(eve[RunOf(p)].log)
      BY <2>1, <3>1 DEF CopyInv, PollerType, RowType
    <3>3. poller[p].rec.count <= Len(eve[RunOf(p)].log)
      BY <1>1, <3>1, <3>2
    <3>4. Exact(poller[p].rec, eve[RunOf(p)].log)
      BY <2>1 DEF ExactInv, ExactCopies
    <3>5. Exact(poller[p].rec, eve'[RunOf(p)].log)
      BY <1>1, <3>1, <3>2, <3>3, <3>4, ExactExtends
    <3> QED BY <2>1, <3>1, <3>5
  <2>2. CASE /\ poller'[p].key \in Keys
             /\ \/ poller'[p].rec = run'[poller'[p].key]
                \/ poller'[p].rec = run[poller'[p].key] /\ run' = run
    <3> DEFINE k == poller'[p].key
    <3>1. k \in Keys /\ poller'[p].rec = run'[k]
      BY <2>2
    <3>2. Exact(run'[k], eve'[k].log)
      BY <1>3, <3>1
    <3> QED BY <3>1, <3>2
  <2> QED BY <1>4, <2>1, <2>2, CopyComes
<1>5. Streams' /\ ExactRows'
  BY <1>1, <1>3 DEF Streams, ExactRows
<1>6. ExactCopies'
  BY <1>4 DEF ExactCopies, RunOf
<1> QED BY <1>5, <1>6 DEF ExactInv

(* An exact row is the projection the property asks for.                    *)
LEMMA ExactIsProjection ==
    ASSUME RunInv, ExactInv
    PROVE  ProjectionExact
<1> SUFFICES ASSUME NEW k \in Keys
             PROVE  LET r == run[k]
                    IN  /\ r.count <= Len(eve[k].log)
                        /\ r.steps = Prefix(k, r.count).steps
                        /\ r.count > 0 /\ ~ r.cancel /\ r.status # "submission-ambiguous"
                              => /\ \E n \in 0..r.count :
                                       /\ n = r.count \/ r.status \in Terminal
                                       /\ r.status = Prefix(k, n).status
                                 /\ r.status # "cancelled" => r.result = Prefix(k, r.count).result
  BY DEF ProjectionExact
<1> DEFINE r == run[k]
           log == eve[k].log
<1>1. /\ r \in RowType /\ r.count \in Nat /\ log \in Seq(Events) /\ Len(log) \in Nat
      /\ RowInv(r, starts[k], eve[k]) /\ Exact(r, log)
  BY Typed DEF RunInv, TypeOK, Rows, ExactInv, ExactRows, RowType
<1>2. r.count <= Len(log) /\ (r.count > 0 => r.session)
  BY <1>1 DEF RowInv
<1>3. ASSUME NEW n \in 0..r.count
      PROVE  /\ Prefix(k, n).status = After(log, n).p.status
             /\ Prefix(k, n).steps = After(log, n).p.steps
             /\ Prefix(k, n).result = After(log, n).p.result
  <2>1. n \in 0..Len(log)
    BY <1>1, <1>2
  <2> QED BY <1>1, <2>1, PrefixIsAfter DEF Prefix
<1>4. r.count \in 0..r.count
  BY <1>1
<1>5. r.steps = Prefix(k, r.count).steps
  BY <1>1, <1>3, <1>4 DEF Exact
<1>6. ASSUME r.count > 0, ~ r.cancel, r.status # "submission-ambiguous"
      PROVE  /\ \E n \in 0..r.count :
                   /\ n = r.count \/ r.status \in Terminal
                   /\ r.status = Prefix(k, n).status
             /\ r.status # "cancelled" => r.result = Prefix(k, r.count).result
  <2>1. r.status # "absent" /\ r.status # "submitting"
    BY <1>1, <1>2, <1>6 DEF RowInv, Exact
  <2>2. CASE r.status \in ActiveStatuses
    <3>1. Same(Begin(r), After(log, r.count))
      BY <1>1, <1>6, <2>2 DEF Exact
    <3>2. r.status = After(log, r.count).p.status /\ r.result = After(log, r.count).p.result
      BY <1>1, <2>1, <3>1, BeginIs DEF Same
    <3> QED BY <1>3, <1>4, <3>2
  <2>3. CASE r.status \in {"completed", "failed", "cancelled"}
    <3>1. /\ \E n \in 0..r.count : r.status = After(log, n).p.status
          /\ r.status # "cancelled" => r.result = After(log, r.count).p.result
      BY <1>1, <1>2, <1>6, <2>3 DEF Exact
    <3> QED BY <1>3, <1>4, <2>3, <3>1 DEF Terminal
  <2> QED BY <1>1, <1>6, <2>1, <2>2, <2>3 DEF RowType, RunStatuses, ActiveStatuses
<1> HIDE DEF r, log
<1> QED BY <1>2, <1>5, <1>6 DEF r, log

(* However pages are cut and in whichever order their writes arrive, a row  *)
(* is the projection of the events it counts, and its verdict that of an    *)
(* earlier prefix (projectAgentRunDelta, updateProjection).                 *)
THEOREM ProjectionIsExact == Spec => []ProjectionExact
<1>1. Init => RunInv /\ ExactInv
  BY RunInvInit, ExactInit
<1>2. RunInv /\ ExactInv /\ [Next]_vars => (RunInv /\ ExactInv)'
  BY NextKeepsRunInv, NextKeepsExact
<1>3. RunInv /\ ExactInv => ProjectionExact
  BY ExactIsProjection
<1> QED BY <1>1, <1>2, <1>3, PTL DEF Spec

=============================================================================
