---------------------------- MODULE AgentRunInput ----------------------------
(***************************************************************************)
(* Answers to the input requests of a headless AgentRun (respondAgentRun,   *)
(* server/data/agent-run-input-store.ts).  A call first brings the run up to*)
(* date like an inspection, finds the pending batch of requests in the tail *)
(* of the stream, reserves its answer in a row and then submits it, once;   *)
(* a row whose outcome is unknown is never submitted again.                 *)
(***************************************************************************)
EXTENDS AgentRun, FiniteSetsExt, Bags

CONSTANTS
    ResponseKeys,   \* idempotency keys of answers
    Batch           \* the requests of one input.requested event

VARIABLES
    inputs,      \* agent_run_input_responses: run -> idempotency key -> row
    responder,   \* respondAgentRun calls; while one synchronizes it is a poller
    flight,      \* answers whose caller gave up while they were on their way
    delivered    \* history: the bag of requests whose answer the session took

inputVars == <<inputs, responder, flight, delivered>>

NoCall == [phase |-> "none"]

(* A request is named by the number of its batch and its place in it.       *)
BatchAt(n) == {n} \X Batch

Asked(log) == Len(SelectSeq(log, LAMBDA e : e = "input.requested"))

InputInit ==
    /\ Init
    /\ inputs = [k \in Keys |-> <<>>]
    /\ responder = [p \in Pollers |-> NoCall]
    /\ flight = {}
    /\ delivered = [k \in Keys |-> EmptyBag]

-----------------------------------------------------------------------------
(* The session: a turn parked on a batch goes on once the batch is answered.*)

ParkedOnInput(k) ==
    /\ eve[k].state = "parked"
    /\ eve[k].log[Len(eve[k].log) - 1] = "input.requested"

EveRuns(k) ==
    /\ EveStep(k)
    /\ ParkedOnInput(k) => eve'[k].state # "live"
    /\ UNCHANGED inputVars

(* It takes answers to the batch it is parked on, and nothing else.         *)
Takes(k, requests) ==
    ParkedOnInput(k) /\ requests \subseteq BatchAt(Asked(eve[k].log))

Delivers(k, requests) ==
    /\ Takes(k, requests)
    /\ delivered' = [delivered EXCEPT ![k] = @ (+) SetToBag(requests)]
    /\ IF BatchAt(Asked(eve[k].log)) \subseteq BagToSet(delivered'[k])
       THEN Emit(k, "turn.started", "live")
       ELSE UNCHANGED eve

-----------------------------------------------------------------------------
(* respondAgentRun, call p. *)

Calls(p, phase) == responder[p].phase = phase

CallAt(p, phase) == responder' = [responder EXCEPT ![p].phase = phase]

CallEnds(p) == responder' = [responder EXCEPT ![p] = NoCall]

OtherThanRun == <<elapsed, starter, recon, starts>>

OtherThanCall == <<OtherThanRun, run, poller>>

(* The key is new, the run attached and not settled; the host has seen the  *)
(* requests it answers.                                                     *)
Responds(p) ==
    /\ Calls(p, "none")
    /\ \E k \in Keys, i \in ResponseKeys :
       \E n \in 1..Asked(eve[k].log) : \E requests \in SUBSET BatchAt(n) \ {{}} :
          /\ i \notin DOMAIN inputs[k]
          /\ Looks(p, k, "read")
          /\ responder' = [responder EXCEPT ![p] =
                [phase |-> "sync", key |-> k, id |-> i, requests |-> requests,
                 full |-> FALSE, count |-> 0]]
    /\ UNCHANGED <<inputs, flight, delivered>>

(* One page of synchronizeAgentRun.                                         *)
CatchesUp(p) ==
    /\ Calls(p, "sync")
    /\ \/ (Reads(p) \/ ResetsAfterGrace(p)) /\ UNCHANGED responder
       \/ /\ Projects(p)
          /\ responder' = [responder EXCEPT ![p].full = poller[p].page = PageSize]
       \/ MarksCancelled(p) /\ CallEnds(p)
    /\ UNCHANGED <<inputs, flight, delivered>>

(* A full page means there may be more; only a parked run can be answered.  *)
CaughtUp(p) ==
    LET rec == poller[p].rec
    IN  /\ Calls(p, "sync")
        /\ poller[p].pc = "grace"
        /\ ~ Overdue(p)
        /\ \/ /\ rec.status = "waiting-input"
              /\ PollerDone(p)
              /\ responder' = [responder EXCEPT ![p].phase = "tail", ![p].count = rec.count]
           \/ /\ rec.status \notin Terminal \cup {"waiting-input"}
              /\ responder[p].full
              /\ PollerAt(p, "read")
              /\ responder' = [responder EXCEPT ![p].full = FALSE]
           \/ /\ rec.status # "waiting-input"
              /\ rec.status \in Terminal \/ ~ responder[p].full
              /\ PollerDone(p)
              /\ CallEnds(p)
        /\ UNCHANGED <<OtherThanRun, run, eve, faults, inputs, flight, delivered>>

(* The last input.requested of a window, unless its turn ended after it.    *)
LatestPending(log, from, to) ==
    LET marks == {i \in (from + 1)..to :
                    log[i] \in {"input.requested", "turn.failed", "turn.cancelled"}}
    IN  IF marks = {} \/ log[Max(marks)] # "input.requested" THEN {}
        ELSE BatchAt(Asked(SubSeq(log, 1, Max(marks))))

(* The window ends at the projected count, or beyond it in a short stream.  *)
ReadsTail(p) ==
    LET log  == eve[responder[p].key].log
        from == Max({0, responder[p].count - PageSize})
    IN  /\ Calls(p, "tail")
        /\ IF responder[p].requests
                \subseteq LatestPending(log, from, Min({Len(log), from + PageSize}))
           THEN CallAt(p, "reserve")
           ELSE CallEnds(p)
        /\ UNCHANGED <<OtherThanCall, eve, faults, inputs, flight, delivered>>

AnsweredByAccepted(k, requests) ==
    \E i \in DOMAIN inputs[k] : /\ inputs[k][i].status = "accepted"
                               /\ inputs[k][i].requests \cap requests # {}

Answered(k, requests) ==
    \E i \in DOMAIN inputs[k] : /\ inputs[k][i].status # "failed"
                               /\ inputs[k][i].requests \cap requests # {}

Inserted(rows, i, row) ==
    [j \in DOMAIN rows \cup {i} |-> IF j = i THEN row ELSE rows[j]]

(* One transaction under the run's row lock.                                *)
ReservesAnswer(p) ==
    LET c == responder[p]
    IN  /\ Calls(p, "reserve")
        /\ IF c.id \in DOMAIN inputs[c.key] \/ Answered(c.key, c.requests)
           THEN CallEnds(p) /\ UNCHANGED inputs
           ELSE /\ inputs' = [inputs EXCEPT ![c.key] =
                       Inserted(@, c.id, [status |-> "submitting", requests |-> c.requests])]
                /\ CallAt(p, "send")
        /\ UNCHANGED <<OtherThanCall, eve, faults, flight, delivered>>

AnswerAccepted(p) ==
    /\ Calls(p, "send")
    /\ Delivers(responder[p].key, responder[p].requests)
    /\ CallAt(p, "accepted")
    /\ UNCHANGED <<OtherThanCall, faults, inputs, flight>>

(* 4xx: invalid or stale.                                                   *)
AnswerRejected(p) ==
    /\ Calls(p, "send")
    /\ ~ Takes(responder[p].key, responder[p].requests)
    /\ CallAt(p, "failed")
    /\ UNCHANGED <<OtherThanCall, eve, faults, inputs, flight, delivered>>

(* Taken, on its way, or lost.                                              *)
AnswerUnknown(p) ==
    LET c == responder[p]
    IN  /\ Calls(p, "send")
        /\ Fault
        /\ \/ Delivers(c.key, c.requests) /\ UNCHANGED flight
           \/ /\ flight' = flight \cup {[key |-> c.key, requests |-> c.requests]}
              /\ UNCHANGED <<eve, delivered>>
           \/ UNCHANGED <<eve, flight, delivered>>
        /\ CallAt(p, "submission-ambiguous")
        /\ UNCHANGED <<OtherThanCall, inputs>>

(* markAccepted, markFailed, markSubmissionAmbiguous: only a submitting row *)
(* takes the verdict.                                                       *)
Transition(p, status) ==
    LET c == responder[p]
    IN  inputs' = IF inputs[c.key][c.id].status = "submitting"
                  THEN [inputs EXCEPT ![c.key][c.id].status = status]
                  ELSE inputs

MarksAnswer(p) ==
    /\ responder[p].phase \in {"accepted", "failed", "submission-ambiguous"}
    /\ Transition(p, responder[p].phase)
    /\ CallEnds(p)
    /\ UNCHANGED <<OtherThanCall, eve, faults, flight, delivered>>

(* markAccepted fails, before or after its commit: the catch marks the row  *)
(* ambiguous.                                                               *)
MarkAcceptedFails(p) ==
    /\ Calls(p, "accepted")
    /\ Fault
    /\ Transition(p, "accepted") \/ UNCHANGED inputs
    /\ CallAt(p, "submission-ambiguous")
    /\ UNCHANGED <<OtherThanCall, eve, flight, delivered>>

(* The process dies, or another call throws.                                *)
ResponderDies(p) ==
    /\ ~ Calls(p, "none")
    /\ Fault
    /\ CallEnds(p)
    /\ PollerDone(p)
    /\ UNCHANGED <<OtherThanRun, run, eve, inputs, flight, delivered>>

(* An answer whose caller timed out arrives; the session may refuse it.     *)
LateAnswer ==
    /\ \E m \in flight :
          /\ flight' = flight \ {m}
          /\ \/ Delivers(m.key, m.requests)
             \/ ~ Takes(m.key, m.requests) /\ UNCHANGED <<eve, delivered>>
    /\ UNCHANGED <<OtherThanCall, faults, inputs, responder>>

-----------------------------------------------------------------------------

InputNext ==
    \/ \E k \in Keys : EveRuns(k)
    \/ /\ \/ \E k \in Keys : GraceElapses(k) \/ SubmissionAges(k)
          \/ \E s \in Starters : StarterStep(s)
          \/ \E p \in Pollers :
                /\ Calls(p, "none")
                /\ Inspects(p) \/ AsksToCancel(p) \/ PollerProceeds(p) \/ PollerDies(p)
          \/ ReconcilerStep \/ ReconcilerFails
       /\ UNCHANGED inputVars
    \/ \E p \in Pollers :
          \/ Responds(p) \/ CatchesUp(p) \/ CaughtUp(p) \/ ReadsTail(p)
          \/ ReservesAnswer(p) \/ AnswerAccepted(p) \/ AnswerRejected(p)
          \/ AnswerUnknown(p) \/ MarksAnswer(p) \/ MarkAcceptedFails(p)
          \/ ResponderDies(p)
    \/ LateAnswer

InputSpec == InputInit /\ [][InputNext]_<<vars, inputVars>>

-----------------------------------------------------------------------------
(* Properties *)

(* However calls with several keys, repeated keys, timeouts, dead processes  *)
(* and late requests meet, an input request is answered once, an accepted    *)
(* row was taken by the session, and a taken answer is never recorded as     *)
(* failed (the overlap check of reserve against the catch of respondAgentRun)*)
InputAnsweredOnce ==
    \A k \in Keys :
        /\ \A r \in BagToSet(delivered[k]) :
              /\ delivered[k][r] = 1
              /\ \E i \in DOMAIN inputs[k] : /\ r \in inputs[k][i].requests
                                            /\ inputs[k][i].status # "failed"
        /\ \A i \in DOMAIN inputs[k] : inputs[k][i].status = "accepted" =>
              inputs[k][i].requests \subseteq BagToSet(delivered[k])

=============================================================================
