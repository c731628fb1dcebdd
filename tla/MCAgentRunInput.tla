--------------------------- MODULE MCAgentRunInput ---------------------------
(* A small instance of AgentRunInput.                                       *)
EXTENDS AgentRunInput

ThreeTenants ==
    [k \in Keys |-> CASE k = "b" -> "t2" [] k = "d" -> "t3" [] OTHER -> "t1"]

(* Start calls before anything happens to their sessions, for two runs with  *)
(* two faults or four with one; or answers to one run, with a fault, while   *)
(* its session only asks.  Runs of the same tenant, and tenants of one run   *)
(* each, are interchangeable: a comes before c and b before d.               *)
Used(k) == run[k] # AbsentRow

StartsRace ==
    /\ Used("c") => Used("a")
    /\ Used("d") => Used("b")
    /\ faults <= 1 \/ Cardinality({k \in Keys : Used(k)}) <= 2
    /\ \A p \in Pollers : poller[p] = IdlePoller
    /\ \A k \in Keys : /\ ~ run[k].cancel /\ run[k].count = 0
                       /\ eve[k].log = <<>> \/ (eve[k].state = "gone" /\ Len(eve[k].log) = 1)

AnswersRace ==
    /\ faults <= 1
    /\ \A s \in Starters : starter[s] = IdleStarter
    /\ \A k \in Keys \ {"a"} : run[k] = AbsentRow
    /\ run["a"].session
    /\ Range(eve["a"].log) \subseteq
         {"turn.started", "input.requested", "session.waiting", "turn.failed"}
    /\ \A p \in Pollers : responder[p] = NoCall => poller[p] = IdlePoller

StartsOrAnswers == StartsRace \/ AnswersRace

CallSymmetry ==
    Permutations(Starters) \cup Permutations(Pollers)
        \cup Permutations(ResponseKeys) \cup Permutations(Batch)

=============================================================================
