----------------------------- MODULE MCAgentRun -----------------------------
(* Small instances of AgentRun.                                             *)
EXTENDS AgentRun, TLC

OneTenant == [k \in Keys |-> "t1"]

ThreeTenants ==
    [k \in Keys |-> CASE k = "b" -> "t2" [] k = "d" -> "t3" [] OTHER -> "t1"]

StartPermutations == Permutations(Starters)

PollPermutations == Permutations(Pollers)

=============================================================================
