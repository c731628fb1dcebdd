--------------------------- MODULE MCAgentMailbox ---------------------------
(* Small instances of AgentMailbox.                                         *)
EXTENDS AgentMailbox, TLC

CONSTANTS k1, k2, k3, k4  \* clientMessageIds

P(k, s, kind, turn) == [key |-> k, sess |-> s, kind |-> kind, target |-> turn]

MessagesAndEdits ==
    {P(k1, "s1", "send", 0), P(k2, "s1", "edit", 0)}

AllKinds ==
    {P(k1, "s1", "send", 0), P(k3, "s1", "send", 0), P(k2, "s1", "steer", 0),
     P(k2, "s1", "edit", 0), P(k4, "s1", "respond", 0)}

(* Pairs of messages and steers with two faults, retries of one key among    *)
(* them, and edits or answers beside another kind with one.                  *)
Kinds == {pay[i].kind : i \in Items}

Studied ==
    \/ Kinds \subseteq {"send", "steer"}
    \/ /\ faults <= 1
       /\ "steer" \notin Kinds
       /\ Cardinality(Kinds) = 2

(* Workers and claim tokens are interchangeable; so are k1 and k3 among      *)
(* AllKinds.                                                                 *)
Symmetry == Permutations(Dispatchers) \cup Permutations(Tokens)

SendSymmetry == Symmetry \cup Permutations({k1, k3})

=============================================================================
