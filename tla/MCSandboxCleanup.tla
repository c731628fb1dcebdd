-------------------------- MODULE MCSandboxCleanup --------------------------
(* Instances of SandboxCleanup for TLC. *)
EXTENDS SandboxCleanup, TLC

Symmetry == Permutations(Callers) \cup Permutations(Workers) \cup Permutations(Keys \ Ending)
=============================================================================
