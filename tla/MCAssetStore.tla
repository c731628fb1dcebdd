---------------------------- MODULE MCAssetStore ----------------------------
(* Instances of AssetStore for TLC. *)
EXTENDS AssetStore, TLC

CONSTANTS a1, a2

\* Two parts and one part; together they exceed the quota of the instance.
MCSizeOf == (a1 :> 2) @@ (a2 :> 1)

Symmetry == Permutations(Requests)
=============================================================================
