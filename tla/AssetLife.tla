------------------------------ MODULE AssetLife ------------------------------
(***************************************************************************)
(* What the asset store promises of one asset, seen by its readers: bytes  *)
(* are withheld until a scan of these bytes has found them clean, and an   *)
(* asset that is gone never comes back.                                    *)
(***************************************************************************)
CONSTANTS
    Assets,
    Infected  \* assets whose bytes the scanner rejects

VARIABLE view  \* [Assets -> what a reader can see]

Views == {"none", "pending", "withheld", "readable", "gone"}

Init == view = [a \in Assets |-> "none"]

Become(a, v) == view' = [view EXCEPT ![a] = v]

Start(a)   == view[a] = "none" /\ Become(a, "pending")
Finish(a)  == view[a] = "pending" /\ Become(a, "withheld")
Release(a) == view[a] = "withheld" /\ a \notin Infected /\ Become(a, "readable")
Revoke(a)  == view[a] = "readable" /\ Become(a, "withheld")
Vanish(a)  == view[a] \in {"pending", "withheld", "readable"} /\ Become(a, "gone")

Next == \E a \in Assets : Start(a) \/ Finish(a) \/ Release(a) \/ Revoke(a) \/ Vanish(a)

Spec == Init /\ [][Next]_view
=============================================================================
