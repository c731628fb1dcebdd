-------------------------- MODULE MCSessionRequests --------------------------
(* The instance of SessionRequests that TLC checks. *)
EXTENDS SessionRequests

CONSTANTS c1, r1

\* The two projections keep different rows and no property relates them:
\* histories that tell of an approval and have a child are left out.
OneTopic ==
    (\E r \in Approvals : Mentioned("asked", "request", r)) =>
        \A c \in Children : child[c].state = "none"
=============================================================================
