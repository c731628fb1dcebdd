--------------------------- MODULE SessionApprovals ---------------------------
(***************************************************************************)
(* The approval projection of server/agent-sessions/approval.ts: a table of *)
(* approval requests kept from pages of events that are replayed, repeated  *)
(* and read by several requests at once.  An event is one conditional write *)
(* of one row, so it is one step.                                           *)
(***************************************************************************)
EXTENDS SessionHistory

VARIABLE approval   \* [Approvals -> status of the row, "none" without one]

InitApprovals == approval = [r \in Approvals |-> "none"]

\* A request that is already stored is kept as it is.
Put(r) == approval' = [approval EXCEPT ![r] = IF @ = "none" THEN "requested" ELSE @]

\* Only a stored request that is still open is resolved.
Resolve(r, resolution) ==
    approval' = [approval EXCEPT ![r] =
        IF @ = "requested" THEN (IF resolution = "approve" THEN "approved" ELSE "rejected") ELSE @]

\* Mutant: a tool that failed counts as denied.
ResolutionByResult(e) ==
    IF e.type = "answered" THEN e.option
    ELSE IF e.status = "completed" THEN "approve" ELSE "reject"

\* A tool may fail after it was approved: only a rejected one was denied.
Resolution(e) ==
    IF e.type = "answered" THEN e.option
    ELSE IF e.status = "rejected" THEN "reject" ELSE "approve"

SyncApproval(p) ==
    LET o == req[p]
        i == NextApprovalEvent(o.at, o.to) IN
    /\ o.pc = "approvals" /\ i # 0
    /\ IF log[i].type = "asked" THEN Put(log[i].request)
       ELSE Resolve(log[i].request, Resolution(log[i]))
    /\ Go(p, [o EXCEPT !.at = i + 1])
    /\ UNCHANGED <<runtime, opened, faults>>

\* The response lists the requests that are open now.
ListPending(p) ==
    LET o == req[p] IN
    /\ o.pc = "approvals" /\ NextApprovalEvent(o.at, o.to) = 0
    /\ Go(p, Idle)
    /\ UNCHANGED <<runtime, opened, faults, approval>>

\* The approvals route reads the history from its start, page by page, up to
\* a hundred pages of a thousand events, which no history here exceeds.
ReadApprovals(p) ==
    /\ Open(p, [pc |-> "approvals", from |-> 0, to |-> Len(log), at |-> 1])
    /\ UNCHANGED <<runtime, faults, approval>>
=============================================================================
