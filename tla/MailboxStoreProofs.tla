------------------------- MODULE MailboxStoreProofs -------------------------
(***************************************************************************)
(* Theorems about the mailbox table on its own (MailboxStore): whatever the *)
(* callers do, in whatever order, with whatever claim tokens.               *)
(***************************************************************************)
EXTENDS MailboxStore, FiniteSetTheorems, TLAPS

GoodRow(r) == r \in RowType /\ ClaimConstraint(r)

(* Writing one well-formed row keeps the table well formed.                 *)
LEMMA WriteType ==
    ASSUME StoreTypeOK, NEW i \in Items, NEW r, GoodRow(r), Write(i, r)
    PROVE  StoreTypeOK'
BY DEF StoreTypeOK, Write, GoodRow

(* A row that leaves 'delivering' with its claim nulled is well formed.     *)
LEMMA UnclaimedType ==
    ASSUME NEW r \in RowType,
           NEW st \in (Statuses \cup NotRows) \ {"delivering"}
    PROVE  GoodRow(Unclaimed(r, st))
BY DEF GoodRow, Unclaimed, RowType, ClaimConstraint

(* So is one whose admission, guard or availability alone changes.          *)
LEMMA DetailsType ==
    ASSUME NEW r, GoodRow(r),
           NEW a \in {"none", "started", "overdue"},
           NEW g \in {"none", "edit-v1"}, NEW v \in {"now", "later"}
    PROVE  /\ GoodRow([r EXCEPT !.admission = a])
           /\ GoodRow([r EXCEPT !.avail = v])
           /\ GoodRow([r EXCEPT !.admission = a, !.avail = v])
           /\ GoodRow([r EXCEPT !.admission = a, !.guard = g])
BY ZenonT(30) DEF GoodRow, RowType, ClaimConstraint

(* And one that was not delivering and takes another such status.           *)
LEMMA RestingType ==
    ASSUME NEW r, GoodRow(r), r.status # "delivering",
           NEW st \in (Statuses \cup NotRows) \ {"delivering"}
    PROVE  /\ GoodRow([r EXCEPT !.status = st])
           /\ GoodRow([r EXCEPT !.status = st, !.avail = "now", !.admission = "none"])
BY DEF GoodRow, RowType, ClaimConstraint

(* Every statement keeps the column types and the claim constraint of the   *)
(* table, so PostgreSQL never refuses an operation because of it.           *)
LEMMA StoreTypeStep ==
    ASSUME StoreTypeOK, [StoreNext]_storeVars
    PROVE  StoreTypeOK'
<1>1. \A i \in Items : GoodRow(row[i])
  BY DEF StoreTypeOK, GoodRow
<1>2. ASSUME NEW i \in Items, EnqueueBegin(i) \/ EnqueueRefused(i)
      PROVE  StoreTypeOK'
  <2>1. row[i].status # "delivering"
    BY <1>2 DEF EnqueueBegin, EnqueueRefused
  <2>2. /\ GoodRow([row[i] EXCEPT !.status = "open"])
        /\ GoodRow([row[i] EXCEPT !.status = "refused"])
    BY <1>1, <2>1, RestingType DEF NotRows
  <2> QED BY <1>2, <2>2, WriteType DEF EnqueueBegin, EnqueueRefused
<1>3. ASSUME NEW i \in Items, EnqueueInserted(i)
      PROVE  StoreTypeOK'
  <2>1. GoodRow([row[i] EXCEPT !.status = "queued"])
    BY <1>1, <1>3, RestingType DEF EnqueueInserted, Statuses
  <2>2. Inserted \subseteq Items
    BY DEF Inserted
  <2> QED BY <1>1, <1>3, <2>1, <2>2 DEF EnqueueInserted, StoreTypeOK, GoodRow
<1>4. ASSUME NEW i \in Items, NEW st \in Statuses \ {"delivering"},
             Write(i, Unclaimed(row[i], st))
      PROVE  StoreTypeOK'
  BY <1>1, <1>4, UnclaimedType, WriteType DEF GoodRow
<1>5. ASSUME NEW i \in Items, Commit(i) \/ ConsumeEdit(i)
      PROVE  StoreTypeOK'
  <2>1. CASE UNCHANGED storeVars
    BY <2>1 DEF StoreTypeOK, storeVars
  <2>2. CASE Write(i, Unclaimed(row[i], "committed"))
    BY <2>2, <1>4 DEF Statuses
  <2> QED BY <1>5, <2>1, <2>2 DEF Commit, ConsumeEdit
<1>6. ASSUME NEW i \in Items, CancelOwned(i)
      PROVE  StoreTypeOK'
  <2>1. GoodRow(Unclaimed(row[i], "cancelled"))
    BY <1>1, UnclaimedType DEF GoodRow, Statuses
  <2>2. GoodRow([Unclaimed(row[i], "cancelled") EXCEPT !.admission = "none"])
    BY <2>1, DetailsType
  <2> QED BY <1>6, <2>2, WriteType DEF CancelOwned
<1>7. ASSUME NEW i \in Items, RetryOwned(i)
      PROVE  StoreTypeOK'
  <2>1. GoodRow([row[i] EXCEPT !.status = "queued", !.avail = "now",
                               !.admission = "none"])
    BY <1>1, <1>7, RestingType DEF RetryOwned, Statuses
  <2> QED BY <1>7, <2>1, WriteType DEF RetryOwned
<1>8. ASSUME NEW i \in Items, LeaseExpires(i)
      PROVE  StoreTypeOK'
  <2>1. GoodRow([row[i] EXCEPT !.lease = "expired"])
    BY <1>1, <1>8 DEF LeaseExpires, GoodRow, RowType, ClaimConstraint
  <2> QED BY <1>8, <2>1, WriteType DEF LeaseExpires
<1>9. ASSUME NEW i \in Items, EditDeadlinePasses(i) \/ BecomesAvailable(i)
      PROVE  StoreTypeOK'
  <2>1. /\ GoodRow([row[i] EXCEPT !.admission = "overdue"])
        /\ GoodRow([row[i] EXCEPT !.avail = "now"])
    BY <1>1, DetailsType
  <2> QED BY <1>9, <2>1, WriteType DEF EditDeadlinePasses, BecomesAvailable
<1>10. ASSUME ExpireGuardedEdits \/ ReapExpiredLeases
       PROVE  StoreTypeOK'
  <2>1. \A i \in Items : /\ GoodRow(Unclaimed(row[i], "cancelled"))
                         /\ GoodRow(Unclaimed(row[i], "submission-ambiguous"))
    BY <1>1, UnclaimedType DEF GoodRow, Statuses
  <2>2. row' \in [Items -> RowType] /\ \A i \in Items : ClaimConstraint(row'[i])
    BY <1>1, <1>10, <2>1 DEF ExpireGuardedEdits, ReapExpiredLeases, GoodRow
  <2> QED BY <1>10, <2>2 DEF StoreTypeOK, ExpireGuardedEdits, ReapExpiredLeases
<1>11. ASSUME NEW i \in Items, NEW t \in Tokens, Claim(i, t)
       PROVE  StoreTypeOK'
  <2>1. GoodRow([row[i] EXCEPT !.status = "delivering", !.token = t,
                               !.lease = "live", !.admission = "none"])
    BY <1>1, TokensAssumption DEF GoodRow, RowType, ClaimConstraint, Statuses
  <2> QED BY <1>11, <2>1, WriteType DEF Claim
<1>12. ASSUME NEW i \in Items, NEW t \in Tokens,
              Defer(i, t) \/ DeferRejectedAdmission(i, t)
       PROVE  StoreTypeOK'
  <2>1. GoodRow(Unclaimed(row[i], "queued"))
    BY <1>1, UnclaimedType DEF GoodRow, Statuses
  <2>2. GoodRow(Requeued(row[i]))
    BY <2>1, DetailsType DEF Requeued
  <2> QED BY <1>12, <2>2, WriteType DEF Defer, DeferRejectedAdmission
<1>13. ASSUME NEW i \in Items, NEW t \in Tokens,
              Accept(i, t) \/ Fail(i, t) \/ MarkSubmissionAmbiguous(i, t)
       PROVE  StoreTypeOK'
  BY <1>13, <1>4 DEF Accept, Fail, MarkSubmissionAmbiguous, ClaimedTransition,
                     Statuses
<1>14. ASSUME NEW i \in Items, NEW t \in Tokens, NEW g \in {"none", "edit-v1"},
              BeginAdmission(i, t, g)
       PROVE  StoreTypeOK'
  <2> DEFINE h == IF g = "edit-v1" /\ pay[i].kind = "edit"
                  THEN "edit-v1" ELSE row[i].guard
  <2>1. h \in {"none", "edit-v1"}
    BY <1>1 DEF GoodRow, RowType
  <2>2. GoodRow([row[i] EXCEPT !.admission = "started", !.guard = h])
    BY <1>1, <2>1, DetailsType
  <2> QED BY <1>14, <2>2, WriteType DEF BeginAdmission
<1>15. CASE UNCHANGED storeVars
  BY <1>15 DEF StoreTypeOK, storeVars
<1> QED
  BY <1>2, <1>3, <1>5, <1>6, <1>7, <1>8, <1>9, <1>10, <1>11, <1>12, <1>13,
     <1>14, <1>15 DEF StoreNext

(* The table is well formed from its creation on: every row satisfies its   *)
(* column types and the constraint that ties a claim to 'delivering'.       *)
THEOREM StoreTypeCorrect == StoreSpec => []StoreTypeOK
<1>1. StoreInit => StoreTypeOK
  BY PayloadsAssumption DEF StoreInit, StoreTypeOK, BlankRow, RowType,
     ClaimConstraint, NotRows
<1>2. StoreTypeOK /\ [StoreNext]_storeVars => StoreTypeOK'
  BY StoreTypeStep
<1> QED BY <1>1, <1>2, PTL DEF StoreSpec

-----------------------------------------------------------------------------
(* What one step may do to an item's status. *)

Leased == Deliverable \cup {"failed"}

StatusMove(i) ==
    /\ row[i].status \in Settled => row'[i].status = row[i].status
    /\ row[i].status \in Statuses => row'[i].status \in Statuses
    /\ row'[i].status \in Leased =>
         row[i].status \in Leased \/ \A b \in Items : ~ Blocks(b, i)
    /\ row'[i].status \in Statuses =>
         row[i].status \in Statuses \/ EnqueueInserted(i)

(* A write that leaves the status alone, or takes it along an edge of the    *)
(* status graph, is a StatusMove of every item.                              *)
LEMMA WriteMoves ==
    ASSUME StoreTypeOK, NEW i \in Items, NEW r, Write(i, r),
           \/ r.status = row[i].status
           \/ /\ row[i].status \notin Settled
              /\ row[i].status \in Statuses <=> r.status \in Statuses
              /\ r.status \in Leased =>
                   row[i].status \in Leased \/ \A b \in Items : ~ Blocks(b, i)
    PROVE  \A j \in Items : StatusMove(j)
<1> SUFFICES ASSUME NEW j \in Items PROVE StatusMove(j)
  OBVIOUS
<1>1. row'[j] = IF j = i THEN r ELSE row[j]
  BY DEF Write, StoreTypeOK
<1> QED BY <1>1 DEF StatusMove

(* No operation reopens a settled item, unmakes a row, or leases an item     *)
(* past an older unfinished one.                                             *)
LEMMA StatusMoves ==
    ASSUME StoreTypeOK, [StoreNext]_storeVars
    PROVE  \A j \in Items : StatusMove(j)
<1> DEFINE Goal == \A j \in Items : StatusMove(j)
<1> USE DEF Statuses, NotRows, Settled, Deliverable, Leased
<1>1. \A i \in Items : row[i] \in RowType
  BY DEF StoreTypeOK
<1>u. \A i \in Items, st \in Statuses : Unclaimed(row[i], st).status = st
  BY <1>1 DEF Unclaimed, RowType
<1>2. ASSUME NEW i \in Items, EnqueueBegin(i) \/ EnqueueRefused(i) PROVE Goal
  <2>1. /\ [row[i] EXCEPT !.status = "open"].status = "open"
        /\ [row[i] EXCEPT !.status = "refused"].status = "refused"
    BY <1>1 DEF RowType
  <2> QED BY <1>2, <2>1, WriteMoves DEF EnqueueBegin, EnqueueRefused
<1>3. ASSUME NEW i \in Items, EnqueueInserted(i) PROVE Goal
  <2>1. \A j \in Items : row'[j].status = IF j = i THEN "queued" ELSE row[j].status
    BY <1>1, <1>3 DEF EnqueueInserted, StoreTypeOK, RowType
  <2>2. row[i].status = "open"
    BY <1>3 DEF EnqueueInserted
  <2> QED BY <1>3, <2>1, <2>2 DEF StatusMove
<1>4. ASSUME NEW i \in Items, Commit(i) \/ ConsumeEdit(i) PROVE Goal
  <2>1. CASE UNCHANGED storeVars
    BY <2>1 DEF storeVars, StatusMove
  <2>2. CASE /\ row[i].status \in Deliverable
             /\ Write(i, Unclaimed(row[i], "committed"))
    BY <2>2, <1>u, WriteMoves
  <2> QED BY <1>4, <2>1, <2>2 DEF Commit, ConsumeEdit, EditAdmissible, CanCommit
<1>5. ASSUME NEW i \in Items, CancelOwned(i) PROVE Goal
  <2>1. [Unclaimed(row[i], "cancelled") EXCEPT !.admission = "none"].status
          = "cancelled"
    BY <1>1 DEF RowType, Unclaimed
  <2> QED BY <1>5, <2>1, WriteMoves DEF CancelOwned
<1>6. ASSUME NEW i \in Items, RetryOwned(i) PROVE Goal
  <2>1. [row[i] EXCEPT !.status = "queued", !.avail = "now",
                       !.admission = "none"].status = "queued"
    BY <1>1 DEF RowType
  <2> QED BY <1>6, <2>1, WriteMoves DEF RetryOwned
<1>7. ASSUME NEW i \in Items,
             LeaseExpires(i) \/ EditDeadlinePasses(i) \/ BecomesAvailable(i)
      PROVE  Goal
  <2>1. /\ [row[i] EXCEPT !.lease = "expired"].status = row[i].status
        /\ [row[i] EXCEPT !.admission = "overdue"].status = row[i].status
        /\ [row[i] EXCEPT !.avail = "now"].status = row[i].status
    BY <1>1 DEF RowType
  <2> QED BY <1>7, <2>1, WriteMoves DEF LeaseExpires, EditDeadlinePasses,
             BecomesAvailable
<1>8. ASSUME ExpireGuardedEdits \/ ReapExpiredLeases PROVE Goal
  <2> SUFFICES ASSUME NEW j \in Items PROVE StatusMove(j)
    OBVIOUS
  <2>1. CASE ExpireGuardedEdits
    <3>1. row'[j] = IF EditExpired(row[j]) THEN Unclaimed(row[j], "cancelled")
                                           ELSE row[j]
      BY <2>1 DEF ExpireGuardedEdits
    <3> QED BY <3>1, <1>u DEF EditExpired, StatusMove
  <2>2. CASE ReapExpiredLeases
    <3>1. row'[j] = IF LeaseLost(row[j])
                    THEN Unclaimed(row[j], "submission-ambiguous") ELSE row[j]
      BY <2>2 DEF ReapExpiredLeases
    <3> QED BY <3>1, <1>u DEF LeaseLost, StatusMove
  <2> QED BY <1>8, <2>1, <2>2
<1>9. ASSUME NEW i \in Items, NEW t \in Tokens, Claim(i, t) PROVE Goal
  <2>1. [row[i] EXCEPT !.status = "delivering", !.token = t, !.lease = "live",
                       !.admission = "none"].status = "delivering"
    BY <1>1 DEF RowType
  <2> QED BY <1>9, <2>1, WriteMoves DEF Claim, Claimable
<1>10. ASSUME NEW i \in Items, NEW t \in Tokens,
              Defer(i, t) \/ DeferRejectedAdmission(i, t)
       PROVE  Goal
  <2>1. Requeued(row[i]).status = "queued"
    BY <1>1 DEF RowType, Requeued, Unclaimed
  <2> QED BY <1>10, <2>1, WriteMoves DEF Defer, CanDefer, DeferRejectedAdmission,
             Holds
<1>11. ASSUME NEW i \in Items, NEW t \in Tokens,
              Accept(i, t) \/ Fail(i, t) \/ MarkSubmissionAmbiguous(i, t)
       PROVE  Goal
  BY <1>11, <1>u, WriteMoves DEF Accept, Fail, MarkSubmissionAmbiguous,
     ClaimedTransition, Holds
<1>12. ASSUME NEW i \in Items, NEW t \in Tokens, NEW g \in {"none", "edit-v1"},
              BeginAdmission(i, t, g)
       PROVE  Goal
  <2>1. \A h : [row[i] EXCEPT !.admission = "started", !.guard = h].status
                 = row[i].status
    BY <1>1 DEF RowType
  <2> QED BY <1>12, <2>1, WriteMoves DEF BeginAdmission
<1>13. CASE UNCHANGED storeVars
  BY <1>13 DEF storeVars, StatusMove
<1> QED
  BY <1>2, <1>3, <1>4, <1>5, <1>6, <1>7, <1>8, <1>9, <1>10, <1>11, <1>12,
     <1>13 DEF StoreNext

(* Only an insert touches the history, and its own entry only.               *)
LEMMA HistoryMoves ==
    ASSUME StoreTypeOK, [StoreNext]_storeVars
    PROVE  /\ pay' = pay
           /\ \/ prior' = prior
              \/ \E i \in Items : /\ EnqueueInserted(i)
                                  /\ prior' = [prior EXCEPT ![i] = Inserted]
BY DEF StoreNext, storeVars, EnqueueBegin, EnqueueRefused, EnqueueInserted, Commit,
       ConsumeEdit, CancelOwned, RetryOwned, LeaseExpires, EditDeadlinePasses,
       BecomesAvailable, ExpireGuardedEdits, ReapExpiredLeases, Claim, Defer,
       DeferRejectedAdmission, Accept, Fail, MarkSubmissionAmbiguous,
       ClaimedTransition, BeginAdmission, Write

-----------------------------------------------------------------------------
(* Order *)

(* LeasedInOrder needs to know that the items recorded in front of j are     *)
(* still rows, so that the blocker subquery sees them.                       *)
OrderInv ==
    /\ StoreTypeOK
    /\ \A j \in Items : prior[j] \subseteq Inserted
    /\ LeasedInOrder

(* Every store operation keeps the history of earlier insertions and the order*)
(* of leases: only claim leases an item, and it takes the first eligible one.*)
LEMMA OrderStep ==
    ASSUME OrderInv, [StoreNext]_storeVars
    PROVE  OrderInv'
<1>t. StoreTypeOK /\ StoreTypeOK'
  BY StoreTypeStep DEF OrderInv
<1>m. \A j \in Items : StatusMove(j)
  BY <1>t, StatusMoves
<1>p. pay' = pay
  BY <1>t, HistoryMoves
<1>i. Inserted \subseteq Inserted'
  BY <1>m DEF Inserted, IsRow, StatusMove
<1>1. CASE prior' = prior
  <2>1. \A j \in Items : prior'[j] \subseteq Inserted'
    BY <1>1, <1>i DEF OrderInv
  <2>2. LeasedInOrder'
    <3> SUFFICES ASSUME NEW j \in Items, NEW i \in prior[j], i < j,
                        pay[i].sess = pay[j].sess,
                        row'[j].status \in Leased
                 PROVE  row'[i].status \in Settled
      BY <1>1, <1>p DEF LeasedInOrder, Leased
    <3>1. i \in Items /\ i \in Inserted
      BY DEF OrderInv, Inserted
    <3>2. row[i].status \in Settled
      <4>1. CASE row[j].status \in Leased
        BY <4>1 DEF OrderInv, LeasedInOrder, Leased
      <4>2. CASE \A b \in Items : ~ Blocks(b, j)
        BY <4>2, <3>1 DEF Blocks
      <4> QED BY <1>m, <4>1, <4>2 DEF StatusMove
    <3> QED BY <3>1, <3>2, <1>m DEF StatusMove
  <2> QED BY <1>t, <2>1, <2>2 DEF OrderInv
<1>2. CASE \E k \in Items : /\ EnqueueInserted(k)
                            /\ prior' = [prior EXCEPT ![k] = Inserted]
  <2> PICK k \in Items : /\ EnqueueInserted(k)
                         /\ prior' = [prior EXCEPT ![k] = Inserted]
    BY <1>2
  <2>1. \A j \in Items : prior'[j] = IF j = k THEN Inserted ELSE prior[j]
    BY <1>t DEF StoreTypeOK
  <2>2. /\ row'[k].status = "queued"
        /\ \A j \in Items : j # k => row'[j].status = row[j].status
    BY <1>t DEF EnqueueInserted, StoreTypeOK, RowType
  <2>3. \A j \in Items : prior'[j] \subseteq Inserted'
    BY <2>1, <1>i DEF OrderInv
  <2>4. LeasedInOrder'
    <3> SUFFICES ASSUME NEW j \in Items, NEW i \in prior'[j], i < j,
                        pay[i].sess = pay[j].sess,
                        row'[j].status \in Leased
                 PROVE  row'[i].status \in Settled
      BY <1>p DEF LeasedInOrder, Leased
    <3>1. j # k
      BY <2>2 DEF Leased, Deliverable
    <3>2. i \in prior[j] /\ i \in Items /\ row[j].status \in Leased
      BY <3>1, <2>1, <2>2 DEF OrderInv, Inserted
    <3>3. row[i].status \in Settled
      BY <3>2 DEF OrderInv, LeasedInOrder, Leased
    <3> QED BY <3>2, <3>3, <1>m DEF StatusMove
  <2> QED BY <1>t, <2>3, <2>4 DEF OrderInv
<1> QED BY <1>t, <1>1, <1>2, HistoryMoves

(* claimNext never lets an item overtake an older one that was in the table  *)
(* before it, for any number of items, sessions, workers and retries.        *)
THEOREM LeaseOrder == StoreSpec => []LeasedInOrder
<1>1. StoreInit => OrderInv
  <2> SUFFICES ASSUME StoreInit PROVE OrderInv
    OBVIOUS
  <2>1. StoreTypeOK
    BY PayloadsAssumption DEF StoreInit, StoreTypeOK, BlankRow, RowType,
       ClaimConstraint, NotRows
  <2> QED BY <2>1 DEF StoreInit, OrderInv, LeasedInOrder
<1>2. OrderInv /\ [StoreNext]_storeVars => OrderInv'
  BY OrderStep
<1>3. OrderInv => LeasedInOrder
  BY DEF OrderInv
<1> QED BY <1>1, <1>2, <1>3, PTL DEF StoreSpec

(* committed and cancelled are final: no late accept, retry, receipt or      *)
(* takeover reopens them.                                                    *)
THEOREM Finality == StoreSpec => SettledForever
<1>1. StoreTypeOK /\ [StoreNext]_storeVars
      => [\A i \in Items : row[i].status \in Settled
                            => row'[i].status = row[i].status]_storeVars
  BY StatusMoves DEF StatusMove
<1> QED BY <1>1, StoreTypeCorrect, PTL DEF StoreSpec, SettledForever

-----------------------------------------------------------------------------
(* The limit *)

PendingInv == StoreTypeOK /\ PendingBound

(* The pending items of a session can be counted: there are finitely many   *)
(* items altogether.                                                        *)
LEMMA PendingFinite ==
    ASSUME NEW s PROVE IsFiniteSet(Pending(s))
<1>1. IsFiniteSet(Items)
  BY MaxRequestsAssumption, FS_Interval DEF Items
<1>2. Pending(s) \subseteq Items
  BY DEF Pending, Inserted
<1> QED BY <1>1, <1>2, FS_Subset

(* A session never holds more than MaxPending unfinished items, however      *)
(* often items fail, are retried or are handed back to the queue.            *)
THEOREM PendingLimit == StoreSpec => []PendingBound
<1>1. StoreInit => PendingInv
  <2> SUFFICES ASSUME StoreInit PROVE PendingInv
    OBVIOUS
  <2>1. StoreTypeOK
    BY PayloadsAssumption DEF StoreInit, StoreTypeOK, BlankRow, RowType,
       ClaimConstraint, NotRows
  <2>2. \A s : Pending(s) = {}
    BY DEF StoreInit, Pending, Inserted, IsRow, BlankRow, Statuses
  <2> QED BY <2>1, <2>2, FS_EmptySet, MaxPendingAssumption
             DEF PendingInv, PendingBound
<1>2. PendingInv /\ [StoreNext]_storeVars => PendingInv'
  <2> SUFFICES ASSUME PendingInv, [StoreNext]_storeVars PROVE PendingInv'
    OBVIOUS
  <2>0. StoreTypeOK'
    BY StoreTypeStep DEF PendingInv
  <2> SUFFICES ASSUME NEW s \in Sessions
               PROVE  Cardinality(Pending(s)') <= MaxPending
    BY <2>0 DEF PendingInv, PendingBound
  <2>1. StoreTypeOK /\ StoreTypeOK' /\ pay' = pay
    BY StoreTypeStep, HistoryMoves DEF PendingInv
  <2>m. \A j \in Items : StatusMove(j)
    BY <2>1, StatusMoves
  <2>f. IsFiniteSet(Pending(s)) /\ Cardinality(Pending(s)) \in Nat
    BY PendingFinite, FS_CardinalityType
  <2>2. CASE \E k \in Items : EnqueueInserted(k) /\ pay[k].sess = s
    <3> PICK k \in Items : EnqueueInserted(k) /\ pay[k].sess = s
      BY <2>2
    <3>1. \A j \in Items : j # k => row'[j] = row[j]
      BY <2>1 DEF EnqueueInserted, StoreTypeOK
    <3>2. Pending(s)' \subseteq Pending(s) \cup {k}
      BY <2>1, <3>1 DEF Pending, Inserted, IsRow
    <3>3. Cardinality(Pending(s)) < MaxPending
      BY <2>f, MaxPendingAssumption DEF EnqueueInserted, MailboxFull
    <3>4. /\ IsFiniteSet(Pending(s) \cup {k})
          /\ Cardinality(Pending(s) \cup {k}) <= MaxPending
          /\ Cardinality(Pending(s) \cup {k}) \in Nat
      <4>1. /\ IsFiniteSet(Pending(s) \cup {k})
            /\ \/ Cardinality(Pending(s) \cup {k}) = Cardinality(Pending(s))
               \/ Cardinality(Pending(s) \cup {k}) = Cardinality(Pending(s)) + 1
        BY <2>f, FS_AddElement
      <4> QED BY <4>1, <2>f, <3>3, MaxPendingAssumption
    <3>5. Cardinality(Pending(s)') <= Cardinality(Pending(s) \cup {k})
      BY <3>2, <3>4, FS_Subset
    <3>6. Cardinality(Pending(s)') \in Nat
      BY <3>2, <3>4, FS_Subset, FS_CardinalityType
    <3> QED BY <2>1, <3>4, <3>5, <3>6, MaxPendingAssumption
  <2>3. CASE ~ \E k \in Items : EnqueueInserted(k) /\ pay[k].sess = s
    <3>1. Pending(s)' \subseteq Pending(s)
      BY <2>1, <2>m, <2>3 DEF Pending, Inserted, IsRow, StatusMove
    <3>2. Cardinality(Pending(s)') <= Cardinality(Pending(s))
      BY <2>f, <3>1, FS_Subset
    <3>3. Cardinality(Pending(s)') \in Nat
      BY <2>f, <3>1, FS_Subset, FS_CardinalityType
    <3>4. Cardinality(Pending(s)) <= MaxPending
      BY DEF PendingInv, PendingBound
    <3> QED BY <2>1, <2>f, <3>2, <3>3, <3>4, MaxPendingAssumption
  <2> QED BY <2>2, <2>3
<1> QED BY <1>1, <1>2, PTL DEF StoreSpec, PendingInv

=============================================================================
