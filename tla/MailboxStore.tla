---------------------------- MODULE MailboxStore ----------------------------
(***************************************************************************)
(* The durable mailbox table, agent_mailbox_items, and the operations of    *)
(* postgresAgentMailboxStore (server/data/agent-mailbox-store.ts).  Each    *)
(* operation is one SQL statement, or one transaction that holds the lock   *)
(* it needs, so each is one atomic action here.                             *)
(*                                                                          *)
(* Request i is the i-th enqueue transaction to BEGIN.  created_at defaults *)
(* to now(), which PostgreSQL fixes when the transaction begins, so i also  *)
(* stands for the created_at of the row that request i inserts.  The row    *)
(* appears later, when the transaction has the session's lock and commits.  *)
(*                                                                          *)
(* Wall-clock comparisons are kept as what they decide: whether a lease has *)
(* expired, whether an edit's admission is older than                       *)
(* EDIT_ADMISSION_TIMEOUT_MS, whether available_at has been reached.        *)
(***************************************************************************)
EXTENDS Naturals, FiniteSets

CONSTANTS
    MaxRequests,  \* how many enqueue requests a behaviour has
    Sessions,     \* the Eve sessions the requests are addressed to
    Keys,         \* clientMessageIds, all of one owner
    Turns,        \* turn numbers a payload may name (expectedTurnId, beforeTurnId)
    Payloads,     \* what clients ask for; see PayloadType
    Tokens,       \* claim tokens (random UUIDs in the code)
    NoToken,      \* a null claim_token
    MaxPending    \* unfinished items a session may hold (5 in the code)

ASSUME MaxRequestsAssumption == MaxRequests \in Nat

ASSUME TurnsAssumption == Turns \subseteq Nat

Items == 1..MaxRequests

OperationKinds == {"send", "steer", "edit", "respond"}

PayloadType ==
    [key: Keys, sess: Sessions, kind: OperationKinds, target: Turns]

ASSUME PayloadsAssumption == Payloads \subseteq PayloadType

ASSUME TokensAssumption == NoToken \notin Tokens

ASSUME MaxPendingAssumption == MaxPending \in Nat \ {0}

VARIABLES
    row,    \* the table, and the requests that have not become rows yet
    pay,    \* the payload request i carries
    prior   \* history: the items that were in the table when i entered it

storeVars == <<row, pay, prior>>

-----------------------------------------------------------------------------

(* AgentMailboxStatus. *)
Statuses == {"queued", "delivering", "accepted", "committed", "failed",
             "submission-ambiguous", "cancelled"}

(* A request that is not a row: not sent yet, inside its transaction, or   *)
(* answered without inserting anything.                                    *)
NotRows == {"absent", "open", "refused"}

(* Only these let the next item of the session go.                         *)
Settled == {"committed", "cancelled"}

RowType ==
    [status    : Statuses \cup NotRows,
     token     : Tokens \cup {NoToken},
     lease     : {"none", "live", "expired"},        \* claim_expires_at
     admission : {"none", "started", "overdue"},     \* admission_started_at
     guard     : {"none", "edit-v1"},                \* operation.consumptionGuard
     avail     : {"now", "later"}]                   \* available_at

BlankRow ==
    [status |-> "absent", token |-> NoToken, lease |-> "none",
     admission |-> "none", guard |-> "none", avail |-> "now"]

(* The table's constraint agent_mailbox_claim: an UPDATE that broke it      *)
(* would be refused by PostgreSQL and its operation would throw.            *)
ClaimConstraint(r) ==
    /\ r.status = "delivering" => r.token # NoToken /\ r.lease # "none"
    /\ r.status # "delivering" => r.token = NoToken /\ r.lease = "none"

StoreTypeOK ==
    /\ row \in [Items -> RowType]
    /\ \A i \in Items : ClaimConstraint(row[i])
    /\ pay \in [Items -> PayloadType]
    /\ prior \in [Items -> SUBSET Items]

StoreInit ==
    /\ row = [i \in Items |-> BlankRow]
    /\ pay \in [Items -> Payloads]
    /\ prior = [i \in Items |-> {}]

IsRow(i) == row[i].status \in Statuses

Inserted == {i \in Items : IsRow(i)}

(* Every operation below leaves the payload alone; only an insert extends  *)
(* the history.                                                            *)
Write(i, r) ==
    /\ row' = [row EXCEPT ![i] = r]
    /\ UNCHANGED <<pay, prior>>

(* status leaves 'delivering': claim_token and claim_expires_at are nulled. *)
Unclaimed(r, status) ==
    [r EXCEPT !.status = status, !.token = NoToken, !.lease = "none"]

-----------------------------------------------------------------------------
(* enqueue *)

(* BEGIN: the transaction's now() is fixed, then it waits for the session   *)
(* owner's row lock.                                                       *)
EnqueueBegin(i) ==
    /\ row[i].status = "absent"
    /\ \A j \in Items : j < i => row[j].status # "absent"
    /\ Write(i, [row[i] EXCEPT !.status = "open"])

(* The table has a row of this owner with this clientMessageId.  The lookup  *)
(* finds it, and answers replay or conflict; or it was inserted after the    *)
(* lookup, under the lock of another session, and then the insert's "on      *)
(* conflict do nothing", against the table's unique constraint, returns no   *)
(* row and the transaction throws.  Neither leaves a second row.             *)
KeyTaken(i) ==
    \E j \in Inserted : pay[j].key = pay[i].key

(* A whole-turn edit is refused while a steer addressed to that turn is     *)
(* neither cancelled nor failed.                                            *)
SteerBlocksEdit(i) ==
    /\ pay[i].kind = "edit"
    /\ \E j \in Inserted :
          /\ pay[j].sess = pay[i].sess
          /\ pay[j].kind = "steer"
          /\ pay[j].target = pay[i].target
          /\ row[j].status \notin {"cancelled", "failed"}

Pending(s) ==
    {j \in Inserted : pay[j].sess = s /\ row[j].status \notin Settled}

MailboxFullOfActive(i) ==
    Cardinality({j \in Pending(pay[i].sess) : row[j].status # "failed"}) >= MaxPending

MailboxFull(i) ==
    Cardinality(Pending(pay[i].sess)) >= MaxPending

(* replay, conflict, unsupported-edit and full answer without a new row; an *)
(* insert that meets the unique constraint ends with an error, also without *)
(* one.                                                                     *)
EnqueueRefused(i) ==
    /\ row[i].status = "open"
    /\ KeyTaken(i) \/ SteerBlocksEdit(i) \/ MailboxFull(i)
    /\ Write(i, [row[i] EXCEPT !.status = "refused"])

EnqueueInserted(i) ==
    /\ row[i].status = "open"
    /\ ~ (KeyTaken(i) \/ SteerBlocksEdit(i) \/ MailboxFull(i))
    /\ row' = [row EXCEPT ![i].status = "queued"]
    /\ prior' = [prior EXCEPT ![i] = Inserted]
    /\ UNCHANGED pay

-----------------------------------------------------------------------------
(* claimNext: three statements, each its own transaction. *)

EditExpiredWhileLeased(r) ==
    /\ r.status = "delivering"
    /\ r.guard = "edit-v1"
    /\ r.admission = "overdue"

EditExpired(r) ==
    /\ r.status \in {"delivering", "accepted", "submission-ambiguous"}
    /\ r.guard = "edit-v1"
    /\ r.admission = "overdue"

ExpireGuardedEdits ==
    /\ row' = [i \in Items |->
                 IF EditExpired(row[i]) THEN Unclaimed(row[i], "cancelled")
                                        ELSE row[i]]
    /\ UNCHANGED <<pay, prior>>

LeaseLost(r) ==
    /\ r.status = "delivering"
    /\ r.lease = "expired"
    /\ r.admission # "none"

ReapExpiredLeases ==
    /\ row' = [i \in Items |->
                 IF LeaseLost(row[i])
                 THEN Unclaimed(row[i], "submission-ambiguous")
                 ELSE row[i]]
    /\ UNCHANGED <<pay, prior>>

BlocksUnlessAmbiguous(b, i) ==
    /\ b \in Inserted
    /\ pay[b].sess = pay[i].sess
    /\ row[b].status \notin Settled \cup {"submission-ambiguous"}
    /\ b < i

BlocksUnlessFailed(b, i) ==
    /\ b \in Inserted
    /\ pay[b].sess = pay[i].sess
    /\ row[b].status \notin Settled \cup {"failed"}
    /\ b < i

(* Older by (created_at, item_id), unfinished, same session.                *)
Blocks(b, i) ==
    /\ b \in Inserted
    /\ pay[b].sess = pay[i].sess
    /\ row[b].status \notin Settled
    /\ b < i

ClaimableQueuedOnly(i) ==
    /\ row[i].status = "queued" /\ row[i].avail = "now"
    /\ \A b \in Items : ~ Blocks(b, i)

(* A lease is taken over only while admission has not begun.                *)
Claimable(i) ==
    /\ \/ row[i].status = "queued" /\ row[i].avail = "now"
       \/ /\ row[i].status = "delivering"
          /\ row[i].lease = "expired"
          /\ row[i].admission = "none"
    /\ \A b \in Items : ~ Blocks(b, i)

Claim(i, t) ==
    /\ Claimable(i)
    /\ Write(i, [row[i] EXCEPT !.status = "delivering", !.token = t,
                               !.lease = "live", !.admission = "none"])

-----------------------------------------------------------------------------
(* Operations of the lease holder. *)

Holds(i, t) == row[i].status = "delivering" /\ row[i].token = t

CanBeginAdmission(i, t) ==
    /\ Holds(i, t)
    /\ row[i].admission = "none"
    /\ row[i].lease = "live"

(* g is what the inspected runtime advertised (editAdmissionGuard).         *)
BeginAdmission(i, t, g) ==
    /\ CanBeginAdmission(i, t)
    /\ Write(i, [row[i] EXCEPT
                   !.admission = "started",
                   !.guard = IF g = "edit-v1" /\ pay[i].kind = "edit"
                             THEN "edit-v1" ELSE @])

Requeued(r) ==
    [Unclaimed(r, "queued") EXCEPT !.admission = "none", !.avail = "later"]

CanDefer(i, t) == Holds(i, t) /\ row[i].admission = "none"

Defer(i, t) ==
    /\ CanDefer(i, t)
    /\ Write(i, Requeued(row[i]))

DeferRejectedAdmission(i, t) ==
    /\ Holds(i, t)
    /\ Write(i, Requeued(row[i]))

(* claimedTransition, the common body of accept, fail and                   *)
(* markSubmissionAmbiguous.                                                 *)
ClaimedTransition(i, t, status) ==
    /\ Holds(i, t)
    /\ Write(i, Unclaimed(row[i], status))

Accept(i, t) == ClaimedTransition(i, t, "accepted")

Fail(i, t) == ClaimedTransition(i, t, "failed")

MarkSubmissionAmbiguous(i, t) == ClaimedTransition(i, t, "submission-ambiguous")

-----------------------------------------------------------------------------
(* Operations of the runtime: the receipt hook and the edit adapter. *)

Deliverable == {"delivering", "accepted", "submission-ambiguous", "committed"}

CanCommit(i) == row[i].status \in Deliverable

Commit(i) ==
    /\ CanCommit(i)
    /\ Write(i, Unclaimed(row[i], "committed"))

(* Edits that were recorded without the guard keep the old protocol.        *)
EditAdmissible(i) ==
    row[i].guard # "edit-v1" \/ CanCommit(i)

ConsumeEditCheckOnly(i) ==
    /\ EditAdmissible(i)
    /\ UNCHANGED storeVars

ConsumeEdit(i) ==
    /\ EditAdmissible(i)
    /\ IF row[i].guard = "edit-v1"
       THEN Write(i, Unclaimed(row[i], "committed"))
       ELSE UNCHANGED storeVars

-----------------------------------------------------------------------------
(* Operations of the owner. *)

CancelKeepsClaim(i) ==
    /\ \/ row[i].status \in {"queued", "failed"}
       \/ row[i].status = "delivering" /\ row[i].admission = "none"
    /\ Write(i, [row[i] EXCEPT !.status = "cancelled", !.admission = "none"])

CancelOwned(i) ==
    /\ \/ row[i].status \in {"queued", "failed"}
       \/ row[i].status = "delivering" /\ row[i].admission = "none"
    /\ Write(i, [Unclaimed(row[i], "cancelled") EXCEPT !.admission = "none"])

RetryCancelledToo(i) ==
    /\ row[i].status \in {"failed", "cancelled"}
    /\ Write(i, [row[i] EXCEPT !.status = "queued", !.avail = "now",
                               !.admission = "none"])

RetryOwned(i) ==
    /\ row[i].status = "failed"
    /\ Write(i, [row[i] EXCEPT !.status = "queued", !.avail = "now",
                               !.admission = "none"])

-----------------------------------------------------------------------------
(* Time. *)

LeaseExpires(i) ==
    /\ row[i].lease = "live"
    /\ Write(i, [row[i] EXCEPT !.lease = "expired"])

(* Only a guarded edit's deadline is ever compared.                         *)
EditDeadlinePasses(i) ==
    /\ row[i].admission = "started"
    /\ row[i].guard = "edit-v1"
    /\ row[i].status \in {"delivering", "accepted", "submission-ambiguous"}
    /\ Write(i, [row[i] EXCEPT !.admission = "overdue"])

BecomesAvailable(i) ==
    /\ row[i].status = "queued"
    /\ row[i].avail = "later"
    /\ Write(i, [row[i] EXCEPT !.avail = "now"])

-----------------------------------------------------------------------------
(* The table on its own: any caller, any claim token, any order.            *)

StoreNext ==
    \/ \E i \in Items :
          \/ EnqueueBegin(i) \/ EnqueueRefused(i) \/ EnqueueInserted(i)
          \/ Commit(i) \/ ConsumeEdit(i) \/ CancelOwned(i) \/ RetryOwned(i)
          \/ LeaseExpires(i) \/ EditDeadlinePasses(i) \/ BecomesAvailable(i)
    \/ ExpireGuardedEdits \/ ReapExpiredLeases
    \/ \E i \in Items, t \in Tokens :
          \/ Claim(i, t) \/ Defer(i, t) \/ DeferRejectedAdmission(i, t)
          \/ Accept(i, t) \/ Fail(i, t) \/ MarkSubmissionAmbiguous(i, t)
          \/ \E g \in {"none", "edit-v1"} : BeginAdmission(i, t, g)

StoreSpec == StoreInit /\ [][StoreNext]_storeVars

-----------------------------------------------------------------------------
(* Properties *)

(* An item is leased only after every item that was in the table before it   *)
(* and is older has been committed or cancelled, and none of those comes     *)
(* back afterwards (the blocker subquery of claimNext).                      *)
LeasedInOrder ==
    \A j \in Items : \A i \in prior[j] :
        (/\ i < j
         /\ pay[i].sess = pay[j].sess
         /\ row[j].status \in Deliverable \cup {"failed"})
        => row[i].status \in Settled

(* The limit on unfinished items holds through failures, retries and         *)
(* deferrals, not only at insertion (the count in enqueue).                  *)
PendingBound == \A s \in Sessions : Cardinality(Pending(s)) <= MaxPending

(* What was committed or cancelled stays so, through late accepts, retries,  *)
(* second receipts, replayed consumption and lease takeovers: the next item  *)
(* of the session may rely on it for ever.                                   *)
SettledForever ==
    [][\A i \in Items :
         row[i].status \in Settled => row'[i].status = row[i].status]_storeVars

=============================================================================
