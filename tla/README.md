# A verification project for open-agent

This directory models the parts of open-agent in which several processes share
durable state and any of them may die, be slow, or lose an answer: the follow-up
mailbox of interactive sessions, headless AgentRuns and the answers to their
questions, the threads that several browser tabs edit, sandboxes and their
deletion, uploaded assets, the archive of finished workflows, and the subagents
and approvals of a session. Modules are TLA+, checked on small instances with
TLC; section 4 says what TLAPS proves for all values of the constants.

All paths below are relative to `src/` of the repository.

## 1. The system and its parts

| Part | State | Operations | What is hard | What makes it correct |
|---|---|---|---|---|
| Mailbox store (`server/data/agent-mailbox-store.ts`) | table `agent_mailbox_items`: status, claim token and expiry, admission start, edit guard, availability | enqueue, claimNext (expire, reap, claim), beginAdmission, consumeEdit, defer, accept, commit, fail, mark ambiguous, cancel, retry | every caller may be late; three statements in claimNext; `now()` is transaction time | order per session, the pending limit, settled is final |
| Mailbox delivery (`server/agent-mailbox/`, `app/api/internal/agent-mailbox/`, `scripts/run-agent-mailbox-worker.mjs`) | what each worker holds: item, token, boundary, error | dispatchNextAgentMailboxMessage | crashes, lease takeover, a call that times out and still arrives | a message enters its session at most once |
| Mailbox route, hook, edit adapter (`agent/channels/eve.ts`, `agent/hooks/mailbox-commit.ts`, `agent/lib/mailbox-*.ts`) | the Eve session: boundary, turn, inbox | inspect, deliver; message.received; consumeEdit inside the durable step | the boundary is stale when used; receipt races accept; replayed steps | commit only on proof; an expired edit never rewinds |
| AgentRun store (`server/data/agent-run-store.ts`) | table `agent_runs`: status, session, event count, usage, result, cancellation stamp | reserve, attach, bind, mark ..., updateProjection | idempotency under races, capacity, out-of-order projections | one start per key, limits, verdicts final |
| AgentRun service (`server/agent-runs/service.ts`, `eve-adapter.ts`, `projection.ts`) | copies of the row held across awaits | start, inspect, read events, cancel, respond | lost attach response, cancellation racing completion | the row is the projection of a prefix; cancellation settles |
| AgentRun reconciler (`server/agent-runs/reconcile.ts`) | a listing | reset and mark stale reservations | acts on a listing that is out of date | no reservation is stuck; no live session is released |
| AgentRun input answers (`server/data/agent-run-input-store.ts`) | answers by request | reserve, settle | ambiguous answers, replays | one submission per request |
| Sandbox admission and idle shutdown (`lib/sandbox-admission-backend.ts`, `lib/idle-sandbox-backend.ts`) | permits, FIFO waiters, references, idle timers | create, shutdown, captureState, timeouts | awaits between check and use | live compute within the limit; a handle is that of the live lease |
| Sandbox deletion (`server/data/sandbox-deletion-store.ts`, `scripts/reap-docker-sandboxes.mjs`) | tombstones with claims | request, claim, complete, completeMissing, fail | expired claims of live holders | a completed deletion stays completed |
| Import quota (`agent/lib/import-asset-quota.ts`) | ledger file in the workspace | reserve, write, rename, confirm | failure between the two ledger writes | not modelled |
| Thread collections and browser storage (`server/data/thread-collection-store.ts`, `packages/agent-ui/src/agent-workspace/*thread-storage.ts`) | revision, threads, event log, local copies | load, window, patch, save, conflict reload | two tabs, partially loaded transcripts | no accepted event is lost or reordered |
| Workflow archive (`server/workflow-archive/`, `server/data/workflow-archive-store.ts`) | claims, cursor, manifests | discover, claim, renew, complete, fail | the root changes while it is exported | archived means exported and settled |
| Sessions, approvals, subagents (`server/agent-sessions/`, `server/data/agent-subagent-store.ts`) | `agent_subagent_sessions`, `agent_session_approvals`, the session's history, the workspace's list of children | pages of the history with their status, spawn, send, close, wait, interrupt, answer, list | records lag behind the child's own stream; pages arrive out of order; a request dies between the runtime's answer and the record | no child whose start was answered runs unrecorded in silence; records follow the children's boundaries; an approval says what was answered |
| Assets (`server/data/s3-asset-store.ts`, `asset-store.ts`) | `agent_assets`, `agent_asset_uploads`, part rows; the provider's multipart uploads and objects | create, write part, sign, acknowledge, complete, scan, abort, delete, clean up | a completion leaves its lock between commit, check, publication and scan; another request or the cleanup takes over its lease | bytes are withheld until their own scan; the quota; no object without a row |
| Run policy, provider retry (`agent/lib/run-policy.ts`, `lib/provider-retry-boundary.ts`) | budgets of one call chain | count, stop, retry | retry after visible output | not modelled |
| Host capabilities, auth, metrics, UI, client packages, scripts | none of their own | - | - | not modelled |

How they interact. A browser enqueues a follow-up through `http.ts`; workers
poll the dispatch endpoint, claim the next item of some session and post it,
signed, to the Eve runtime's mailbox route, which inspects the session's
boundary again and calls `send` or `respond`. The session's `message.received`
hook writes the receipt back into the same table; for edits the inbound adapter
asks the table first. Hosts start AgentRuns over HTTP; each start call reserves
a row, creates an Eve session and attaches it; every later inspection reads a
page of the session's event stream and folds it into the row.
The browser keeps each thread's transcript in the thread store and merges it with
other tabs' edits. A session's steps run in a sandbox obtained from the process's
admission queue; when the session is deleted, a row in the table of deletions
hands its container to the cleanup workers, which live in other processes.
Finished workflow trees are copied to object storage by archive workers. The
parts share no state beyond these interfaces, so each is checked by itself;
where two parts do share state (the table and its workers, runs and their
answers, backend and deletions, histories, subagents and approvals) one module
extends the other and the run checks the composition.

## 2. Modules

| Module | Models |
|---|---|
| `MailboxStore` | the mailbox table, one action per operation, the three statements of `claimNext` separately; `StoreSpec` lets any caller do anything with any claim token and is the abstract specification of the mailbox |
| `AgentMailbox` | the table with its workers (`disp`), requests on the wire (`calls`), Eve sessions (`sess`, `inbox`) and history (`received`, `sends`) |
| `RunProjection` | `projectAgentRunFrom` as a fold over event types |
| `AgentRun` | the `agent_runs` table (`run`), start calls (`starter`), inspections and cancellations (`poller`, each with the copy of the row it read, `rec`), the reconciler (`recon`) and the Eve session with its event log (`eve`) |
| `AgentRunInput` | `respondAgentRun` on top of `AgentRun`: the rows of answers (`inputs`), the calls (`responder`, a poller while it synchronizes), requests still on the wire (`flight`) and what the session took (`delivered`) |
| `ThreadTranscript` | operations on event arrays and on one thread's event table: append with snapshots, compaction, merge, windows, truncation |
| `ThreadSync` | the stored collection (`srv`), the browser tabs with what they show, will save and believe to be stored (`tab`), checkpoints in progress (`saving`) and the sessions' streams (`eve`) |
| `SandboxBackend` | admission queue, shared creates, idle timers and Docker of one agent process, at the granularity of awaits |
| `SandboxCleanup` | retirement of sessions, the table of deletions and the reapers, composed with the backend through the containers they share |
| `AssetLife` | abstract: what a reader of one asset may see, and in which order |
| `AssetStore` | uploads, parts, completion with its lease, scan, abort, deletion and cleanup over object storage; implements `AssetLife` |
| `WorkflowArchive` | discovery with its shared cursor, claims, export, upload, verification, completion, download and restore |
| `SessionHistory` | the parent's event history, its pages with their status, and the two projections of it |
| `SubagentSupervisor` | spawn, send, close, wait, interrupt, refresh of subagents, and what the workspace shows of them |
| `SessionApprovals` | answers to approvals |
| `SessionRequests` | all requests of a session, with requests that die and calls that fail |
| `*Proofs` | theorems, section 4 |
| `MC*` | instances for TLC |

### Correspondence with the code

*Mailbox.* Request i of `MailboxStore` is the i-th enqueue transaction to begin.
Because `created_at` defaults to `now()`, the transaction's start, i also stands
for `created_at`; the row appears later, in the order in which transactions
obtain the session owner's lock. The statuses `absent`, `open` and `refused` are
not rows. Times are kept as what they decide: `lease` (live or expired),
`admission` (none, started, overdue), `avail` (now or later). Workers pass
through `idle` - `expired` - `reaped` (the statements of claimNext) - `claimed`
(before inspect) - `defer`, `fail` or `begin` - `wait` (the call is out) -
`accept` - `commit`, or `catch`. A call is `posted` until the route's own
inspection and `checked` until `send`; it outlives the worker that made it. A
worker that dies forgets everything; the row keeps its token until the lease
expires.

The Eve session is a library, modelled from how this code uses it: a send that
was accepted enters a durable inbox; at a waiting boundary the head starts the
next turn; a steer addressed to the running turn joins it; an edit first passes
the inbound adapter, and that durable step may be replayed; an answer resumes the
parked turn without `message.received`.

*AgentRun.* A run is its idempotency key. Start calls pass through `start` -
`attach` - `bind` - `cleanup` - `mark` (or `reject`, `unknown`); pollers through
`stamp` - `stop` (cancellation only) - `read` - `project` - `grace` -
`markCancelled`. The Eve session emits the events the projection reacts to, asks
one question or authorization at a time, acknowledges a stop request in its own
time, and on reset appends a last event or none. An answer passes through `sync`
(pages, as a poller) - `tail` - `reserve` - `send` - the mark of its outcome; a
request id is the number of its batch and its place in it. In `AgentRun` alone a
parked session goes on by itself; in `AgentRunInput` only when its batch has been
answered.

*Threads.* An event is its position in Eve's stream; `KeyOf` says which events are
cumulative snapshots of one step. A save is the delta against `base` under
If-Match, a 409 reloads, merges and retries; a lost answer leaves the tab with an
old baseline.

*Sandbox.* A lease is one create of the admission wrapper; a permit object is the
`ActiveSession` several creates may share. Code between two awaits is one action.
A container is its generation. A claim token of a deletion is the number of the
attempt.

*Assets.* An etag is the size of the part, a chunk is one byte. Operations under
the upload's advisory lock are one action, except the write of a part, which
holds the lock across the provider's call.

*Archive.* A root tree is the version of its rows, odd while a member runs. An
archive file, its checksum and its object are the version they were exported
from; a torn object is no version, and the model tells
whether the put it tears is that of the claim's owner or of a late worker.

*Sessions.* Parent and children emit the boundaries the code looks at. A record
is written only by a request, from what that request read before.

The workspace shows a child from the transcript and from the list it loaded last
(`shown`, the children active in it).

Faults - a crash, a failed database or runtime call, a worker slower than its
lease - are drawn from a budget, `MaxFaults`. Calls that fail may have had their
effect or not, where the code cannot tell: among them a container's stop
(`FailedStopLeaves`; `doubtful` remembers that it did) and the start of a child
(`SpawnUnanswered`; the child is `lost`, because the code has no id to store,
retire or report).

## 3. Runs

| Run | Shows | Bounds |
|---|---|---|
| `mailbox_delivery` | at-most-once admission, receipt order, received is final, commit proofs | 2 workers, 2 items, 2 faults, 3 tokens; with edits or answers 1 fault (`Studied`) |
| `mailbox_liveness` | order and finality of the table; edits get decided, leases end | 1 worker, 2 requests (messages and edits, repeated keys among them), 1 fault, fair |
| `run_submission` | one start per key, both capacity limits, one answer per request | 4 keys in 3 tenants, 2 start calls, 2 faults; 2 answers to one run's batch of two requests, 1 fault (`StartsOrAnswers` keeps the two apart) |
| `run_synchronization` | the row is the projection of a prefix, verdicts final, nothing published after cancellation | 1 run, 2 pollers, 4 events in pages of 2, no faults |
| `run_liveness` | cancellations and reservations settle | 1 run, 1 poller, 2 events, 1 fault, fair |
| `threads` | no hole in the stored log, no step erased from the store by a write that knew it, or from an open page | 2 tabs, 1 thread, 3 events (two are snapshots of one key), windows of 2, 2 attempts, 1 disruption |
| `thread_log_hole` | the first disagreement of section 6 | 2 tabs, 2 threads of which one streams, 4 events (two steps, two snapshots of one key), windows of 1, no disruption, no repair (`ThreadsApart`) |
| `thread_steps_erased` | the second | 2 tabs, 4 events (two steps, two snapshots of one key), no disruption, no repair, one edit (`LateSecondPage`) |
| `sandbox` | exact permits, the compute limit, handles of live leases, whose compute runs unless a failed stop stopped it, deletions that are over and touch only retired sessions | 2 sessions, 2 callers, 1 permit, 3 leases, 1 fault, 2 reapers, 2 claims |
| `assets` | quota, no object without a row, harmless takeovers, the refinement of `AssetLife`, completions settle | 2 assets (two parts; one part, direct and infected), 2 requests, quota for one of them, 1 fault |
| `archive` | records stand for whole trees and can be read, every tree gets archived | 2 roots, 2 workers, pages and passes of 1, 1 change, 1 fault, fair |
| `sessions` | no answered start left unrecorded, records at boundaries, approvals agree, statuses true, records the workspace shows active catch up | 1 child, 1 approval, 2 requests, 3 events in pages of 2, 1 fault (`OneTopic` leaves out histories with both a child and an approval, whose rows no property relates) |

Why the bounds are enough to be interesting: two items are the least for order
and blocking, two workers for a takeover while the first is still running, two
faults for a crash during the recovery from another; three tokens let every claim
of such a behaviour be fresh. Four keys in three tenants let each of the two capacity limits bind
alone. Four events reach a question, its answer and what follows; pages of two let
two pollers overlap by one event. Two tabs and a thread longer than a window give
partial transcripts that conflict. One permit for two sessions makes every
admission a contest; three leases reach a create after a shutdown after a create.
Two assets exceed the quota only together. Two roots and pages of one make the
cursor matter.

Every property has a mutant: a definition with one plausible mistake (for
instance `ClaimableAfterAdmission`, a lease takeover that forgets to ask whether
admission has begun) that makes TLC report the property.

Deadlock is checked in the mailbox runs, whose workers poll for ever. In the others, once everything is settled and the budgets are spent
the system really stops.

### Fairness

`AgentMailbox`: the worker script loops for ever, so each worker's next step is
weakly fair; leases and deadlines are wall-clock times; the hook's retry loop is
finite. Nothing is assumed of clients, the network, or of how long a turn lasts.

`AgentRun`: the grace period and the age of a reservation are wall-clock times;
the reconciler is a polling process; a synchronization that began runs to its
end; and the host keeps inspecting a run whose end it has not seen - without that
assumption nothing in this code would finish an interrupted cancellation, which
is what docs/architecture.md says inspection is for. Eve itself need not do
anything.

`AssetStore`: leases and expiry are wall-clock times, and the cleanup worker is
strongly fair: it sweeps at an interval, so some sweep comes between the end of a
lease and the next claim. No request is fair; each may die.

`WorkflowArchive`: workers run passes in a loop, leases end, retries become due.

`SessionRequests`: a request that began goes on, and the workspace polls. It does
so only while it shows an active child (`ActiveInWorkspace`): one the transcript
called and neither reported nor, unless its turn was cancelled, ended with the
session; or one active in the list it loaded last, until none of that list is. The
thread is taken to stay open, active and visible, as the effect of
`agent-workspace.tsx:866` polls for no other. `RecordCatchesUp` is about the
children it shows; nothing refreshes the record of a child that was spawned over
the API until somebody asks for it.

## 4. Proofs

All theorems are about every value of the constants: any number of requests,
sessions, workers, tokens, turns, runs, assets, trees, containers, bytes and
faults. Every inductive invariant below was first checked by TLC as an invariant
of the corresponding run's model; several of its parts were found that way,
because the first attempt was true but not inductive, or was not true with a
second fault.

| Module | Specification | Theorems (the checked property each one states) |
|---|---|---|
| `MailboxStoreProofs` | `StoreSpec` | `StoreTypeCorrect`, `LeaseOrder` (`LeasedInOrder`), `Finality` (`SettledForever`), `PendingLimit` |
| `AgentMailboxProofs` | `Spec` of `AgentMailbox` | `TypeCorrect` (`TypeOK`), `RefinesStore`, `SystemLeaseOrder`, `SystemFinality`, `AtMostOnce` (`AtMostOnceAdmission`), `CommitsAreProved` (`CommitHasProof`), `ReceivedStaysReceived` (`ReceivedIsFinal`), `ReceivedInOrder` (`ReceiptsInOrder`) |
| `AgentRunProofs` | `Spec` of `AgentRun` | `RunTypeCorrect`, `StartedAtMostOnce` (`AtMostOneStart`), `CancelledIsSilent` (`CancelledPublishesNothing`), `VerdictsAreFinal` (`TerminalIsFinal`), `CapacityRespected` (`CapacityBound`) |
| | | `ProjectionIsExact` (`ProjectionExact`) |
| | `InputSpec` of `AgentRunInput` | `AnsweredOnce` (`InputAnsweredOnce`), `AnsweringStartsNothing`, `AnsweringKeepsCapacity` |
| `AssetStoreProofs` | `Spec` of `AssetStore` | `StoreTypeCorrect`, `PointersKept` (`PointerKept`), `TakeoversAreHarmless` (`TakeoverHarmless`), `ImplementsLife` (`ImplementsAssetLife`), `QuotaIsKept` (`QuotaKept`) |
| `WorkflowArchiveProofs` | `Spec` of `WorkflowArchive` | `OnlyWholeTreesArchived` (`ArchivedWhole`), `CompletedStaysReadable` (`CompletedReadable`), `CompletedIsFinal` |
| `SandboxCleanupProofs` | `Spec` of `SandboxCleanup` | `PermitsAreExact` (`PermitsExact`), `ComputeIsBounded` (`ComputeWithinLimit`), `HandlesAreLive` (`HandedOutLive`), `RemovalsAreAuthorized` (`RemovedAfterRetirement`), `CompletedIsGone` (`CompletedMeansGone`) |
| `SessionRequestsProofs` | `Spec` of `SessionRequests` | `SessionTyped`, `SessionApprovalAgrees` (`ApprovalAgrees`), `SessionPageStatusTrue` (`PageStatusTrue`), `SessionDetachedOutlivesParent` (`DetachedOutlivesParent`), `SessionInterruptedAtBoundary` (`InterruptedAtBoundary`), `SessionOrphansAccounted` (`OrphansAccounted`) |

Only assumptions on constants are used, each named in the module that declares
the constant: bounds are naturals, payloads are well formed, `NoToken` is not a
token, limits and sizes are positive. Freshness of claim tokens is part of the
models: the code draws random UUIDs.

*Mailbox table.* `LeasedInOrder` is inductive together with the types once one
knows how statuses move: lemma `StatusMoves` says that a step changes one status
along the edges of the status graph, and enters `delivering` only past no
unfinished older item; `Finality` is a corollary of the same lemma.
`PendingLimit` (no session has more than `MaxPending` unfinished items, through
failures, retries and deferrals) needs that only an insert enlarges the set of
pending items, and that the set is finite; no run states it, because a table of
two requests cannot exceed its limit. `StoreTypeCorrect` includes the table's claim constraint:
PostgreSQL never rejects an operation for it.

*Mailbox delivery.* `RefinesStore` says that every step of workers, route,
sessions and owner is a step of the table or leaves it alone (the mapping is the
identity, the table being part of the state), whence `SystemLeaseOrder` and
`SystemFinality`. `AtMostOnce` needs a strengthening, `AdmissionInv`, because an
item's `sends` counter says nothing about requests that are still on the wire:

- `QuietIsUntouched`: a row from which the item could be delivered (again) -
  queued, failed, or leased without admission - has neither been sent nor has a
  request under way;
- `SentAndGone`, `OneRequestPerItem`: at most one request per item, and none
  once it was admitted;
- `TokensDiffer`, `HoldsBeforeAdmission`: a worker that has not begun admission
  and still holds its lease sees a row without admission, so no other worker's
  request can exist;
- `RefusalIsDefinitive`: when a worker is about to fail or requeue an item on a
  refusal, the request is spent. This is what makes retrying a failed item safe,
  and what would break if a timeout were treated like a refusal.

The receipts need a second invariant on top, `ReceiptInv`: what was queued before
an item had settled when the item's admission began (`BegunInOrder`), which the
order in the table gives only at that moment; what lies in a session's inbox, and
what it took out of it, keeps that order (`LineInOrder`), with the exception of
items that are cancelled after they may have been sent; and those are exactly the
expired edits with a recorded guard (`WithdrawnIsGuarded`), which the session
drops, because an edit passes its gate only once the guard's row is committed
(`GateIsCommitted`). `AcceptsTheSent` is what a worker knows when it accepts or
commits: the item was sent, and what it commits is a structured answer.

*AgentRun.* `RunInv` has a part for each holder of old knowledge. `RowInv`: a run
without a start has no session, a projected count lies in the stream, a row asked
to cancel is active, cancelled or ambiguous. `CallInv`: a start call that has not
called Eve yet works on a reserved run without a start and without a session -
with `OneCall`, one start call per key, this is the heart of `StartedAtMostOnce`.
`CopyInv`: the copy an inspection works on is older than the row, was not settled
when its page was read, and had its cancellation stamp only if the row has it; so
writing it can neither take a verdict back nor complete a cancelled run.
`Listed`: the reconciler works on a run that exists. Every step is shown to move
at most one run (`Moves`) and to move it forward (`Progress`); `TerminalIsFinal`,
`CancelledPublishesNothing` and `CapacityBound` are corollaries of that. The fold
over a page of events is a recursive function; that it has a value and a type is
proved once (`FoldExists`, `AccumulatedUnfolds`, `ProjectType`).

*The projection of a run.* `ProjectionExact` compares a row that was written page
by page, by several callers holding old copies, with one fold over the stream. It
needs three things that are not in the row (`ExactInv`). A page's fold starts
from a row, and a row has forgotten the fold's flags: `Coherent` says that while
there is no verdict the status determines them, so that `After(log, m)` continued
over the next page is `After(log, n)` (`PageContinues`). That holds only because
Eve's own state and the events agree (`Phase`, `StreamInv`): an event that would
contradict the status - a turn ending twice, an answer to nothing - is never
emitted. And what a caller holds across its awaits is itself exact for the count
it carries (`ExactCopies`); the comparison of counts in `updateProjection` then
lets through only a copy that continues the row. After a verdict the row may be
the projection of an earlier prefix, because a cancellation or a reset stops the
counting where it is.

*Answers.* `AnswerInv` relates four places: the rows of answers, the calls, the
requests on the wire and what the session took. Rows that did not fail are about
disjoint requests (`OneAnswer`); what the session took is recorded by one of them
(`Recorded`); a reserved answer is submitted by one call, and is `failed` only if
nothing was taken (`Submission`, `OneSubmitter`); and an answer on the wire
belongs to a row nobody will settle otherwise (`InFlight`) - false as soon as a
time-out were marked as a failure. `InputSpec` adds steps to the runs, so `RunInv`
is proved again for it, from the same lemmas.

*Assets.* `StoreInv` has per asset: the asset row and the upload row move together
(`RowsAgree`); an upload is reserved once; what was committed at the provider
stays so, and everything a completion does after its commit happens on a committed
upload (`CommittedFirst`); an object, or an upload that may still become one, that
outlives its row has strayed (`StrayIsKnown`); and without a fault a published
asset has its object unless a deletion is on its way (`ObjectServed`), which is
what makes a second completer's check harmless. `ImplementsLife` maps the two rows
and the scan to the life of one asset (`View`): `Allowed` moves of one asset at a
time, one lemma per group of requests. `QuotaIsKept` is about cardinalities of
sets of bytes (`Bytes`), so that sums need no recursion: `BytesInv` adds that one
write at a time is under way per upload and that it fits with what the other parts
acknowledged (`WritesFit`).

*Archive.* What an attempt carries is a snapshot of its tree without running
member (`Honest`), and while the attempt still owns the claim and the tree has
ended, the object it verified is in place; a completed record is such a snapshot
(`Recorded`); what was restored is what a completed record names
(`RestoredKept`). `NextClaimReady` says that the choice of a claim by discovery
time and id is defined on any nonempty set of claimable rows. The invariant was
not inductive at first for a reason: with two faults a worker that lost its claim
can have its late put torn, over the object of a completed record. No property of
the code excludes it, and the download refuses the object; `CompletedReadable`
now names this case (`LateTorn`), which the bound of one fault had hidden.

*Sandbox.* `SandboxInv` relates the maps of both wrappers to leases and
containers: a session is in creation or has an entry, never both, and its permit
object is the one of that lease (`KeyInv`); a lease holds exactly one reference on
a granted permit from the end of its wait to its release (`LeaseInv`); the queue
holds every waiting session once (`WaitersInv`); `permits` is the cardinality of
the sessions with a granted permit, and nobody waits below the limit
(`PermitsInv`); a running container belongs to an entry or is a known orphan, and
the container of an entry runs until a reaper takes it or a stop that is reported
as failed stops it (`BoxInv`), which gives both `ComputeIsBounded` (running
containers are a subset of granted sessions) and `HandlesAreLive`. On the side of the deletions: rows are of retired sessions, a
completed row's container is gone, and so is that of a reaper that found it
missing or removed it (`RowInv`, `ReaperInv`); no step of the process brings a
container back under its old id (`BoxMoves`), so that "gone or made later" is
stable.

*Sessions.* The invariants are operators of the state, and a lemma each says what
a step may leave behind in one request (`Fresh`, `Moves`). Three of them:

- `RecordInv` is about what a request has read and will write later. A row is of a
  child that was started; a status in hand may be written down - in particular
  `failed` only of a child that is not detached or has failed itself
  (`Believed`) - and what a cascade has on its list is recorded and not detached,
  unless the page it read tells of a cancellation. Nothing that such knowledge
  rests on is ever taken back (`Advance`: turns grow, a session that failed stays
  so, a row stays a row), and that is why writes this old are harmless; for
  interrupts it adds that the turn of the child is the recorded one or later, and
  not running if it is the same. `DetachedOutlivesParent` and
  `InterruptedAtBoundary` follow.
- `OrphanInv`, on top of it: a spawned child without a row has ended, was named or
  lost (its start unanswered, or its request dead), or its request holds it and is
  not closing it.
- `ApprovalInv`: in a history an approval is asked, answered once and its result
  agrees (`HistoryInv`); a resolved row has its answer in the stream; and of a
  history projected from its start, the part a request is past is in the table
  (`Projected`), whatever other requests wrote in between, because a row never
  goes back to `requested`.
- `PageInv`: the boundary a short page remembers is the projection of the whole
  stream up to the page's end; with it, what the page shows differs from the
  boundary only by events that came later.

*Induction over data.* The library's induction theorems take an operator, which
the provers cannot instantiate. `DataInduction` proves instead that a nonempty set
of naturals has a least element, from the well-foundedness of strict inclusion of
finite sets; a proof by induction then takes the least counterexample. It is used
for the fold over a page and for the choice of a claim.

*Only model-checked.* Liveness under fairness (`GuardedEditDecided`,
`LeaseEventuallyEnds`, `CancellationSettles`, `StaleSubmissionSettles`,
`CompletionSettles`, `EveryTreeArchived`, `RecordCatchesUp`): this prover has
neither `ENABLED` nor fairness. And the threads (`LogIsContiguous`,
`KnownStepsKept`, `ShownStepsKept`): these hold of two pages and a bounded stream,
and the invariant a proof would need - that a page's baseline is a known part of
the stored log - is not one of this code, as both runs of section 6 show. With a
third page `LogIsContiguous` itself has a counterexample: a thread that was longer
than a window is deleted by one page, written again without events by the
conflict merge of a second, and appended to by a third whose window was
loaded before. A theorem about this component has to wait for a patch that
addresses the log by something that survives a reload.

## 5. What is left out

*Not modelled.* `lib/run-policy.ts`, `provider-retry-boundary.ts`: counters of one
call chain, tested directly by the repository's unit tests. The import quota's
manifest: a file rewritten by one tool call at a time. The UI packages (threads'
rendering, `turn-presentation.ts` apart from its merge of subagents, the recovery
loop of `agent-workspace.tsx` that follows a stream, attachments, `browser-asset-upload.ts`), preview,
artifact, extension and catalog stores, authentication, configuration, metrics
and operator scripts: rendering, transport, or single statements without a
protocol. The filesystem twin of the asset store serves development hosts.

*Mailbox.* Text, attachments, owners and tenants of items (all rows belong to one
owner; the table's ownership filters are plain equality tests), error wording,
metrics and HTTP framing. Backoff is a delay that passes. `claimNext` selects with
the statement's snapshot: a blocker that settles meanwhile is harmless because
settled is final (`SettledForever`), and one that appears meanwhile was not in the
table first. Conflicting payloads for a repeated key are answered like a replay.
That a client message id has one row rests on the table's unique constraint and on
`on conflict do nothing`; the model takes both together with the lookup as one
guard (`KeyTaken`), and no property repeats it.
The route's transcript, cancel and reset actions are not modelled.

*AgentRun.* Parents of runs are not modelled, usage is the number of steps, and
`find` changes nothing.

*Threads.* Titles and other metadata are one number; a page reload loses requests
on the wire or has them delivered before. Explicit edits are left out: a thread whose
`pendingTurn` is `clearing` or `resubmitting` may replace its log and keeps its
events in a conflict merge (`http-thread-storage.ts:336, 412, 451`,
`thread-storage.ts:85`, `thread-collection-store.ts:670, 704`). No code of the
repository sets these states; such snapshots are left from older browser versions.
Threads longer than one window are in
the model; what the code does to them is the first disagreement of section 6.

*Sandbox.* Images and backend options; which of several stale containers is
selected.

*Assets.* Bytes, checksums and the scanner's protocol; `bindAssetSession` changes
a label no property reads.

*Archive.* The line format. The age a tree must have only delays it. The cursor
passes through `toIso` and keeps milliseconds; the model has one clock for it and
for the completion times, which the Workflow World writes. If those were finer,
trees of the cursor's millisecond would be found again, which changes nothing
(`on conflict do nothing`), and a whole page of trees that ended in one millisecond
would be found for ever.

*Sessions.* The approvals route stops after 100 pages of 1000 events
(`approvals/route.ts:24`); the model's histories are shorter, and `ApprovalAgrees`
speaks of the history that was read. The pace of polls. Deleting a session is an
action of `SandboxCleanup`; the ownership check is assumed to pass; the mailbox part of steering is in `AgentMailbox`.

## 6. Disagreements

`thread_log_hole`: server/data/thread-collection-store.ts:860 says that "a
contiguous event log is required by absolute transcript pagination and recovery
cursors". A page that streams a long thread leaves a hole in it when another page
saves a different thread (`EveryLogIsContiguous`):

1. page a holds a whole transcript longer than one window, and its baseline is the
   stored log; page b saves another thread, so the collection's revision moves on;
2. the next checkpoint of a meets a 409. The index shows the thread unchanged, so
   the baseline keeps its events (`http-thread-storage.ts:270`); the candidate is
   newer, so the tail window is loaded too, and `loadThreadWindow` merges its
   events into the baseline but stores the window of the page alone
   (`http-thread-storage.ts:171`);
3. the retry replaces a cumulative snapshot in place. Its index is that of the
   whole array, to which the patch adds the start of the window (:399): with 300
   events and windows of 256, replaceFrom is 299 + 44. The store has nothing to
   delete there and inserts at 343; the log has a hole, and both snapshots.

A baseline that kept the lower of the two starts would send 299. For transcripts
of one window the start is 0 and nothing happens; that is `LogIsContiguous`.

`thread_steps_erased`: docs/architecture.md:184 says of conflicts that "only an
explicit edit/resubmit may replace history", which "prevents an older React
snapshot from erasing persisted steps". A page can lose a step of another page
all the same (`StepsKept`):

1. page b renames a thread it only has as a summary, and hydrates it while that
   save is under way; page a saves a new step first;
2. the save of b meets a 409. Its candidate still holds the summary, so the remote
   transcript is not loaded, and the merge of two summaries keeps the newer
   cursor; merged into what b shows, it joins the older events to that cursor;
3. b reads the stream behind the gap (a page that mounts the thread starts at its
   cursor), and the store appends the new events by identity;
4. the next cumulative snapshot of b replaces one in place. Its index is that of
   b's array, one less than the index in the stored log, where the step of a now
   lies: the store deletes from there.

What is true is `KnownStepsKept`: a step is erased only by a save of a page that
did not have it or whose baseline was not the stored log. Three events are too few
to tell the two apart.

## 7. Observations

Behaviours met while modelling that a reviewer would want to know. They are part
of the models (unless said otherwise) and the properties are stated so that they
are true beside them.

*Mailbox.* A database error in `beginAdmission` marks an item
`submission-ambiguous` that was never sent (`service.ts:148`). A failed steer does
not stop an edit of its turn and can then be retried before the edit
(`agent-mailbox-store.ts:162`). A crash between `accept` and `commit` leaves an
answer accepted for ever (`service.ts:160`). An enqueue transaction that began
first but obtained the lock second is placed in front of an item already leased,
which is why `LeasedInOrder` and `ReceiptsInOrder` speak of items that were in the
table first.

*AgentRun.* A turn that completed before the stop request is reported cancelled
and its result dropped (`service.ts:446`). After a lost attach response, an
inspection that moved the run past `running` leads the start call to reset the
live session (`agent-run-store.ts:252`). An answer whose caller died around its
reservation stays `submitting`, and its request can never be answered; a run with
a requested cancellation still accepts answers.

*Threads.* `sameThreadCollection` compares only ids and `updatedAt`, so a conflict
merge that keeps `updatedAt` is saved but not shown; the next save of the page then
replaces the newer snapshot by its older one and moves the stored cursor back. A
deleted thread can come back through another tab's conflict merge:
there is no tombstone. Metadata can move back.

*Sandbox.* If Docker refuses the limits and then fails to stop the container, the
permit is released while compute runs (`agent/sandbox.ts:142`, against the comment
at `sandbox-admission-backend.ts:170`); `ComputeWithinLimit` counts such
containers apart. A failed idle shutdown keeps its permit until the session is
used again. If it did stop the container, the creates that waited for it reattach
to stopped compute, which nothing starts before the lease has ended
(`idle-sandbox-backend.ts:70`); `HandedOutLive` tells them apart. A restart forgets running containers. A create in flight at retirement
can leave a container after the deletion completed (`late`).

*Assets.* A request that dies between publication and scan leaves the asset
`scanning`: there is no rescan. A late completer's scanner outage turns clean into
error. A HEAD that fails, or a caller's wrong checksum, condemns a good object.
`deleteAsset` takes no lock, so a commit may follow it (`strayed`).

*Archive.* The object key is deterministic: a late worker can overwrite a completed
record's object by an older snapshot, and the download is then refused for ever; a
provider that tears such a late put has the same effect (`LateTorn`).
A tree that ran and ended again between export and guard is recorded with the older
whole snapshot. The final guard is not atomic with the completion. A failing root
can use up the claims of every pass while its retry delay is shorter than the
interval.

*Sessions.* `updateOwned` has no guard on the status it replaces, so an inspection
that read before a close writes over it; the limit of sixteen is checked before
the spawn; a replayed `subagent.called` makes a waiting child look running until
the next refresh; a server that dies between the runtime's spawn and the record
leaves a child unknown to the table, though not to the history. So does a start
that timed out or stayed ambiguous after the runtime took it
(`subagents.ts:516, 566`): the request fails without an id, the limit of sixteen
does not count the child, and a second attempt, with a new idempotency key, starts
another; the ambiguous row of its run is the only trace, and a session without a
run has none. When the transcript shows a child as active whose record says it
ended, the workspace drops the list it loaded and loads it again at once
(`agent-workspace.tsx:875`).
