--------------------------- MODULE WorkflowArchive ---------------------------
(***************************************************************************)
(* The copy of finished Workflow root trees to object storage: the archive *)
(* store (server/data/workflow-archive-store.ts), the passes of several    *)
(* workers (server/workflow-archive/service.ts), the object store, and the *)
(* operator's download and restore.                                        *)
(*                                                                         *)
(* The age a tree must have (olderThanMs) only delays its discovery.        *)
(* A root tree is abstracted to the version of its rows: it is odd while a *)
(* member runs and even when all members are terminal.  An archive file,   *)
(* its checksum and its object are the version they were exported from.    *)
(***************************************************************************)
EXTENDS Naturals, FiniteSets

CONSTANTS
    Roots,        \* root run ids, naturals for their order
    Workers,      \* replicas of the archive worker
    PageSize,     \* discoveryLimit
    PassSize,     \* maxRoots
    MaxChanges,   \* bound on reactivations and hooks gained
    MaxFaults     \* bound on failing calls, lost leases and dying workers

ASSUME ArchiveConstants ==
    /\ Roots \subseteq Nat /\ PageSize \in Nat \ {0} /\ PassSize \in Nat \ {0}
    /\ MaxChanges \in Nat /\ MaxFaults \in Nat

VARIABLES
    version,   \* [Roots -> version of the tree's rows]
    done,      \* [Roots -> newest completed_at]
    hooked,    \* roots with a retained hook
    rows,      \* [Roots -> row of workflow_archives]
    cursor,    \* the row of workflow_archive_discovery
    objects,   \* [Roots -> version of the object, 0: none]
    workers,   \* [Workers -> what the worker does next]
    restored,  \* what the operator's isolated World holds: a root and its version
    clock, changes, faults

world == <<version, done, hooked, clock, changes>>
vars == <<world, rows, cursor, objects, workers, restored, faults>>

\* Objects whose bytes are no archive: odd, for no running tree is exported.
Torn == 1
LateTorn == 3   \* put by a worker that had lost its claim

NoCursor == <<0, 0>>

Empty == <<0, 0>>

Idle == [phase |-> "idle"]

Init ==
    /\ version = [r \in Roots |-> 1]
    /\ done = [r \in Roots |-> 0]
    /\ hooked = {} /\ clock = 0 /\ changes = 0 /\ faults = 0
    /\ rows = [r \in Roots |-> [status |-> "none", source |-> 0, token |-> "none",
                                due |-> TRUE, expired |-> FALSE, sha |-> 0]]
    /\ cursor = NoCursor
    /\ objects = [r \in Roots |-> 0]
    /\ workers = [w \in Workers |-> Idle]
    /\ restored = Empty

Fault == faults < MaxFaults /\ faults' = faults + 1

Go(w, next) == workers' = [workers EXCEPT ![w] = next]

-----------------------------------------------------------------------------
(* The Workflow World.                                                      *)

Live(r) == version[r] % 2 = 1

\* The last running member ends.
FinishTree(r) ==
    /\ Live(r)
    /\ version' = [version EXCEPT ![r] = @ + 1]
    /\ clock' = clock + 1
    /\ done' = [done EXCEPT ![r] = clock + 1]
    /\ UNCHANGED <<hooked, changes, rows, cursor, objects, workers, restored, faults>>

\* A member runs again; before its discovery that only delays it.
ReviveTree(r) ==
    /\ ~Live(r) /\ rows[r].status # "none" /\ changes < MaxChanges /\ changes' = changes + 1
    /\ version' = [version EXCEPT ![r] = @ + 1]
    /\ UNCHANGED <<done, hooked, clock, rows, cursor, objects, workers, restored, faults>>

GainHook(r) ==
    /\ r \notin hooked /\ changes < MaxChanges /\ changes' = changes + 1
    /\ hooked' = hooked \cup {r}
    /\ UNCHANGED <<version, done, clock, rows, cursor, objects, workers, restored, faults>>

HookRetentionEnds(r) ==
    /\ r \in hooked /\ hooked' = hooked \ {r}
    /\ UNCHANGED <<version, done, clock, changes, rows, cursor, objects, workers,
                   restored, faults>>

-----------------------------------------------------------------------------
(* Discovery.                                                               *)

Before(p, q) == p[1] < q[1] \/ (p[1] = q[1] /\ p[2] < q[2])

Key(r) == <<done[r], r>>

\* findWorkflowArchiveCandidates: the first page after the cursor.
Eligible == {r \in Roots : ~Live(r) /\ r \notin hooked /\ (cursor = NoCursor \/ Before(cursor, Key(r)))}

Candidates ==
    {r \in Eligible : Cardinality({q \in Eligible : Before(Key(q), Key(r))}) < PageSize}

ScanPage(w) ==
    /\ workers[w] = Idle
    /\ Go(w, [phase |-> "scanned", page |-> {Key(r) : r \in Candidates}])
    /\ UNCHANGED <<world, rows, cursor, objects, restored, faults>>

\* Mutant of NextCursor: discovery never starts over.
CursorStays(page) ==
    IF page = {} THEN cursor ELSE CHOOSE k \in page : \A j \in page : j = k \/ Before(j, k)

\* The cursor is reset by a page that is not full.  It keeps milliseconds
\* (toIso), and so does this clock.
NextCursor(page) ==
    IF Cardinality(page) = PageSize
    THEN CHOOSE k \in page : \A j \in page : j = k \/ Before(j, k)
    ELSE NoCursor

\* recordDiscovery: insert on conflict do nothing, and the cursor, in one transaction.
RecordDiscovery(w) ==
    /\ workers[w].phase = "scanned"
    /\ LET page == workers[w].page
       IN  /\ rows' = [r \in Roots |->
                         IF rows[r].status = "none" /\ \E k \in page : k[2] = r
                         THEN [rows[r] EXCEPT !.status = "pending",
                                              !.source = (CHOOSE k \in page : k[2] = r)[1]]
                         ELSE rows[r]]
           /\ cursor' = NextCursor(page)
    /\ Go(w, [phase |-> "claiming", left |-> PassSize])
    /\ UNCHANGED <<world, objects, restored, faults>>

-----------------------------------------------------------------------------
(* One claim of a pass.                                                     *)

Claimable ==
    {r \in Roots : /\ rows[r].due
                   /\ \/ rows[r].status \in {"pending", "failed"}
                      \/ rows[r].status = "claimed" /\ rows[r].expired}

NextClaim == CHOOSE r \in Claimable : \A q \in Claimable \ {r} :
                Before(<<rows[r].source, r>>, <<rows[q].source, q>>)

\* claimNext; the pass ends when nothing is ready or it has claimed maxRoots.
ClaimNext(w) ==
    /\ workers[w].phase = "claiming"
    /\ IF Claimable = {} \/ workers[w].left = 0
       THEN Go(w, Idle) /\ UNCHANGED rows
       ELSE /\ rows' = [rows EXCEPT ![NextClaim] =
                          [@ EXCEPT !.status = "claimed", !.token = w, !.expired = FALSE]]
            /\ Go(w, [phase |-> "claimed", root |-> NextClaim, sha |-> 0,
                      left |-> workers[w].left - 1])
    /\ UNCHANGED <<world, cursor, objects, restored, faults>>

Phase(w, p) == [workers[w] EXCEPT !.phase = p]

\* Mutant of ExportTree: a running member does not stop the export.
ExportRunning(w) ==
    /\ workers[w].phase = "claimed"
    /\ Go(w, [Phase(w, "exported") EXCEPT !.sha = version[workers[w].root]])
    /\ UNCHANGED <<world, rows, cursor, objects, restored, faults>>

\* exportWorkflowRootTrees from one snapshot, and the check of the file.
ExportTree(w) ==
    /\ workers[w].phase = "claimed"
    /\ LET r == workers[w].root
       IN  Go(w, IF Live(r) THEN Phase(w, "failing")
                 ELSE [Phase(w, "exported") EXCEPT !.sha = version[r]])
    /\ UNCHANGED <<world, rows, cursor, objects, restored, faults>>

\* putVerified: an object with the expected checksum is not written again.
CheckObject(w) ==
    /\ workers[w].phase = "exported"
    /\ Go(w, Phase(w, IF objects[workers[w].root] = workers[w].sha THEN "put" ELSE "putting"))
    /\ UNCHANGED <<world, rows, cursor, objects, restored, faults>>

\* The row is claimed with the token of this attempt.  A worker runs one
\* attempt at a time, so that its name stands for the random token.
Owns(w) == rows[workers[w].root].status = "claimed" /\ rows[workers[w].root].token = w

\* The put asks nobody for the claim.  A provider may store something else than
\* what was sent.
PutObject(w) ==
    /\ workers[w].phase = "putting"
    /\ \E bytes \in {workers[w].sha, IF Owns(w) THEN Torn ELSE LateTorn} :
          /\ objects' = [objects EXCEPT ![workers[w].root] = bytes]
          /\ IF bytes = workers[w].sha THEN UNCHANGED faults ELSE Fault
    /\ Go(w, Phase(w, "put"))
    /\ UNCHANGED <<world, rows, cursor, restored>>

Guarded(r) == ~Live(r) /\ r \notin hooked

\* Mutant of VerifyArchive: the answer of the put is trusted.
VerifyTrusts(w) ==
    /\ workers[w].phase = "put"
    /\ Go(w, Phase(w, IF Guarded(workers[w].root) THEN "verified" ELSE "failing"))
    /\ UNCHANGED <<world, rows, cursor, objects, restored, faults>>

\* hashRemoteObject reads the object back, then assertWorkflowRootArchivable
\* asks the other database.
VerifyArchive(w) ==
    /\ workers[w].phase = "put"
    /\ LET r == workers[w].root
       IN  Go(w, Phase(w, IF objects[r] = workers[w].sha /\ Guarded(r)
                          THEN "verified" ELSE "failing"))
    /\ UNCHANGED <<world, rows, cursor, objects, restored, faults>>

Claiming(w) == [phase |-> "claiming", left |-> workers[w].left]

\* complete
CommitArchive(w) ==
    /\ workers[w].phase = "verified"
    /\ IF Owns(w)
       THEN /\ rows' = [rows EXCEPT ![workers[w].root] =
                          [@ EXCEPT !.status = "completed", !.expired = FALSE,
                                    !.token = "none", !.sha = workers[w].sha]]
            /\ Go(w, Claiming(w))
       ELSE Go(w, Phase(w, "failing")) /\ UNCHANGED rows
    /\ UNCHANGED <<world, cursor, objects, restored, faults>>

\* fail, with a retry delay; a row of another attempt is left alone.
FailArchive(w) ==
    /\ workers[w].phase = "failing"
    /\ rows' = IF Owns(w)
               THEN [rows EXCEPT ![workers[w].root] =
                       [@ EXCEPT !.status = "failed", !.expired = FALSE,
                                 !.token = "none", !.due = FALSE]]
               ELSE rows
    /\ Go(w, Claiming(w))
    /\ UNCHANGED <<world, cursor, objects, restored, faults>>

Attempting(w) == workers[w].phase \in
    {"claimed", "exported", "putting", "put", "verified", "failing"}

\* A query, a provider call or the fail itself throws.
CallFails(w) ==
    /\ Attempting(w) /\ Fault
    /\ Go(w, IF workers[w].phase = "failing" THEN Claiming(w) ELSE Phase(w, "failing"))
    /\ UNCHANGED <<world, rows, cursor, objects, restored>>

WorkerDies(w) ==
    /\ workers[w] # Idle /\ Fault /\ Go(w, Idle)
    /\ UNCHANGED <<world, rows, cursor, objects, restored>>

RetryDue(r) ==
    /\ ~rows[r].due /\ rows' = [rows EXCEPT ![r].due = TRUE]
    /\ UNCHANGED <<world, cursor, objects, workers, restored, faults>>

\* The lease of a dead worker ends; a living one loses it when its renewals fail.
LeaseEnds(r) ==
    /\ rows[r].status = "claimed" /\ ~rows[r].expired
    /\ rows' = [rows EXCEPT ![r].expired = TRUE]
    /\ IF \E w \in Workers : Attempting(w) /\ workers[w].root = r /\ Owns(w)
       THEN Fault ELSE UNCHANGED faults
    /\ UNCHANGED <<world, cursor, objects, workers, restored>>

\* renew revives an expired lease that nobody has taken.
Renew(w) ==
    /\ Attempting(w) /\ Owns(w) /\ rows[workers[w].root].expired
    /\ rows' = [rows EXCEPT ![workers[w].root].expired = FALSE]
    /\ UNCHANGED <<world, cursor, objects, workers, restored, faults>>

-----------------------------------------------------------------------------
(* The operator.                                                            *)

\* downloadVerified against the record.
Downloadable(r) == rows[r].status = "completed" /\ objects[r] = rows[r].sha

\* One transaction into an empty World.
RestoreArchive(r) ==
    /\ Downloadable(r) /\ restored = Empty
    /\ restored' = <<r, objects[r]>>
    /\ UNCHANGED <<world, rows, cursor, objects, workers, faults>>

-----------------------------------------------------------------------------
WorkerStep(w) ==
    \/ ScanPage(w) \/ RecordDiscovery(w) \/ ClaimNext(w) \/ ExportTree(w)
    \/ CheckObject(w) \/ PutObject(w) \/ VerifyArchive(w)
    \/ CommitArchive(w) \/ FailArchive(w)

Next ==
    \/ \E r \in Roots :
        \/ FinishTree(r) \/ ReviveTree(r) \/ GainHook(r) \/ HookRetentionEnds(r)
        \/ RetryDue(r) \/ LeaseEnds(r) \/ RestoreArchive(r)
    \/ \E w \in Workers : WorkerStep(w) \/ CallFails(w) \/ WorkerDies(w) \/ Renew(w)

\* Every worker runs its passes in a loop, and time passes.
Fairness ==
    /\ \A w \in Workers : WF_vars(WorkerStep(w))
    /\ \A r \in Roots : WF_vars(RetryDue(r)) /\ WF_vars(LeaseEnds(r))

Spec == Init /\ [][Next]_vars /\ Fairness

-----------------------------------------------------------------------------
(* Properties.                                                              *)

\* "The worker never archives a running/waiting Eve session": a completed
\* record stands for a snapshot in which every member was terminal.
ArchivedWhole == \A r \in Roots : rows[r].sha % 2 = 0

\* A completed record can be downloaded, whatever workers with lost leases,
\* torn writes and retries do, unless the tree changed after it first ended or
\* the provider tore the put of a worker that had lost its claim, which nobody
\* reads back; and what an operator restores is the snapshot the record names,
\* even when a late worker has replaced the object by another one.
CompletedReadable ==
    /\ \A r \in Roots : rows[r].status = "completed" /\ version[r] = 2
                          => objects[r] \in {rows[r].sha, LateTorn}
    /\ restored # Empty => restored[2] = rows[restored[1]].sha

\* Once all trees have ended for good and keep no hook, every one of them is
\* archived: no page of the shared cursor, dead claim or failure hides a tree.
EveryTreeArchived ==
    <>[](\A r \in Roots : ~Live(r) /\ r \notin hooked) =>
        \A r \in Roots : <>(rows[r].status = "completed")
=============================================================================
