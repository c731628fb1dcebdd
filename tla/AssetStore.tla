------------------------------ MODULE AssetStore ------------------------------
(***************************************************************************)
(* The object-storage asset store (server/data/s3-asset-store.ts): its     *)
(* three tables, the provider's multipart uploads and objects, and the     *)
(* requests that run its operations concurrently.                          *)
(*                                                                         *)
(* The operations under withUploadWriteLock are one step, except writePart,*)
(* which holds the lock across the provider's write.  The completion of an *)
(* upload and the deletion of an asset leave the lock between their steps. *)
(* An etag is abstracted to the size of the part.  Every asset id is used  *)
(* for one upload.                                                         *)
(***************************************************************************)
EXTENDS Naturals, FiniteSets

CONSTANTS
    Assets,      \* asset ids, one upload each
    Requests,    \* requests in flight
    SizeOf,      \* declared bytes; a chunk is one byte here
    Direct,      \* assets of a store with transferStrategy "direct"
    Infected,    \* assets whose bytes the scanner rejects
    Quota,       \* bytes of the principal
    MaxFaults    \* bound on failing provider calls, scans and dying requests

ASSUME SizesArePositive == SizeOf \in [Assets -> Nat \ {0}] /\ Quota \in Nat

VARIABLES
    assets,     \* [Assets -> row of agent_assets]
    uploads,    \* [Assets -> row of agent_asset_uploads]
    parts,      \* [Assets -> acknowledged size of each part, 0: no row]
    multipart,  \* [Assets -> state of the provider's multipart upload]
    pieces,     \* [Assets -> size of each part at the provider]
    objects,    \* assets whose object exists
    requests,   \* [Requests -> what the request does next]
    strayed,    \* assets removed while their upload could still commit
    faults

vars == <<assets, uploads, parts, multipart, pieces, objects, requests, strayed, faults>>

tables == <<assets, uploads, parts>>
provider == <<multipart, pieces, objects>>

PartNumbers(a) == 1..SizeOf[a]

NoParts(a) == [n \in PartNumbers(a) |-> 0]

Idle == [phase |-> "idle"]

Doing(phase, a) == [phase |-> phase, asset |-> a]

Init ==
    /\ assets = [a \in Assets |-> [status |-> "none", scan |-> "pending", expired |-> FALSE]]
    /\ uploads = [a \in Assets |-> [status |-> "none", stale |-> FALSE]]
    /\ parts = [a \in Assets |-> NoParts(a)]
    /\ multipart = [a \in Assets |-> "none"]
    /\ pieces = [a \in Assets |-> NoParts(a)]
    /\ objects = {} /\ strayed = {} /\ faults = 0
    /\ requests = [r \in Requests |-> Idle]

Fault == faults < MaxFaults /\ faults' = faults + 1

Go(r, next) == requests' = [requests EXCEPT ![r] = next]

\* The advisory lock of an upload is held across the provider's write.
LockFree(a) == \A r \in Requests : requests[r].phase = "writing" => requests[r].asset # a

Exists(a) == assets[a].status \in {"uploading", "ready", "failed"}

-----------------------------------------------------------------------------
(* createUpload                                                             *)

\* The bytes of some assets, or parts, of these sizes, each at its place.
Bytes(S, size) == UNION {{x} \X (1..size[x]) : x \in S}

\* Mutant of UsedBytes: bytes that are still being uploaded are not reserved.
UsedWhenReady == Cardinality(Bytes({a \in Assets : assets[a].status = "ready"}, SizeOf))

UsedBytes == Cardinality(Bytes({a \in Assets : assets[a].status \in {"uploading", "ready"}}, SizeOf))

\* The provider is asked first.
BeginUpload(r, a) ==
    /\ requests[r] = Idle /\ assets[a].status = "none" /\ multipart[a] = "none"
    /\ multipart' = [multipart EXCEPT ![a] = "open"]
    /\ Go(r, Doing("reserving", a))
    /\ UNCHANGED <<tables, pieces, objects, strayed, faults>>

\* The quota transaction of one principal; a refused upload is aborted at the
\* provider, best effort, and nothing remains of it.
ReserveUpload(r, a) ==
    /\ requests[r] = Doing("reserving", a) /\ Go(r, Idle)
    /\ \/ /\ UsedBytes + SizeOf[a] <= Quota
          /\ assets' = [assets EXCEPT ![a].status = "uploading"]
          /\ uploads' = [uploads EXCEPT ![a].status = "uploading"]
          /\ UNCHANGED <<multipart, faults>>
       \/ /\ UsedBytes + SizeOf[a] > Quota
          /\ multipart' = [multipart EXCEPT ![a] = "none"]
          /\ UNCHANGED <<assets, uploads, faults>>
       \/ /\ UsedBytes + SizeOf[a] > Quota
          /\ Fault
          /\ UNCHANGED <<assets, uploads, multipart>>
    /\ UNCHANGED <<parts, pieces, objects, strayed>>

-----------------------------------------------------------------------------
(* Parts: through the server (writePart), or straight to the provider with  *)
(* a signed URL (createPartUpload) and an acknowledgement.                  *)

Total(a) == Cardinality(Bytes(PartNumbers(a), parts[a]))

OthersTotal(a, part) == Cardinality(Bytes(PartNumbers(a) \ {part}, parts[a]))

\* The provider has the part before the row says so.
BeginWrite(r, a, n, size) ==
    /\ requests[r] = Idle /\ a \notin Direct /\ LockFree(a)
    /\ uploads[a].status = "uploading"
    /\ OthersTotal(a, n) + size <= SizeOf[a]
    /\ multipart[a] = "open"
    /\ pieces' = [pieces EXCEPT ![a][n] = size]
    /\ Go(r, [phase |-> "writing", asset |-> a, part |-> n, size |-> size])
    /\ UNCHANGED <<tables, multipart, objects, strayed, faults>>

\* A row of the upload is needed for the row of its part.
EndWrite(r) ==
    /\ requests[r].phase = "writing" /\ Go(r, Idle)
    /\ LET w == requests[r]
       IN  parts' = IF uploads[w.asset].status = "none" THEN parts
                    ELSE [parts EXCEPT ![w.asset][w.part] = w.size]
    /\ UNCHANGED <<assets, uploads, provider, strayed, faults>>

\* A signed URL outlives the state it was signed in; its length is signed.
PutPart(a, n) ==
    /\ a \in Direct /\ assets[a].status # "none" /\ multipart[a] = "open"
    /\ pieces' = [pieces EXCEPT ![a][n] = 1]
    /\ UNCHANGED <<tables, multipart, objects, requests, strayed, faults>>

\* The client's word is taken for it.
AcknowledgePart(a, n) ==
    /\ a \in Direct /\ LockFree(a) /\ uploads[a].status = "uploading"
    /\ parts' = [parts EXCEPT ![a][n] = 1]
    /\ UNCHANGED <<assets, uploads, provider, requests, strayed, faults>>

-----------------------------------------------------------------------------
(* completeUpload                                                           *)

\* One byte in each part, as declared.
Whole(a) == [n \in PartNumbers(a) |-> 1]

AllParts(a, rows) == rows = Whole(a)

MayClaim(a) ==
    \/ uploads[a].status = "uploading"
    \/ uploads[a].status = "completing" /\ uploads[a].stale

\* A caller may acknowledge every part again in its payload.
ClaimCompletion(r, a) ==
    /\ requests[r] = Idle /\ LockFree(a) /\ MayClaim(a)
    /\ \E rows \in {parts[a], Whole(a)} :
          /\ AllParts(a, rows)
          /\ parts' = [parts EXCEPT ![a] = rows]
    /\ uploads' = [uploads EXCEPT ![a] = [status |-> "completing", stale |-> FALSE]]
    /\ Go(r, Doing("committing", a))
    /\ UNCHANGED <<assets, provider, strayed, faults>>

\* Five minutes after the claim another request, or the worker, may take over.
LeaseEnds(a) ==
    /\ uploads[a].status = "completing" /\ ~uploads[a].stale
    /\ uploads' = [uploads EXCEPT ![a].stale = TRUE]
    /\ UNCHANGED <<assets, parts, provider, requests, strayed, faults>>

Commits(a) == multipart[a] = "open" /\ AllParts(a, pieces[a])

\* Mutant of CommitObject: a refused commit is verified instead of returned.
CommitCondemns(r) ==
    /\ requests[r].phase = "committing"
    /\ LET a == requests[r].asset
       IN  /\ IF Commits(a)
              THEN /\ multipart' = [multipart EXCEPT ![a] = "committed"]
                   /\ objects' = objects \union {a}
              ELSE UNCHANGED <<multipart, objects>>
           /\ Go(r, Doing("verifying", a))
    /\ UNCHANGED <<tables, pieces, strayed, faults>>

\* The provider refuses a commit it has done before, and one whose parts it
\* does not have; the object tells the two apart.
CommitObject(r) ==
    /\ requests[r].phase = "committing"
    /\ LET a == requests[r].asset
       IN  /\ IF Commits(a)
              THEN /\ multipart' = [multipart EXCEPT ![a] = "committed"]
                   /\ objects' = objects \union {a}
              ELSE UNCHANGED <<multipart, objects>>
           /\ Go(r, IF Commits(a) \/ a \in objects THEN Doing("verifying", a) ELSE Idle)
    /\ UNCHANGED <<tables, pieces, strayed, faults>>

\* A HEAD that fails and a checksum that is not the caller's condemn the
\* object as a missing one does.
VerifyObject(r) ==
    /\ requests[r].phase = "verifying"
    /\ LET a == requests[r].asset
       IN  \/ a \in objects /\ Go(r, Doing("publishing", a)) /\ UNCHANGED faults
           \/ a \notin objects /\ Go(r, Doing("condemning", a)) /\ UNCHANGED faults
           \/ a \in objects /\ Go(r, Doing("condemning", a)) /\ Fault
    /\ UNCHANGED <<tables, provider, strayed>>

\* The deletion's failure is swallowed.
DropObject(r) ==
    /\ requests[r].phase = "condemning"
    /\ Go(r, Doing("marking", requests[r].asset))
    /\ \/ objects' = objects \ {requests[r].asset} /\ UNCHANGED faults
       \/ UNCHANGED objects /\ Fault
    /\ UNCHANGED <<tables, multipart, pieces, strayed>>

\* Both updates are without a condition on the status they replace.
MarkFailed(r) ==
    /\ requests[r].phase = "marking" /\ LockFree(requests[r].asset) /\ Go(r, Idle)
    /\ LET a == requests[r].asset
       IN  /\ assets' = IF Exists(a) THEN [assets EXCEPT ![a].status = "failed"] ELSE assets
           /\ uploads' = IF uploads[a].status = "none" THEN uploads
                         ELSE [uploads EXCEPT ![a].status = "failed"]
    /\ UNCHANGED <<parts, provider, strayed, faults>>

\* A completion that finds another one's publication goes on with its row.
PublishAsset(r) ==
    /\ requests[r].phase = "publishing" /\ LockFree(requests[r].asset)
    /\ LET a == requests[r].asset
           Scan(seen) == [phase |-> "scanning", asset |-> a, seen |-> seen]
       IN  \/ /\ uploads[a].status = "completing"
              /\ assets' = [assets EXCEPT ![a].status = "ready", ![a].scan = "scanning"]
              /\ uploads' = [uploads EXCEPT ![a].status = "ready"]
              /\ Go(r, Scan("scanning"))
           \/ /\ uploads[a].status = "ready"
              /\ Go(r, Scan(assets[a].scan))
              /\ UNCHANGED <<assets, uploads>>
           \/ /\ uploads[a].status \notin {"completing", "ready"}
              /\ Go(r, Idle)
              /\ UNCHANGED <<assets, uploads>>
    /\ UNCHANGED <<parts, provider, strayed, faults>>

\* Mutant of Verdicts: what cannot be read is taken for clean.
VerdictsOpen(a) ==
    CASE a \notin objects -> {"clean"}
      [] a \in Infected   -> {"rejected"}
      [] OTHER            -> {"clean"}

\* "A scanner outage must never become implicit access to the bytes": neither
\* does an object that cannot be read.
Verdicts(a) ==
    CASE a \notin objects -> {"error"}
      [] a \in Infected   -> {"rejected"}
      [] OTHER            -> {"clean"}

RecordScan(r) ==
    /\ requests[r].phase = "scanning" /\ LockFree(requests[r].asset) /\ Go(r, Idle)
    /\ \E v \in {"clean", "rejected", "error"} :
          /\ \/ v \in Verdicts(requests[r].asset) /\ UNCHANGED faults
             \/ v = "error" /\ Fault
          /\ assets' = IF Exists(requests[r].asset) /\ v # requests[r].seen
                       THEN [assets EXCEPT ![requests[r].asset].scan = v] ELSE assets
    /\ UNCHANGED <<uploads, parts, provider, strayed>>

-----------------------------------------------------------------------------
(* abortUpload, deleteAsset and the cleanup worker (cleanupExpired)         *)

\* The upload and its parts go with the row of the asset.
Removed(a) ==
    /\ assets' = [assets EXCEPT ![a].status = "gone"]
    /\ uploads' = [uploads EXCEPT ![a] = [status |-> "none", stale |-> FALSE]]
    /\ parts' = [parts EXCEPT ![a] = NoParts(a)]

Aborted(a) ==
    /\ multipart' = [multipart EXCEPT ![a] = IF @ = "open" THEN "aborted" ELSE @]
    /\ pieces' = [pieces EXCEPT ![a] = NoParts(a)]

\* The provider refuses to abort what it has committed, and the row remains.
AbortUpload(a) ==
    /\ LockFree(a) /\ uploads[a].status = "uploading" /\ multipart[a] = "open"
    /\ Aborted(a) /\ Removed(a)
    /\ UNCHANGED <<objects, requests, strayed, faults>>

\* deleteAsset takes no lock and asks for no status.
BeginDelete(r, a) ==
    /\ requests[r] = Idle /\ Exists(a)
    /\ objects' = objects \ {a}
    /\ strayed' = IF multipart[a] = "open" THEN strayed \union {a} ELSE strayed
    /\ Go(r, Doing("deleting", a))
    /\ UNCHANGED <<tables, multipart, pieces, faults>>

EndDelete(r) ==
    /\ requests[r].phase = "deleting" /\ Go(r, Idle)
    /\ IF Exists(requests[r].asset) THEN Removed(requests[r].asset) ELSE UNCHANGED tables
    /\ UNCHANGED <<provider, strayed, faults>>

AssetExpires(a) ==
    /\ Exists(a) /\ ~assets[a].expired
    /\ assets' = [assets EXCEPT ![a].expired = TRUE]
    /\ UNCHANGED <<uploads, parts, provider, requests, strayed, faults>>

BeginReap(r, a) ==
    /\ requests[r] = Idle
    /\ assets[a].expired /\ assets[a].status \in {"ready", "failed"}
    /\ objects' = objects \ {a}
    /\ Go(r, Doing("reaping", a))
    /\ UNCHANGED <<tables, multipart, pieces, strayed, faults>>

EndReap(r) ==
    /\ requests[r].phase = "reaping" /\ Go(r, Idle)
    /\ IF assets[requests[r].asset].status \in {"ready", "failed"}
       THEN Removed(requests[r].asset) ELSE UNCHANGED tables
    /\ UNCHANGED <<provider, strayed, faults>>

Reapable(a) ==
    /\ LockFree(a) /\ Exists(a) /\ assets[a].expired
    /\ MayClaim(a)

\* Mutant of ReapUpload: only the multipart upload is cleaned up.
ReapUploadKeepsObject(a) ==
    /\ Reapable(a)
    /\ Aborted(a) /\ Removed(a)
    /\ UNCHANGED <<objects, requests, strayed, faults>>

\* Mutant of ReapUpload: a stale completion is nobody's.
ReapUploadingOnly(a) ==
    /\ Reapable(a) /\ uploads[a].status = "uploading"
    /\ Aborted(a) /\ Removed(a)
    /\ UNCHANGED <<objects, requests, strayed, faults>>

\* An unfinished upload is aborted; a stale completion may have committed, and
\* its object is deleted too.
ReapUpload(a) ==
    /\ Reapable(a)
    /\ uploads[a].status = "uploading" => multipart[a] = "open"
    /\ Aborted(a) /\ Removed(a)
    /\ objects' = objects \ (IF uploads[a].status = "completing" THEN {a} ELSE {})
    /\ UNCHANGED <<requests, strayed, faults>>

\* A failed abort of a stale completion is ignored, a failed deletion of its
\* object keeps the rows; a failed abort of an unfinished upload changes nothing.
ReapUploadFails(a) ==
    /\ Reapable(a) /\ uploads[a].status = "completing" /\ Fault
    /\ \/ /\ Removed(a)
          /\ objects' = objects \ {a}
          /\ strayed' = IF multipart[a] = "open" THEN strayed \union {a} ELSE strayed
          /\ UNCHANGED <<multipart, pieces>>
       \/ /\ Aborted(a)
          /\ UNCHANGED <<tables, objects, strayed>>
    /\ UNCHANGED requests

RequestDies(r) ==
    /\ requests[r] # Idle /\ Fault /\ Go(r, Idle)
    /\ UNCHANGED <<tables, provider, strayed>>

-----------------------------------------------------------------------------

Next ==
    \/ \E r \in Requests :
          \/ \E a \in Assets :
                \/ BeginUpload(r, a) \/ ReserveUpload(r, a)
                \/ \E n, size \in PartNumbers(a) : BeginWrite(r, a, n, size)
                \/ ClaimCompletion(r, a) \/ BeginDelete(r, a) \/ BeginReap(r, a)
          \/ EndWrite(r) \/ CommitObject(r) \/ VerifyObject(r) \/ DropObject(r)
          \/ MarkFailed(r) \/ PublishAsset(r) \/ RecordScan(r)
          \/ EndDelete(r) \/ EndReap(r) \/ RequestDies(r)
    \/ \E a \in Assets :
          \/ \E n \in PartNumbers(a) : PutPart(a, n) \/ AcknowledgePart(a, n)
          \/ LeaseEnds(a) \/ AbortUpload(a) \/ AssetExpires(a)
          \/ ReapUpload(a) \/ ReapUploadFails(a)

\* Time passes and the cleanup worker sweeps again and again.  A client may
\* claim a stalled completion each time its lease ends; strong fairness says
\* that some sweep comes between a lease's end and the next claim.
Fairness ==
    \A a \in Assets : WF_vars(LeaseEnds(a)) /\ WF_vars(AssetExpires(a)) /\ SF_vars(ReapUpload(a))

Spec == Init /\ [][Next]_vars /\ Fairness

-----------------------------------------------------------------------------

\* The quota transaction counts uploads in progress: what is reserved and
\* stored together never exceeds the principal's quota.  That counts for the
\* bytes too: "This prevents two requests from both passing the declared-size
\* check against the same stale total".
QuotaKept ==
    /\ LET reserved == {a \in Assets : assets[a].status \in {"uploading", "ready"}}
       IN  Cardinality(Bytes(reserved, SizeOf)) <= Quota
    /\ \A a \in Assets : Total(a) <= SizeOf[a]

\* "Do not lose the only durable pointer to a billed object": an object
\* without a row comes only from an asset that was deleted, or reaped with a
\* failing abort, while its upload could still commit.
PointerKept == \A a \in objects : Exists(a) \/ a \in strayed

\* As long as no provider call fails, completions that take over from one
\* another and race deletions leave every ready asset its object.
TakeoverHarmless ==
    faults = 0 =>
        \A a \in Assets : assets[a].status = "ready" =>
            \/ a \in objects
            \/ \E r \in Requests : /\ requests[r].phase \in {"deleting", "reaping"}
                                   /\ requests[r].asset = a

\* A completion never stays claimed: a later request or the cleanup worker
\* settles what a dead request left behind.
CompletionSettles ==
    \A a \in Assets : uploads[a].status = "completing" ~> uploads[a].status # "completing"

View(a) ==
    CASE assets[a].status = "none" -> "none"
      [] assets[a].status = "uploading" -> "pending"
      [] assets[a].status = "ready" /\ assets[a].scan = "clean" /\ ~assets[a].expired
            -> "readable"
      [] assets[a].status = "gone" -> "gone"
      [] OTHER -> "withheld"

Life == INSTANCE AssetLife WITH view <- [a \in Assets |-> View(a)]

\* The store implements AssetLife: no reader sees bytes before their own scan
\* found them clean, and nothing brings a removed asset back.
ImplementsAssetLife == Life!Spec
=============================================================================
