--------------------------- MODULE AssetStoreProofs ---------------------------
(***************************************************************************)
(* Theorems about the asset store: type correctness, the quota, the        *)
(* durable pointer to every object, harmless takeovers of a completion,    *)
(* and the implementation of AssetLife.                                    *)
(***************************************************************************)
EXTENDS AssetStore, FiniteSetTheorems, TLAPS

Statuses == {"none", "uploading", "ready", "failed", "gone"}
UploadStatuses == {"none", "uploading", "completing", "ready", "failed"}
Scans == {"pending", "scanning", "clean", "rejected", "error"}

AssetType == [status : Statuses, scan : Scans, expired : BOOLEAN]
UploadType == [status : UploadStatuses, stale : BOOLEAN]

\* What a request of one of these phases does concerns one asset.
AssetPhases ==
    {"reserving", "committing", "verifying", "condemning", "marking", "publishing",
     "deleting", "reaping"}

RequestType ==
    [phase : {"idle"}]
      \union [phase : AssetPhases, asset : Assets]
      \union [phase : {"scanning"}, asset : Assets, seen : Scans]
      \union [phase : {"writing"}, asset : Assets, part : Nat, size : Nat]

TypeOK ==
    /\ assets \in [Assets -> AssetType]
    /\ uploads \in [Assets -> UploadType]
    /\ multipart \in [Assets -> {"none", "open", "committed", "aborted"}]
    /\ objects \subseteq Assets
    /\ strayed \subseteq Assets
    /\ requests \in [Requests -> RequestType]
    /\ faults \in Nat

At(r, phases, a) == requests[r].phase \in phases /\ requests[r].asset = a

\* The row of an asset and the row of its upload move together.
RowsAgree(a) ==
    /\ assets[a].status \in {"none", "gone"} <=> uploads[a].status = "none"
    /\ assets[a].status = "uploading" <=> uploads[a].status \in {"uploading", "completing"}
    /\ assets[a].status = "ready" <=> uploads[a].status = "ready"

\* An upload is reserved once, after its multipart upload was created;
\* everything else a request does concerns an asset that was reserved.
ReservedOnce(a) ==
    \A r \in Requests :
        /\ At(r, {"reserving"}, a) =>
              /\ assets[a].status = "none" /\ multipart[a] = "open"
              /\ \A q \in Requests : At(q, {"reserving"}, a) => q = r
        /\ At(r, {"committing", "verifying", "condemning", "marking", "publishing",
                  "deleting", "reaping", "scanning", "writing"}, a)
           => assets[a].status # "none"

\* What was committed at the provider stays so.
CommittedFirst(a) ==
    /\ a \in objects => multipart[a] = "committed"
    /\ assets[a].status \in {"ready", "failed"} => multipart[a] = "committed"
    /\ \A r \in Requests :
          /\ At(r, {"verifying", "condemning", "marking", "publishing", "reaping"}, a)
             => multipart[a] = "committed"
          /\ At(r, {"reaping", "scanning"}, a) => assets[a].status \in {"ready", "failed", "gone"}

\* An upload that can still commit, or an object, outlives its row only when
\* it has strayed.
StrayIsKnown(a) ==
    /\ assets[a].status = "gone" /\ multipart[a] = "open" => a \in strayed
    /\ a \in objects => Exists(a) \/ a \in strayed
    /\ \A r \in Requests :
          /\ At(r, {"deleting"}, a) /\ (multipart[a] = "open" \/ a \in objects) => a \in strayed
          /\ At(r, {"reaping"}, a) => a \notin objects

Removing(a) == \E r \in Requests : At(r, {"deleting", "reaping"}, a)

\* Without a fault only a deletion takes the object of a publication, and
\* only what has no object is condemned.
ObjectServed(a) ==
    faults = 0 =>
        /\ assets[a].status = "ready" => a \in objects \/ Removing(a)
        /\ \A r \in Requests :
              /\ At(r, {"condemning", "marking"}, a) => a \notin objects
              /\ At(r, {"publishing"}, a) /\ Exists(a) => a \in objects \/ Removing(a)

AssetInv(a) ==
    /\ RowsAgree(a) /\ ReservedOnce(a) /\ CommittedFirst(a) /\ StrayIsKnown(a)
    /\ ObjectServed(a)

PointerInv == \A a \in Assets : AssetInv(a)

StoreInv == TypeOK /\ PointerInv

-----------------------------------------------------------------------------
(* The bytes.                                                               *)

Reserved == {a \in Assets : assets[a].status \in {"uploading", "ready"}}

\* One write at a time of an upload, within its declared size with what the
\* other parts acknowledged; no write of an upload whose parts go straight to
\* the provider.
WritesFit ==
    \A r \in Requests : requests[r].phase = "writing" =>
        LET w == requests[r]
        IN  /\ w.asset \notin Direct /\ w.part \in PartNumbers(w.asset) /\ w.size \in Nat
            /\ OthersTotal(w.asset, w.part) + w.size <= SizeOf[w.asset]
            /\ \A q \in Requests : At(q, {"writing"}, w.asset) => q = r

PartsFit ==
    /\ parts = [a \in Assets |-> parts[a]]
    /\ \A a \in Assets : /\ parts[a] \in [PartNumbers(a) -> Nat]
                         /\ Total(a) <= SizeOf[a]
    /\ \A a \in Direct \cap Assets : \A n \in PartNumbers(a) : parts[a][n] <= 1

ReservedFit == IsFiniteSet(Reserved) /\ Cardinality(Bytes(Reserved, SizeOf)) <= Quota

BytesInv == ReservedFit /\ PartsFit /\ WritesFit

-----------------------------------------------------------------------------

\* The requests of one step: those that go on, and those that wait.
RequestStep(r) ==
    \/ \E a \in Assets :
          \/ BeginUpload(r, a) \/ ReserveUpload(r, a)
          \/ \E n, size \in PartNumbers(a) : BeginWrite(r, a, n, size)
          \/ ClaimCompletion(r, a) \/ BeginDelete(r, a) \/ BeginReap(r, a)
    \/ EndWrite(r) \/ CommitObject(r) \/ VerifyObject(r) \/ DropObject(r)
    \/ MarkFailed(r) \/ PublishAsset(r) \/ RecordScan(r)
    \/ EndDelete(r) \/ EndReap(r) \/ RequestDies(r)

EnvironmentStep(a) ==
    \/ \E n \in PartNumbers(a) : PutPart(a, n) \/ AcknowledgePart(a, n)
    \/ LeaseEnds(a) \/ AbortUpload(a) \/ AssetExpires(a)
    \/ ReapUpload(a) \/ ReapUploadFails(a)

(* A step of a request, of the rest of the world, or of nobody.             *)
LEMMA StepCases ==
    ASSUME [Next]_vars
    PROVE  \/ \E r \in Requests : RequestStep(r)
           \/ \E a \in Assets : EnvironmentStep(a)
           \/ UNCHANGED vars
BY DEF Next, RequestStep, EnvironmentStep

\* One row of a table changes to a row of its type.
LEMMA RowTypes ==
    ASSUME TypeOK, NEW a \in Assets
    PROVE  /\ \A st \in Statuses : [assets EXCEPT ![a].status = st] \in [Assets -> AssetType]
           /\ \A sc \in Scans : [assets EXCEPT ![a].scan = sc] \in [Assets -> AssetType]
           /\ [assets EXCEPT ![a].expired = TRUE] \in [Assets -> AssetType]
           /\ \A st \in Statuses, sc \in Scans :
                 [assets EXCEPT ![a].status = st, ![a].scan = sc] \in [Assets -> AssetType]
           /\ \A up \in UploadStatuses : [uploads EXCEPT ![a].status = up] \in [Assets -> UploadType]
           /\ \A late \in BOOLEAN : [uploads EXCEPT ![a].stale = late] \in [Assets -> UploadType]
           /\ \A up \in UploadStatuses, late \in BOOLEAN :
                 [uploads EXCEPT ![a] = [status |-> up, stale |-> late]] \in [Assets -> UploadType]
<1>a. /\ assets \in [Assets -> AssetType] /\ assets[a] \in AssetType
      /\ uploads \in [Assets -> UploadType] /\ uploads[a] \in UploadType
  BY DEF TypeOK
<1>1. \A x \in AssetType : /\ \A st \in Statuses : [x EXCEPT !.status = st] \in AssetType
                           /\ \A sc \in Scans : [x EXCEPT !.scan = sc] \in AssetType
                           /\ [x EXCEPT !.expired = TRUE] \in AssetType
  BY DEF AssetType
<1>2. \A x \in UploadType :
         /\ \A up \in UploadStatuses : [x EXCEPT !.status = up] \in UploadType
         /\ \A late \in BOOLEAN : [x EXCEPT !.stale = late] \in UploadType
  BY DEF UploadType
<1>3. \A up \in UploadStatuses, late \in BOOLEAN : [status |-> up, stale |-> late] \in UploadType
  BY DEF UploadType
<1>4. \A t \in [Assets -> AssetType], x \in AssetType : [t EXCEPT ![a] = x] \in [Assets -> AssetType]
  OBVIOUS
<1>5. \A t \in [Assets -> UploadType], x \in UploadType : [t EXCEPT ![a] = x] \in [Assets -> UploadType]
  OBVIOUS
<1>6. /\ \A st \in Statuses : [assets EXCEPT ![a].status = st] \in [Assets -> AssetType]
      /\ \A sc \in Scans : [assets EXCEPT ![a].scan = sc] \in [Assets -> AssetType]
      /\ [assets EXCEPT ![a].expired = TRUE] \in [Assets -> AssetType]
  BY <1>a, <1>1, <1>4
<1>7. ASSUME NEW st \in Statuses, NEW sc \in Scans
      PROVE  [assets EXCEPT ![a].status = st, ![a].scan = sc] \in [Assets -> AssetType]
  <2> DEFINE t == [assets EXCEPT ![a].status = st]
  <2>1. t \in [Assets -> AssetType] /\ t[a] \in AssetType
    BY <1>6
  <2> HIDE DEF t
  <2>2. [t EXCEPT ![a].scan = sc] \in [Assets -> AssetType]
    BY <2>1, <1>1, <1>4
  <2> QED BY <2>2 DEF t
<1>8. /\ \A up \in UploadStatuses : [uploads EXCEPT ![a].status = up] \in [Assets -> UploadType]
      /\ \A late \in BOOLEAN : [uploads EXCEPT ![a].stale = late] \in [Assets -> UploadType]
      /\ \A up \in UploadStatuses, late \in BOOLEAN :
            [uploads EXCEPT ![a] = [status |-> up, stale |-> late]] \in [Assets -> UploadType]
  BY <1>a, <1>2, <1>3, <1>5
<1> QED BY <1>6, <1>7, <1>8

(* What the types say of a request, and the records a step gives it.        *)
LEMMA RequestTypes ==
    ASSUME TypeOK
    PROVE  /\ \A r \in Requests : requests[r].phase # "idle" => requests[r].asset \in Assets
           /\ \A r \in Requests : requests[r].phase = "scanning" => requests[r].seen \in Scans
           /\ \A r \in Requests : requests[r].phase = "writing" =>
                 requests[r].part \in Nat /\ requests[r].size \in Nat
           /\ Idle \in RequestType
           /\ \A ph \in AssetPhases, a \in Assets : Doing(ph, a) \in RequestType
           /\ \A sc \in Scans, a \in Assets :
                 [phase |-> "scanning", asset |-> a, seen |-> sc] \in RequestType
           /\ \A a \in Assets, n, size \in Nat :
                 [phase |-> "writing", asset |-> a, part |-> n, size |-> size] \in RequestType
<1>1. \A r \in Requests : requests[r] \in RequestType
  BY DEF TypeOK
<1>2. \A w \in RequestType : /\ w.phase # "idle" => w.asset \in Assets
                             /\ w.phase = "scanning" => w.seen \in Scans
                             /\ w.phase = "writing" => w.part \in Nat /\ w.size \in Nat
  BY DEF RequestType, AssetPhases
<1>3. Idle \in RequestType
  BY DEF RequestType, Idle
<1>4. \A ph \in AssetPhases, a \in Assets : Doing(ph, a) \in RequestType
  BY DEF RequestType, Doing
<1>5. \A sc \in Scans, a \in Assets :
                 [phase |-> "scanning", asset |-> a, seen |-> sc] \in RequestType
  BY DEF RequestType
<1>6. \A a \in Assets, n, size \in Nat :
                 [phase |-> "writing", asset |-> a, part |-> n, size |-> size] \in RequestType
  BY DEF RequestType
<1> QED BY <1>1, <1>2, <1>3, <1>4, <1>5, <1>6

(* Every step keeps the types.                                              *)
LEMMA TypeStep ==
    ASSUME TypeOK, [Next]_vars
    PROVE  TypeOK'
<1>s. \A a \in Assets : SizeOf[a] \in Nat /\ PartNumbers(a) \subseteq Nat
  BY SizesArePositive DEF PartNumbers
<1>1. assets' \in [Assets -> AssetType] /\ uploads' \in [Assets -> UploadType]
  <2> DEFINE Goal == assets' \in [Assets -> AssetType] /\ uploads' \in [Assets -> UploadType]
  <2>0. assets \in [Assets -> AssetType] /\ uploads \in [Assets -> UploadType]
    BY DEF TypeOK
  <2>g. ASSUME NEW a \in Assets, Removed(a) PROVE Goal
    BY <2>g, RowTypes DEF Removed, Statuses, UploadStatuses
  <2>m. ASSUME NEW a \in Assets
        PROVE  /\ \A st \in {"uploading", "ready", "failed"} :
                     [assets EXCEPT ![a].status = st] \in [Assets -> AssetType]
               /\ \A up \in {"uploading", "ready", "failed"} :
                     [uploads EXCEPT ![a].status = up] \in [Assets -> UploadType]
               /\ [assets EXCEPT ![a].status = "ready", ![a].scan = "scanning"]
                    \in [Assets -> AssetType]
    <3>1. /\ {"uploading", "ready", "failed"} \subseteq Statuses \cap UploadStatuses
          /\ "ready" \in Statuses /\ "scanning" \in Scans
      BY DEF Statuses, UploadStatuses, Scans
    <3> QED BY <3>1, RowTypes
  <2>1. ASSUME NEW r \in Requests, RequestStep(r)
        PROVE  Goal
    <3>1. ASSUME NEW a \in Assets, ReserveUpload(r, a) PROVE Goal
      <4>1. \/ UNCHANGED <<assets, uploads>>
            \/ /\ assets' = [assets EXCEPT ![a].status = "uploading"]
               /\ uploads' = [uploads EXCEPT ![a].status = "uploading"]
        BY <3>1 DEF ReserveUpload
      <4> QED BY ZenonT(60), <2>0, <2>m, <4>1
    <3>2. ASSUME NEW a \in Assets, ClaimCompletion(r, a) PROVE Goal
      BY <2>0, <3>2, RowTypes DEF ClaimCompletion, UploadStatuses
    <3>3. CASE MarkFailed(r) \/ PublishAsset(r) \/ RecordScan(r) \/ EndDelete(r) \/ EndReap(r)
      <4>1. requests[r].asset \in Assets
        BY <3>3, RequestTypes DEF MarkFailed, PublishAsset, RecordScan, EndDelete, EndReap
      <4>2. CASE MarkFailed(r)
        BY <2>0, <2>m, <4>1, <4>2 DEF MarkFailed
      <4>3. CASE PublishAsset(r)
        <5> DEFINE a == requests[r].asset
        <5>1. \/ UNCHANGED <<assets, uploads>>
              \/ /\ assets' = [assets EXCEPT ![a].status = "ready", ![a].scan = "scanning"]
                 /\ uploads' = [uploads EXCEPT ![a].status = "ready"]
          BY <4>3 DEF PublishAsset
        <5>2. a \in Assets
          BY <4>1
        <5> HIDE DEF a
        <5> QED BY ZenonT(60), <2>0, <2>m, <5>1, <5>2
      <4>4. CASE RecordScan(r)
        <5>1. \A v \in Scans : [assets EXCEPT ![requests[r].asset].scan = v]
                              \in [Assets -> AssetType]
          BY <4>1, RowTypes
        <5>2. PICK v \in Scans : \/ UNCHANGED assets
                                \/ assets' = [assets EXCEPT ![requests[r].asset].scan = v]
          BY <4>4 DEF RecordScan, Scans
        <5>3. UNCHANGED uploads
          BY <4>4 DEF RecordScan
        <5> QED BY <2>0, <5>1, <5>2, <5>3
      <4>5. CASE EndDelete(r) \/ EndReap(r)
        BY <2>0, <2>g, <4>1, <4>5 DEF EndDelete, EndReap, tables
      <4> QED BY <3>3, <4>2, <4>3, <4>4, <4>5
    <3>4. \/ UNCHANGED <<assets, uploads>>
          \/ \E a \in Assets : ReserveUpload(r, a) \/ ClaimCompletion(r, a)
          \/ MarkFailed(r) \/ PublishAsset(r) \/ RecordScan(r) \/ EndDelete(r) \/ EndReap(r)
      BY <2>1 DEF RequestStep, tables, BeginUpload, BeginWrite, BeginDelete, BeginReap,
         CommitObject, VerifyObject, DropObject, EndWrite, RequestDies
    <3> QED BY <2>0, <3>1, <3>2, <3>3, <3>4
  <2>2. ASSUME NEW a \in Assets, EnvironmentStep(a)
        PROVE  Goal
    <3>1. CASE LeaseEnds(a) \/ AssetExpires(a)
      BY ZenonT(60), <2>0, <3>1, RowTypes DEF LeaseEnds, AssetExpires
    <3>2. UNCHANGED <<assets, uploads>> \/ Removed(a) \/ LeaseEnds(a) \/ AssetExpires(a)
      BY <2>2 DEF EnvironmentStep, PutPart, AcknowledgePart, AbortUpload, ReapUpload,
         ReapUploadFails, tables
    <3> QED BY <2>0, <2>g, <3>1, <3>2
  <2> QED BY <2>0, <2>1, <2>2, StepCases DEF vars
<1>2. requests' \in [Requests -> RequestType]
  <2>0. requests \in [Requests -> RequestType]
    BY DEF TypeOK
  <2>1. ASSUME NEW r \in Requests, RequestStep(r)
        PROVE  \E w \in RequestType : Go(r, w)
    <3>1. CASE \E a \in Assets : BeginUpload(r, a) \/ BeginDelete(r, a) \/ BeginReap(r, a)
                  \/ ReserveUpload(r, a) \/ ClaimCompletion(r, a)
                  \/ \E n, size \in PartNumbers(a) : BeginWrite(r, a, n, size)
      BY ZenonT(30), <1>s, <3>1, RequestTypes DEF BeginUpload, BeginWrite, BeginDelete, BeginReap,
         ReserveUpload, ClaimCompletion, AssetPhases
    <3>2. CASE EndWrite(r) \/ RequestDies(r) \/ MarkFailed(r) \/ RecordScan(r)
               \/ EndDelete(r) \/ EndReap(r)
      BY <3>2, RequestTypes DEF EndWrite, RequestDies, MarkFailed, RecordScan, EndDelete, EndReap
    <3>3. CASE CommitObject(r) \/ VerifyObject(r) \/ DropObject(r)
      <4>1. requests[r].asset \in Assets
        BY <3>3, RequestTypes DEF CommitObject, VerifyObject, DropObject
      <4> QED BY <3>3, <4>1, RequestTypes DEF CommitObject, VerifyObject, DropObject, AssetPhases
    <3>4. CASE PublishAsset(r)
      <4>1. requests[r].asset \in Assets
        BY <3>4, RequestTypes DEF PublishAsset
      <4>2. assets[requests[r].asset].scan \in Scans
        BY <4>1 DEF TypeOK, AssetType
      <4> QED BY <3>4, <4>1, <4>2, RequestTypes DEF PublishAsset, Scans
    <3> QED BY <2>1, <3>1, <3>2, <3>3, <3>4 DEF RequestStep
  <2>2. ASSUME NEW a \in Assets, EnvironmentStep(a)
        PROVE  UNCHANGED requests
    BY <2>2 DEF EnvironmentStep, PutPart, AcknowledgePart, LeaseEnds,
       AbortUpload, AssetExpires, ReapUpload, ReapUploadFails
  <2> QED BY <2>0, <2>1, <2>2, StepCases DEF vars, Go
<1>3. /\ multipart' \in [Assets -> {"none", "open", "committed", "aborted"}]
      /\ objects' \subseteq Assets /\ strayed' \subseteq Assets /\ faults' \in Nat
  <2>0. /\ multipart \in [Assets -> {"none", "open", "committed", "aborted"}]
        /\ objects \subseteq Assets /\ strayed \subseteq Assets /\ faults \in Nat
    BY DEF TypeOK
  <2> DEFINE Goal == /\ multipart' \in [Assets -> {"none", "open", "committed", "aborted"}]
                     /\ objects' \subseteq Assets /\ strayed' \subseteq Assets /\ faults' \in Nat
  <2> USE DEF provider, Aborted, Fault
  <2>1. ASSUME NEW r \in Requests, RequestStep(r)
        PROVE  Goal
    <3>1. ASSUME NEW a \in Assets,
                 \/ BeginUpload(r, a) \/ BeginDelete(r, a) \/ BeginReap(r, a)
                 \/ ReserveUpload(r, a) \/ ClaimCompletion(r, a)
                 \/ \E n, size \in PartNumbers(a) : BeginWrite(r, a, n, size)
          PROVE  Goal
      <4>1. CASE BeginUpload(r, a) \/ ReserveUpload(r, a)
        BY <2>0, <4>1 DEF BeginUpload, ReserveUpload
      <4>2. CASE BeginDelete(r, a) \/ BeginReap(r, a) \/ ClaimCompletion(r, a)
                 \/ \E n, size \in PartNumbers(a) : BeginWrite(r, a, n, size)
        BY <2>0, <4>2 DEF BeginWrite, BeginDelete, BeginReap, ClaimCompletion
      <4> QED BY <3>1, <4>1, <4>2
    <3>2. CASE EndWrite(r) \/ RequestDies(r) \/ MarkFailed(r) \/ RecordScan(r)
               \/ EndDelete(r) \/ EndReap(r) \/ VerifyObject(r) \/ PublishAsset(r)
      <4>1. UNCHANGED <<multipart, objects, strayed>>
        BY <3>2 DEF EndWrite, RequestDies, MarkFailed, RecordScan, EndDelete, EndReap,
           VerifyObject, PublishAsset
      <4>2. CASE EndWrite(r) \/ MarkFailed(r) \/ EndDelete(r) \/ EndReap(r) \/ PublishAsset(r)
        BY <2>0, <4>1, <4>2 DEF EndWrite, MarkFailed, EndDelete, EndReap, PublishAsset
      <4>3. CASE RequestDies(r) \/ RecordScan(r) \/ VerifyObject(r)
        BY <2>0, <4>1, <4>3 DEF RequestDies, RecordScan, VerifyObject
      <4> QED BY <3>2, <4>2, <4>3
    <3>3. CASE CommitObject(r) \/ DropObject(r)
      <4>1. requests[r].asset \in Assets
        BY <3>3, RequestTypes DEF CommitObject, DropObject
      <4> QED BY <2>0, <3>3, <4>1 DEF CommitObject, DropObject
    <3> QED BY <2>1, <3>1, <3>2, <3>3 DEF RequestStep
  <2>2. ASSUME NEW a \in Assets, EnvironmentStep(a)
        PROVE  Goal
    BY <2>0, <2>2 DEF EnvironmentStep, PutPart, AcknowledgePart, LeaseEnds,
       AbortUpload, AssetExpires, ReapUpload, ReapUploadFails
  <2> QED BY <2>0, <2>1, <2>2, StepCases DEF vars
<1> QED BY <1>1, <1>2, <1>3 DEF TypeOK


-----------------------------------------------------------------------------
(* The pointer to every object.                                             *)

\* A step that concerns one asset and the requests that work on it.
Concerns(a) ==
    /\ \A q \in Requests :
          \/ requests'[q] = requests[q]
          \/ /\ requests[q].phase = "idle" \/ requests[q].asset = a
             /\ requests'[q].phase = "idle" \/ requests'[q].asset = a
    /\ \A b \in Assets : b # a =>
          /\ assets'[b] = assets[b] /\ uploads'[b] = uploads[b] /\ multipart'[b] = multipart[b]
          /\ b \in objects' <=> b \in objects
          /\ b \in strayed' <=> b \in strayed
    /\ faults' = 0 => faults = 0

\* It leaves the invariant of the other assets alone.
LEMMA Elsewhere ==
    ASSUME NEW a \in Assets, PointerInv, Concerns(a), AssetInv(a)'
    PROVE  PointerInv'
<1> SUFFICES ASSUME NEW b \in Assets, b # a PROVE AssetInv(b)'
  BY DEF PointerInv
<1>1. AssetInv(b)
  BY DEF PointerInv
<1>2. \A q \in Requests : \A P : "idle" \notin P => (At(q, P, b)' <=> At(q, P, b))
  BY DEF At, Concerns
<1>3. Removing(b)' <=> Removing(b)
  BY <1>2 DEF Removing
<1> QED BY <1>1, <1>2, <1>3 DEF AssetInv, RowsAgree, ReservedOnce, CommittedFirst, StrayIsKnown,
           ObjectServed, Exists, Concerns

(* Every step keeps the pointers of the assets.                             *)
LEMMA PointerStep ==
    ASSUME StoreInv, [Next]_vars
    PROVE  PointerInv'
<1>t. /\ assets \in [Assets -> AssetType] /\ uploads \in [Assets -> UploadType]
      /\ multipart \in [Assets -> {"none", "open", "committed", "aborted"}]
      /\ objects \subseteq Assets /\ faults \in Nat
      /\ requests \in [Requests -> RequestType]
      /\ \A a \in Assets : assets[a] \in AssetType /\ uploads[a] \in UploadType
      /\ \A r \in Requests : requests[r].phase # "idle" => requests[r].asset \in Assets
  BY RequestTypes DEF StoreInv, TypeOK
<1>i. PointerInv /\ \A a \in Assets : AssetInv(a)
  BY DEF StoreInv, PointerInv
<1> USE DEF tables, provider, Go, Fault, Idle, Doing, Removed, Aborted, MayClaim
<1>1. ASSUME NEW r \in Requests, NEW a \in Assets, BeginUpload(r, a) PROVE PointerInv'
  <2>1. Concerns(a)
    BY <1>t, <1>1 DEF BeginUpload, Concerns, AssetType, UploadType
  <2>2. AssetInv(a)
    BY <1>i
  <2>3. AssetInv(a)'
    BY <1>t, <1>1, <2>2 DEF BeginUpload, AssetType, UploadType, Concerns, AssetInv, RowsAgree, ReservedOnce, CommittedFirst,
     StrayIsKnown, ObjectServed, Exists, At, Removing
  <2> QED BY <1>i, <2>1, <2>3, Elsewhere
<1>2. ASSUME NEW r \in Requests, NEW a \in Assets, ReserveUpload(r, a) PROVE PointerInv'
  <2>1. Concerns(a)
    BY <1>t, <1>2 DEF ReserveUpload, Concerns, AssetType, UploadType
  <2>2. AssetInv(a)
    BY <1>i
  <2>3. AssetInv(a)'
    BY <1>t, <1>2, <2>2 DEF ReserveUpload, AssetType, UploadType, Concerns, AssetInv, RowsAgree, ReservedOnce, CommittedFirst,
     StrayIsKnown, ObjectServed, Exists, At, Removing
  <2> QED BY <1>i, <2>1, <2>3, Elsewhere
<1>3. ASSUME NEW r \in Requests, NEW a \in Assets, ClaimCompletion(r, a) PROVE PointerInv'
  <2>1. Concerns(a)
    BY <1>t, <1>3 DEF ClaimCompletion, Concerns, AssetType, UploadType
  <2>2. AssetInv(a)
    BY <1>i
  <2>3. AssetInv(a)'
    BY <1>t, <1>3, <2>2 DEF ClaimCompletion, AssetType, UploadType, Concerns, AssetInv, RowsAgree, ReservedOnce, CommittedFirst,
     StrayIsKnown, ObjectServed, Exists, At, Removing
  <2> QED BY <1>i, <2>1, <2>3, Elsewhere
<1>4. ASSUME NEW r \in Requests, NEW a \in Assets, BeginDelete(r, a) PROVE PointerInv'
  <2>1. Concerns(a)
    BY <1>t, <1>4 DEF BeginDelete, Concerns, AssetType, UploadType
  <2>2. AssetInv(a)
    BY <1>i
  <2>3. AssetInv(a)'
    BY <1>t, <1>4, <2>2 DEF BeginDelete, AssetType, UploadType, Concerns, AssetInv, RowsAgree, ReservedOnce, CommittedFirst,
     StrayIsKnown, ObjectServed, Exists, At, Removing
  <2> QED BY <1>i, <2>1, <2>3, Elsewhere
<1>5. ASSUME NEW r \in Requests, NEW a \in Assets, BeginReap(r, a) PROVE PointerInv'
  <2>1. Concerns(a)
    BY <1>t, <1>5 DEF BeginReap, Concerns, AssetType, UploadType
  <2>2. AssetInv(a)
    BY <1>i
  <2>3. AssetInv(a)'
    BY <1>t, <1>5, <2>2 DEF BeginReap, AssetType, UploadType, Concerns, AssetInv, RowsAgree, ReservedOnce, CommittedFirst,
     StrayIsKnown, ObjectServed, Exists, At, Removing
  <2> QED BY <1>i, <2>1, <2>3, Elsewhere
<1>6. ASSUME NEW r \in Requests, NEW a \in Assets, requests[r].asset = a, CommitObject(r)
      PROVE  PointerInv'
  <2>1. Concerns(a)
    BY <1>t, <1>6 DEF CommitObject, Concerns, AssetType, UploadType
  <2>2. AssetInv(a)
    BY <1>i
  <2>r. /\ UNCHANGED <<assets, uploads, strayed, faults>> /\ requests[r].phase = "committing"
        /\ requests[r].asset = a
        /\ \A q \in Requests : q # r => requests'[q] = requests[q]
        /\ \/ /\ multipart[a] = "open" /\ multipart'[a] = "committed" /\ a \in objects'
              /\ requests'[r].phase = "verifying" /\ requests'[r].asset = a
           \/ /\ UNCHANGED <<multipart, objects>>
              /\ \/ requests'[r].phase = "verifying" /\ requests'[r].asset = a /\ a \in objects
                 \/ requests'[r].phase = "idle" 
    BY <1>t, <1>6 DEF CommitObject, AssetType, UploadType, Commits
  <2>3. AssetInv(a)'
    <3> USE DEF At
    <3>1. RowsAgree(a)' /\ ReservedOnce(a)'
      BY <2>2, <2>r DEF AssetInv, RowsAgree, ReservedOnce, CommittedFirst
    <3>2. CommittedFirst(a)'
      BY <2>2, <2>r DEF AssetInv, RowsAgree, ReservedOnce, CommittedFirst
    <3>0. assets[a].status \in Statuses
      BY <1>t DEF AssetType
    <3>3. StrayIsKnown(a)'
      BY <2>2, <2>r, <3>0 DEF Statuses, AssetInv, RowsAgree, ReservedOnce, CommittedFirst, StrayIsKnown, Exists
    <3>4. ObjectServed(a)'
      <4>1. Removing(a) => Removing(a)'
        BY <2>r DEF Removing
      <4> QED BY <2>2, <2>r, <4>1 DEF AssetInv, RowsAgree, CommittedFirst, ObjectServed, Exists
    <3> QED BY <3>1, <3>2, <3>3, <3>4 DEF AssetInv
  <2> QED BY <1>i, <2>1, <2>3, Elsewhere
<1>7. ASSUME NEW r \in Requests, NEW a \in Assets, requests[r].asset = a, VerifyObject(r)
      PROVE  PointerInv'
  <2>1. Concerns(a)
    BY <1>t, <1>7 DEF VerifyObject, Concerns, AssetType, UploadType
  <2>2. AssetInv(a)
    BY <1>i
  <2>r. /\ UNCHANGED <<assets, uploads, multipart, objects, strayed>> /\ requests[r].phase = "verifying"
        /\ requests[r].asset = a
        /\ \A q \in Requests : q # r => requests'[q] = requests[q]
        /\ requests'[r].asset = a /\ requests'[r].phase \in {"publishing", "condemning"}
        /\ faults' = 0 => /\ faults = 0
                          /\ requests'[r].phase = "publishing" <=> a \in objects
    BY <1>t, <1>7 DEF VerifyObject, AssetType, UploadType
  <2>3. AssetInv(a)'
    <3> USE DEF At
    <3>1. RowsAgree(a)' /\ ReservedOnce(a)'
      BY <2>2, <2>r DEF AssetInv, RowsAgree, ReservedOnce, CommittedFirst
    <3>2. CommittedFirst(a)'
      BY <2>2, <2>r DEF AssetInv, RowsAgree, ReservedOnce, CommittedFirst
    <3>0. assets[a].status \in Statuses
      BY <1>t DEF AssetType
    <3>3. StrayIsKnown(a)'
      BY <2>2, <2>r, <3>0 DEF Statuses, AssetInv, RowsAgree, ReservedOnce, CommittedFirst, StrayIsKnown, Exists
    <3>4. ObjectServed(a)'
      <4>1. Removing(a) => Removing(a)'
        BY <2>r DEF Removing
      <4> QED BY <2>2, <2>r, <4>1 DEF AssetInv, RowsAgree, CommittedFirst, ObjectServed, Exists
    <3> QED BY <3>1, <3>2, <3>3, <3>4 DEF AssetInv
  <2> QED BY <1>i, <2>1, <2>3, Elsewhere
<1>8. ASSUME NEW r \in Requests, NEW a \in Assets, requests[r].asset = a, DropObject(r)
      PROVE  PointerInv'
  <2>1. Concerns(a)
    BY <1>t, <1>8 DEF DropObject, Concerns, AssetType, UploadType
  <2>2. AssetInv(a)
    BY <1>i
  <2>3. AssetInv(a)'
    BY <1>t, <1>8, <2>2 DEF DropObject, AssetType, UploadType, Concerns, AssetInv, RowsAgree, ReservedOnce, CommittedFirst,
     StrayIsKnown, ObjectServed, Exists, At, Removing
  <2> QED BY <1>i, <2>1, <2>3, Elsewhere
<1>9. ASSUME NEW r \in Requests, NEW a \in Assets, requests[r].asset = a, MarkFailed(r)
      PROVE  PointerInv'
  <2>1. Concerns(a)
    BY <1>t, <1>9 DEF MarkFailed, Concerns, AssetType, UploadType
  <2>2. AssetInv(a)
    BY <1>i
  <2>3. AssetInv(a)'
    BY <1>t, <1>9, <2>2 DEF MarkFailed, AssetType, UploadType, Concerns, AssetInv, RowsAgree, ReservedOnce, CommittedFirst,
     StrayIsKnown, ObjectServed, Exists, At, Removing
  <2> QED BY <1>i, <2>1, <2>3, Elsewhere
<1>10. ASSUME NEW r \in Requests, NEW a \in Assets, requests[r].asset = a, PublishAsset(r)
      PROVE  PointerInv'
  <2>1. Concerns(a)
    BY <1>t, <1>10 DEF PublishAsset, Concerns, AssetType, UploadType
  <2>2. AssetInv(a)
    BY <1>i
  <2>r. /\ UNCHANGED <<multipart, objects, strayed, faults>> /\ requests[r].phase = "publishing"
        /\ requests[r].asset = a
        /\ \A q \in Requests : q # r => requests'[q] = requests[q]
        /\ \/ /\ uploads[a].status = "completing" /\ uploads'[a].status = "ready"
              /\ assets'[a].status = "ready"
              /\ requests'[r].phase = "scanning" /\ requests'[r].asset = a
           \/ /\ UNCHANGED <<assets, uploads>> /\ uploads[a].status = "ready"
              /\ requests'[r].phase = "scanning" /\ requests'[r].asset = a
           \/ UNCHANGED <<assets, uploads>> /\ requests'[r].phase = "idle" 
    BY <1>t, <1>10 DEF PublishAsset, AssetType, UploadType
  <2>3. AssetInv(a)'
    <3> USE DEF At
    <3>1. RowsAgree(a)' /\ ReservedOnce(a)'
      BY <2>2, <2>r DEF AssetInv, RowsAgree, ReservedOnce, CommittedFirst
    <3>2. CommittedFirst(a)'
      BY <2>2, <2>r DEF AssetInv, RowsAgree, ReservedOnce, CommittedFirst
    <3>0. assets[a].status \in Statuses
      BY <1>t DEF AssetType
    <3>3. StrayIsKnown(a)'
      BY <2>2, <2>r, <3>0 DEF Statuses, AssetInv, RowsAgree, ReservedOnce, CommittedFirst, StrayIsKnown, Exists
    <3>4. ObjectServed(a)'
      <4>1. Removing(a) => Removing(a)'
        BY <2>r DEF Removing
      <4> QED BY <2>2, <2>r, <4>1 DEF AssetInv, RowsAgree, CommittedFirst, ObjectServed, Exists
    <3> QED BY <3>1, <3>2, <3>3, <3>4 DEF AssetInv
  <2> QED BY <1>i, <2>1, <2>3, Elsewhere
<1>11. ASSUME NEW r \in Requests, NEW a \in Assets, requests[r].asset = a, RecordScan(r)
      PROVE  PointerInv'
  <2>1. Concerns(a)
    BY <1>t, <1>11 DEF RecordScan, Concerns, AssetType, UploadType
  <2>2. AssetInv(a)
    BY <1>i
  <2>3. AssetInv(a)'
    BY <1>t, <1>11, <2>2 DEF RecordScan, AssetType, UploadType, Concerns, AssetInv, RowsAgree, ReservedOnce, CommittedFirst,
     StrayIsKnown, ObjectServed, Exists, At, Removing
  <2> QED BY <1>i, <2>1, <2>3, Elsewhere
<1>12. ASSUME NEW r \in Requests, NEW a \in Assets, requests[r].asset = a, EndWrite(r)
      PROVE  PointerInv'
  <2>1. Concerns(a)
    BY <1>t, <1>12 DEF EndWrite, Concerns, AssetType, UploadType
  <2>2. AssetInv(a)
    BY <1>i
  <2>3. AssetInv(a)'
    BY <1>t, <1>12, <2>2 DEF EndWrite, AssetType, UploadType, Concerns, AssetInv, RowsAgree, ReservedOnce, CommittedFirst,
     StrayIsKnown, ObjectServed, Exists, At, Removing
  <2> QED BY <1>i, <2>1, <2>3, Elsewhere
<1>13. ASSUME NEW r \in Requests, NEW a \in Assets, requests[r].asset = a, EndDelete(r)
      PROVE  PointerInv'
  <2>1. Concerns(a)
    BY <1>t, <1>13 DEF EndDelete, Concerns, AssetType, UploadType
  <2>2. AssetInv(a)
    BY <1>i
  <2>3. AssetInv(a)'
    BY <1>t, <1>13, <2>2 DEF EndDelete, AssetType, UploadType, Concerns, AssetInv, RowsAgree, ReservedOnce, CommittedFirst,
     StrayIsKnown, ObjectServed, Exists, At, Removing
  <2> QED BY <1>i, <2>1, <2>3, Elsewhere
<1>14. ASSUME NEW r \in Requests, NEW a \in Assets, requests[r].asset = a, EndReap(r)
      PROVE  PointerInv'
  <2>1. Concerns(a)
    BY <1>t, <1>14 DEF EndReap, Concerns, AssetType, UploadType
  <2>2. AssetInv(a)
    BY <1>i
  <2>3. AssetInv(a)'
    BY <1>t, <1>14, <2>2 DEF EndReap, AssetType, UploadType, Concerns, AssetInv, RowsAgree, ReservedOnce, CommittedFirst,
     StrayIsKnown, ObjectServed, Exists, At, Removing
  <2> QED BY <1>i, <2>1, <2>3, Elsewhere
<1>15. ASSUME NEW a \in Assets, LeaseEnds(a) PROVE PointerInv'
  <2>1. Concerns(a)
    BY <1>t, <1>15 DEF LeaseEnds, Concerns, AssetType, UploadType
  <2>2. AssetInv(a)
    BY <1>i
  <2>3. AssetInv(a)'
    BY <1>t, <1>15, <2>2 DEF LeaseEnds, AssetType, UploadType, Concerns, AssetInv, RowsAgree, ReservedOnce, CommittedFirst,
     StrayIsKnown, ObjectServed, Exists, At, Removing
  <2> QED BY <1>i, <2>1, <2>3, Elsewhere
<1>16. ASSUME NEW a \in Assets, AbortUpload(a) PROVE PointerInv'
  <2>1. Concerns(a)
    BY <1>t, <1>16 DEF AbortUpload, Concerns, AssetType, UploadType
  <2>2. AssetInv(a)
    BY <1>i
  <2>3. AssetInv(a)'
    BY <1>t, <1>16, <2>2 DEF AbortUpload, AssetType, UploadType, Concerns, AssetInv, RowsAgree, ReservedOnce, CommittedFirst,
     StrayIsKnown, ObjectServed, Exists, At, Removing
  <2> QED BY <1>i, <2>1, <2>3, Elsewhere
<1>17. ASSUME NEW a \in Assets, AssetExpires(a) PROVE PointerInv'
  <2>1. Concerns(a)
    BY <1>t, <1>17 DEF AssetExpires, Concerns, AssetType, UploadType
  <2>2. AssetInv(a)
    BY <1>i
  <2>3. AssetInv(a)'
    BY <1>t, <1>17, <2>2 DEF AssetExpires, AssetType, UploadType, Concerns, AssetInv, RowsAgree, ReservedOnce, CommittedFirst,
     StrayIsKnown, ObjectServed, Exists, At, Removing
  <2> QED BY <1>i, <2>1, <2>3, Elsewhere
<1>18. ASSUME NEW a \in Assets, ReapUpload(a) PROVE PointerInv'
  <2>1. Concerns(a)
    BY <1>t, <1>18 DEF ReapUpload, Concerns, AssetType, UploadType
  <2>2. AssetInv(a)
    BY <1>i
  <2>r. /\ assets'[a].status = "gone" /\ uploads'[a].status = "none"
        /\ multipart'[a] # "open" /\ (multipart[a] = "committed" => multipart'[a] = "committed")
        /\ a \notin objects'
        /\ UNCHANGED <<requests, strayed, faults>> /\ uploads[a].status \in {"uploading", "completing"}
    <3>1. /\ assets'[a].status = "gone" /\ uploads'[a].status = "none"
          /\ multipart'[a] = IF multipart[a] = "open" THEN "aborted" ELSE multipart[a]
          /\ UNCHANGED <<requests, strayed, faults>>
      BY <1>t, <1>18 DEF ReapUpload, AssetType
    <3>2. /\ uploads[a].status = "completing" => a \notin objects'
          /\ uploads[a].status = "uploading" => multipart[a] = "open" /\ objects' = objects
          /\ uploads[a].status \in {"uploading", "completing"}
      BY <1>18 DEF ReapUpload, Reapable
    <3>3. a \in objects => multipart[a] = "committed"
      BY <2>2 DEF AssetInv, CommittedFirst
    <3> QED BY <3>1, <3>2, <3>3
  <2>3. AssetInv(a)'
    <3> USE DEF At
    <3>1. RowsAgree(a)' /\ ReservedOnce(a)'
      BY <2>2, <2>r DEF AssetInv, RowsAgree, ReservedOnce, CommittedFirst
    <3>2. CommittedFirst(a)'
      BY <2>2, <2>r DEF AssetInv, RowsAgree, ReservedOnce, CommittedFirst
    <3>0. assets[a].status \in Statuses
      BY <1>t DEF AssetType
    <3>3. StrayIsKnown(a)'
      BY <2>2, <2>r, <3>0 DEF Statuses, AssetInv, RowsAgree, ReservedOnce, CommittedFirst, StrayIsKnown, Exists
    <3>4. ObjectServed(a)'
      <4>1. Removing(a) => Removing(a)'
        BY <2>r DEF Removing
      <4> QED BY <2>2, <2>r, <4>1 DEF AssetInv, RowsAgree, CommittedFirst, ObjectServed, Exists
    <3> QED BY <3>1, <3>2, <3>3, <3>4 DEF AssetInv
  <2> QED BY <1>i, <2>1, <2>3, Elsewhere
<1>19. ASSUME NEW a \in Assets, ReapUploadFails(a) PROVE PointerInv'
  <2>1. Concerns(a)
    BY <1>t, <1>19 DEF ReapUploadFails, Concerns, AssetType, UploadType
  <2>2. AssetInv(a)
    BY <1>i
  <2>3. AssetInv(a)'
    BY <1>t, <1>19, <2>2 DEF ReapUploadFails, AssetType, UploadType, Concerns, AssetInv, RowsAgree, ReservedOnce, CommittedFirst,
     StrayIsKnown, ObjectServed, Exists, At, Removing
  <2> QED BY <1>i, <2>1, <2>3, Elsewhere
<1>20. ASSUME NEW r \in Requests, NEW a \in Assets, NEW n \in PartNumbers(a), NEW size \in PartNumbers(a),
              BeginWrite(r, a, n, size)
       PROVE  PointerInv'
  <2>1. Concerns(a)
    BY <1>t, <1>20 DEF BeginWrite, Concerns, AssetType, UploadType
  <2>2. AssetInv(a)
    BY <1>i
  <2>3. AssetInv(a)'
    BY <1>t, <1>20, <2>2 DEF BeginWrite, AssetType, UploadType, Concerns, AssetInv, RowsAgree, ReservedOnce, CommittedFirst,
     StrayIsKnown, ObjectServed, Exists, At, Removing
  <2> QED BY <1>i, <2>1, <2>3, Elsewhere
<1>21. ASSUME NEW a \in Assets, NEW n \in PartNumbers(a), PutPart(a, n) \/ AcknowledgePart(a, n)
       PROVE  PointerInv'
  BY <1>i, <1>21 DEF PutPart, AcknowledgePart, PointerInv, AssetInv, RowsAgree, ReservedOnce,
     CommittedFirst, StrayIsKnown, ObjectServed, Exists, At, Removing
<1>22. ASSUME NEW r \in Requests, RequestDies(r) PROVE PointerInv'
  <2>1. requests[r].phase # "idle" => requests[r].asset \in Assets
    BY <1>t
  <2>2. ASSUME NEW a \in Assets, requests[r].phase = "idle" \/ requests[r].asset = a PROVE PointerInv'
    <3>1. Concerns(a)
      BY <1>t, <1>22, <2>2 DEF RequestDies, Concerns
    <3>2. AssetInv(a)
      BY <1>i
    <3>3. AssetInv(a)'
      BY <1>t, <1>22, <3>2 DEF RequestDies, AssetInv, RowsAgree, ReservedOnce,
         CommittedFirst, StrayIsKnown, ObjectServed, Exists, At, Removing
    <3> QED BY <1>i, <3>1, <3>3, Elsewhere
  <2>3. CASE Assets = {}
    BY <2>3 DEF PointerInv
  <2> QED BY <2>1, <2>2, <2>3
<1>23. CASE UNCHANGED vars
  BY <1>i, <1>23 DEF vars, PointerInv, AssetInv, RowsAgree, ReservedOnce,
     CommittedFirst, StrayIsKnown, ObjectServed, Exists, At, Removing
<1>24. ASSUME NEW r \in Requests, RequestStep(r) PROVE PointerInv'
  <2>1. \/ RequestDies(r) \/ requests[r].asset \in Assets
        \/ \E a \in Assets : BeginUpload(r, a) \/ ReserveUpload(r, a) \/ ClaimCompletion(r, a)
                             \/ BeginDelete(r, a) \/ BeginReap(r, a)
                             \/ \E n, size \in PartNumbers(a) : BeginWrite(r, a, n, size)
    BY <1>t, <1>24 DEF RequestStep, CommitObject, VerifyObject, DropObject, MarkFailed, PublishAsset,
       RecordScan, EndWrite, EndDelete, EndReap
  <2> QED BY <1>1, <1>2, <1>3, <1>4, <1>5, <1>6, <1>7, <1>8, <1>9, <1>10, <1>11, <1>12, <1>13,
             <1>14, <1>20, <1>22, <1>24, <2>1 DEF RequestStep
<1> QED BY <1>15, <1>16, <1>17, <1>18, <1>19, <1>21, <1>23, <1>24, StepCases DEF EnvironmentStep

(* An empty store satisfies the invariant.                                  *)
LEMMA StoreInit == Init => StoreInv
<1> SUFFICES ASSUME Init PROVE StoreInv
  OBVIOUS
<1>1. TypeOK
  <2>1. [status |-> "none", scan |-> "pending", expired |-> FALSE] \in AssetType
    BY DEF AssetType, Statuses, Scans
  <2>2. [status |-> "none", stale |-> FALSE] \in UploadType
    BY DEF UploadType, UploadStatuses
  <2>3. Idle \in RequestType
    BY DEF Idle, RequestType
  <2> QED BY <2>1, <2>2, <2>3 DEF Init, TypeOK
<1>2. /\ \A a \in Assets : /\ assets[a].status = "none" /\ uploads[a].status = "none"
                           /\ multipart[a] = "none"
      /\ objects = {} /\ \A r \in Requests : requests[r].phase = "idle"
  BY DEF Init, Idle
<1>3. PointerInv
  BY <1>2 DEF PointerInv, AssetInv, RowsAgree, ReservedOnce, CommittedFirst, StrayIsKnown,
     ObjectServed, Exists, At, Removing
<1> QED BY <1>1, <1>3 DEF StoreInv

(* The invariant holds in every state.                                      *)
LEMMA StoreHolds == Spec => []StoreInv
<1>1. StoreInv /\ [Next]_vars => StoreInv'
  BY TypeStep, PointerStep DEF StoreInv
<1> QED BY <1>1, StoreInit, PTL DEF Spec

\* Every row, request and provider state keeps its type.
THEOREM StoreTypeCorrect == Spec => []TypeOK
<1>1. StoreInv => TypeOK
  BY DEF StoreInv
<1> QED BY <1>1, StoreHolds, PTL

\* "Do not lose the only durable pointer to a billed object": an object whose
\* row is gone comes from an asset that was removed while its upload could
\* still commit (deleteAsset without a lock, or a failed abort), and from
\* nothing else, for any number of assets, requests and faults.
THEOREM PointersKept == Spec => []PointerKept
<1>1. StoreInv => PointerKept
  BY DEF StoreInv, TypeOK, PointerInv, AssetInv, StrayIsKnown, PointerKept
<1> QED BY <1>1, StoreHolds, PTL

\* Completions that outlive their lease, are taken over and race deletions
\* and the cleanup worker leave every ready asset its object as long as no
\* provider call fails and no request dies (completeUpload).
THEOREM TakeoversAreHarmless == Spec => []TakeoverHarmless
<1>1. StoreInv => TakeoverHarmless
  BY DEF StoreInv, PointerInv, AssetInv, ObjectServed, Removing, At, TakeoverHarmless
<1> QED BY <1>1, StoreHolds, PTL

-----------------------------------------------------------------------------
(* The store implements AssetLife.                                          *)

LifeView == [a \in Assets |-> View(a)]

\* What one step may do to what the readers see of asset a.
Allowed(a, old, new) ==
    \/ new = old
    \/ old = "none" /\ new = "pending"
    \/ old = "pending" /\ new = "withheld"
    \/ old = "withheld" /\ new = "readable" /\ a \notin Infected
    \/ old = "readable" /\ new = "withheld"
    \/ old \in {"pending", "withheld", "readable"} /\ new = "gone"

(* What a step of the store is to the abstract life of an asset.            *)
LEMMA ViewMoves ==
    ASSUME NEW a \in Assets, \A b \in Assets : b # a => assets'[b] = assets[b],
           Allowed(a, View(a), View(a)')
    PROVE  [Life!Next]_LifeView
<1>1. \A b \in Assets : b # a => View(b)' = View(b)
  BY DEF View
<1>2. LifeView' = [LifeView EXCEPT ![a] = View(a)']
  BY <1>1 DEF LifeView
<1>3. LifeView[a] = View(a)
  BY DEF LifeView
<1> HIDE DEF View
<1>4. CASE View(a)' = View(a)
  BY <1>2, <1>4 DEF LifeView
<1>5. CASE View(a)' # View(a)
  <2>1. Life!Start(a) \/ Life!Finish(a) \/ Life!Release(a) \/ Life!Revoke(a) \/ Life!Vanish(a)
    BY <1>2, <1>3, <1>5 DEF Allowed, LifeView, Life!Start, Life!Finish, Life!Release, Life!Revoke,
       Life!Vanish, Life!Become
  <2> QED BY <2>1 DEF Life!Next
<1> QED BY <1>4, <1>5

\* An asset's status in the views: what every status means to a reader.
StatusOf(a) ==
    /\ assets[a].status = "none" <=> View(a) = "none"
    /\ assets[a].status = "uploading" <=> View(a) = "pending"
    /\ assets[a].status = "gone" <=> View(a) = "gone"
    /\ assets[a].status \in {"ready", "failed"} <=> View(a) \in {"withheld", "readable"}
    /\ View(a) = "readable" <=> /\ assets[a].status = "ready" /\ assets[a].scan = "clean"
                                /\ ~assets[a].expired

\* A step that changes the row of one asset so is a step of its life.
LEMMA RowMoves ==
    ASSUME TypeOK, TypeOK', NEW a \in Assets, \A b \in Assets : b # a => assets'[b] = assets[b],
           LET old == assets[a]
               new == assets'[a]
           IN  \/ new = old
               \/ old.status = "none" /\ new.status = "uploading"
               \/ old.status = "uploading" /\ new.status = "failed"
               \/ old.status = "uploading" /\ new.status = "ready" /\ new.scan = "scanning"
               \/ old.status # "none" /\ old.status # "gone" /\ new.status = "gone"
               \/ old.status \in {"ready", "failed"} /\ new.status = "failed"
               \/ /\ old.status \in {"ready", "failed"} /\ new.status = old.status
                  /\ new.scan = "clean" /\ ~new.expired => a \notin Infected
                  /\ old.expired => new.expired
               \/ old.status = "uploading" /\ new.status = "uploading"
    PROVE  [Life!Next]_LifeView
<1>1. assets[a] \in AssetType /\ assets'[a] \in AssetType
  BY DEF TypeOK
<1>2. StatusOf(a)
  BY <1>1 DEF StatusOf, View, AssetType, Statuses
<1>3. StatusOf(a)'
  BY <1>1 DEF StatusOf, View, AssetType, Statuses
<1>4. View(a) \in {"none", "pending", "withheld", "readable", "gone"}
  BY DEF View
<1>5. View(a)' \in {"none", "pending", "withheld", "readable", "gone"}
  BY DEF View
<1>6. assets'[a] = assets[a] => View(a)' = View(a)
  BY DEF View
<1> HIDE DEF View
<1>7. Allowed(a, View(a), View(a)')
  BY <1>1, <1>2, <1>3, <1>4, <1>5, <1>6 DEF StatusOf, Allowed
<1> QED BY <1>7, ViewMoves

(* Every step of the store is a step of the abstract life or a stutter.     *)
LEMMA ViewStep ==
    ASSUME StoreInv, [Next]_vars
    PROVE  [Life!Next]_LifeView
<1>t. /\ TypeOK /\ TypeOK' /\ assets \in [Assets -> AssetType]
      /\ \A a \in Assets : assets[a] \in AssetType
      /\ \A r \in Requests : requests[r].phase # "idle" => requests[r].asset \in Assets
  BY TypeStep, RequestTypes DEF StoreInv, TypeOK
<1>i. \A a \in Assets : AssetInv(a)
  BY DEF StoreInv, PointerInv
<1>0. CASE UNCHANGED assets
  BY <1>0 DEF LifeView, View
<1>1. ASSUME NEW r \in Requests, NEW a \in Assets, ReserveUpload(r, a) PROVE [Life!Next]_LifeView
  <2>1. assets[a].status = "none"
    BY <1>1, <1>i DEF ReserveUpload, AssetInv, ReservedOnce, At, Doing
  <2>2. UNCHANGED assets \/ assets' = [assets EXCEPT ![a].status = "uploading"]
    BY <1>1 DEF ReserveUpload
  <2> QED BY <1>0, <2>1, <2>2, <1>t, RowMoves DEF AssetType
<1>g. ASSUME NEW a \in Assets, Exists(a), Removed(a) PROVE [Life!Next]_LifeView
  BY <1>g, <1>t, RowMoves DEF Removed, AssetType, Exists
<1>2. ASSUME NEW r \in Requests, NEW a \in Assets, requests[r].asset = a, requests[r].phase # "idle",
             \/ MarkFailed(r) \/ PublishAsset(r) \/ RecordScan(r) \/ EndDelete(r) \/ EndReap(r)
      PROVE  [Life!Next]_LifeView
  <2>i. AssetInv(a)
    BY <1>i
  <2>1. CASE MarkFailed(r)
    <3>1. \/ UNCHANGED assets
          \/ Exists(a) /\ assets' = [assets EXCEPT ![a].status = "failed"]
      BY <1>2, <2>1 DEF MarkFailed
    <3> QED BY <1>0, <1>t, <3>1, RowMoves DEF AssetType, Exists
  <2>2. CASE PublishAsset(r)
    <3>1. \/ UNCHANGED assets
          \/ /\ assets[a].status = "uploading"
             /\ assets' = [assets EXCEPT ![a].status = "ready", ![a].scan = "scanning"]
      BY <1>2, <2>2, <2>i DEF PublishAsset, AssetInv, RowsAgree
    <3> QED BY <1>0, <1>t, <3>1, RowMoves DEF AssetType
  <2>3. CASE RecordScan(r)
    <3>1. assets[a].status \in {"ready", "failed", "gone"}
      BY <1>2, <2>3, <2>i DEF RecordScan, AssetInv, CommittedFirst, At
    <3>2. PICK v : /\ v = "clean" => a \notin Infected
                   /\ \/ UNCHANGED assets
                      \/ Exists(a) /\ assets' = [assets EXCEPT ![a].scan = v]
      BY <1>2, <2>3 DEF RecordScan, Verdicts
    <3>3. assets[a].status \in {"ready", "failed"} \/ UNCHANGED assets
      BY <3>1, <3>2 DEF Exists
    <3> QED BY <1>0, <1>t, <3>2, <3>3, RowMoves DEF AssetType
  <2>4. CASE EndDelete(r) \/ EndReap(r)
    <3>1. UNCHANGED assets \/ (Exists(a) /\ Removed(a))
      BY <1>2, <2>4 DEF EndDelete, EndReap, tables, Exists
    <3> QED BY <1>0, <1>g, <3>1
  <2> QED BY <1>2, <2>1, <2>2, <2>3, <2>4
<1>3. ASSUME NEW a \in Assets, EnvironmentStep(a) PROVE [Life!Next]_LifeView
  <2>1. CASE AssetExpires(a)
    BY <2>1, <1>t, RowMoves DEF AssetExpires, AssetType, Exists
  <2>2. CASE AbortUpload(a)
    <3>1. Exists(a)
      BY <1>i, <1>t, <2>2 DEF AbortUpload, AssetInv, RowsAgree, Exists
    <3> QED BY <1>g, <2>2, <3>1 DEF AbortUpload
  <2>3. CASE ReapUpload(a) \/ ReapUploadFails(a)
    <3>1. Exists(a) /\ (Removed(a) \/ UNCHANGED tables)
      BY <2>3 DEF ReapUpload, ReapUploadFails, Reapable
    <3>2. UNCHANGED tables => UNCHANGED assets
      BY DEF tables
    <3> QED BY <1>0, <1>g, <3>1, <3>2
  <2>4. UNCHANGED assets \/ AssetExpires(a) \/ AbortUpload(a) \/ ReapUpload(a) \/ ReapUploadFails(a)
    BY <1>3 DEF EnvironmentStep, PutPart, AcknowledgePart, LeaseEnds, tables
  <2> QED BY <1>0, <2>1, <2>2, <2>3, <2>4
<1>4. ASSUME NEW r \in Requests, RequestStep(r) PROVE [Life!Next]_LifeView
  <2>1. \/ UNCHANGED assets
        \/ \E a \in Assets : ReserveUpload(r, a)
        \/ /\ requests[r].phase # "idle" /\ requests[r].asset \in Assets
           /\ \/ MarkFailed(r) \/ PublishAsset(r) \/ RecordScan(r) \/ EndDelete(r) \/ EndReap(r)
    BY <1>t, <1>4 DEF RequestStep, tables, BeginUpload, BeginWrite, BeginDelete, BeginReap, EndWrite,
       CommitObject, VerifyObject, DropObject, RequestDies, ClaimCompletion, MarkFailed,
       PublishAsset, RecordScan, EndDelete, EndReap
  <2> QED BY <1>0, <1>1, <1>2, <2>1
<1> QED BY <1>0, <1>3, <1>4, StepCases DEF vars

\* The store implements AssetLife: bytes are withheld until their own scan
\* found them clean, every completion, takeover and late verdict included, and
\* a removed asset never comes back.
THEOREM ImplementsLife == Spec => ImplementsAssetLife
<1>1. Init => Life!Init
  BY DEF Init, Life!Init, View
<1>2. StoreInv /\ [Next]_vars => [Life!Next]_LifeView
  BY ViewStep
<1> QED BY <1>1, <1>2, StoreHolds, PTL DEF Spec, ImplementsAssetLife, Life!Spec, LifeView

-----------------------------------------------------------------------------
(* The bytes.                                                               *)

(* The bytes of finitely many things are finitely many.                     *)
LEMMA BytesFinite ==
    ASSUME NEW S, IsFiniteSet(S), NEW size, \A x \in S : size[x] \in Nat
    PROVE  IsFiniteSet(Bytes(S, size)) /\ Cardinality(Bytes(S, size)) \in Nat
<1> DEFINE F == {{x} \X (1..size[x]) : x \in S}
           f == [x \in S |-> {x} \X (1..size[x])]
<1>1. IsFiniteSet(F)
  <2>1. f \in Surjection(S, F)
    BY DEF Surjection
  <2> HIDE DEF f, F
  <2> QED BY <2>1, FS_Surjection
<1>2. \A T \in F : IsFiniteSet(T)
  <2> SUFFICES ASSUME NEW x \in S PROVE IsFiniteSet({x} \X (1..size[x]))
    OBVIOUS
  <2>1. size[x] \in Int /\ 1 \in Int
    OBVIOUS
  <2>2. IsFiniteSet(1..size[x])
    BY <2>1, FS_Interval
  <2>3. IsFiniteSet({x})
    BY FS_Singleton
  <2> QED BY <2>2, <2>3, FS_Product
<1>3. IsFiniteSet(UNION F)
  <2> HIDE DEF F
  <2> QED BY <1>1, <1>2, FS_UNION
<1> QED BY <1>3, FS_CardinalityType DEF Bytes

\* One asset, or part, more.
LEMMA BytesAdded ==
    ASSUME NEW S, IsFiniteSet(S), NEW size, NEW x, size[x] \in Nat, \A y \in S : size[y] \in Nat
    PROVE  Cardinality(Bytes(S \union {x}, size)) <= Cardinality(Bytes(S, size)) + size[x]
<1> DEFINE new == {x} \X (1..size[x])
<1>1. IsFiniteSet(1..size[x]) /\ Cardinality(1..size[x]) = size[x]
  BY SMTT(30), FS_Interval
<1>2. IsFiniteSet({x}) /\ Cardinality({x}) = 1
  BY FS_Singleton
<1>3. IsFiniteSet(new) /\ Cardinality(new) = size[x]
  <2>1. IsFiniteSet(new) /\ Cardinality(new) = Cardinality({x}) * Cardinality(1..size[x])
    BY <1>1, <1>2, FS_Product
  <2> QED BY <1>1, <1>2, <2>1
<1>4. IsFiniteSet(Bytes(S, size)) /\ Cardinality(Bytes(S, size)) \in Nat
  BY BytesFinite
<1>5. Bytes(S \union {x}, size) = Bytes(S, size) \union new
  <2>1. \A T, b : b \in Bytes(T, size) <=> \E y \in T : b \in {y} \X (1..size[y])
    BY DEF Bytes
  <2> QED BY <2>1
<1> HIDE DEF new
<1>6. IsFiniteSet(Bytes(S, size) \cap new) /\ Cardinality(Bytes(S, size) \cap new) \in Nat
  BY <1>4, FS_Intersection, FS_CardinalityType
<1>7. Cardinality(Bytes(S, size) \union new)
         = Cardinality(Bytes(S, size)) + Cardinality(new) - Cardinality(Bytes(S, size) \cap new)
  BY <1>3, <1>4, FS_Union
<1>8. \A b, c, d, n \in Nat : c = n => b + c - d <= b + n
  OBVIOUS
<1> QED BY <1>3, <1>4, <1>5, <1>6, <1>7, <1>8

\* Fewer, or smaller ones.
LEMMA BytesBelow ==
    ASSUME NEW S, IsFiniteSet(S), NEW size, \A y \in S : size[y] \in Nat,
           NEW T \in SUBSET S, NEW less, \A y \in T : less[y] \in Nat /\ less[y] <= size[y]
    PROVE  Cardinality(Bytes(T, less)) <= Cardinality(Bytes(S, size))
<1>1. Bytes(T, less) \subseteq Bytes(S, size)
  BY DEF Bytes
<1> QED BY <1>1, BytesFinite, FS_Subset

\* One byte in each part at most.
LEMMA BytesOfParts ==
    ASSUME NEW a \in Assets, NEW row, \A n \in PartNumbers(a) : row[n] \in Nat /\ row[n] <= 1
    PROVE  Cardinality(Bytes(PartNumbers(a), row)) <= SizeOf[a]
<1>1. SizeOf[a] \in Nat
  BY SizesArePositive
<1>2. IsFiniteSet(PartNumbers(a)) /\ Cardinality(PartNumbers(a)) = SizeOf[a]
  BY SMTT(30), <1>1, FS_Interval DEF PartNumbers
<1>3. IsFiniteSet({1}) /\ Cardinality({1}) = 1
  BY FS_Singleton
<1>4. IsFiniteSet(PartNumbers(a) \X {1}) /\ Cardinality(PartNumbers(a) \X {1}) = SizeOf[a]
  BY <1>1, <1>2, <1>3, FS_Product
<1>5. Bytes(PartNumbers(a), row) \subseteq PartNumbers(a) \X {1}
  BY DEF Bytes
<1> QED BY <1>4, <1>5, FS_Subset

\* A step reserves at most the asset whose size it has checked.
LEMMA ReservedMoves ==
    ASSUME StoreInv, [Next]_vars
    PROVE  \/ Reserved' \subseteq Reserved
           \/ \E a \in Assets : /\ Reserved' \subseteq Reserved \union {a}
                                /\ UsedBytes + SizeOf[a] <= Quota
<1>t. /\ assets \in [Assets -> AssetType] /\ \A a \in Assets : assets[a] \in AssetType
      /\ \A r \in Requests : requests[r].phase # "idle" => requests[r].asset \in Assets
  BY RequestTypes DEF StoreInv, TypeOK
<1>i. \A a \in Assets : AssetInv(a)
  BY DEF StoreInv, PointerInv
<1>0. UNCHANGED assets => Reserved' \subseteq Reserved
  BY DEF Reserved
<1>g. ASSUME NEW a \in Assets, Removed(a) PROVE Reserved' \subseteq Reserved
  BY <1>g, <1>t DEF Removed, Reserved, AssetType
<1>1. ASSUME NEW r \in Requests, NEW a \in Assets, ReserveUpload(r, a)
      PROVE  \/ Reserved' \subseteq Reserved
             \/ Reserved' \subseteq Reserved \union {a} /\ UsedBytes + SizeOf[a] <= Quota
  <2>1. UNCHANGED assets \/ (/\ assets' = [assets EXCEPT ![a].status = "uploading"]
                            /\ UsedBytes + SizeOf[a] <= Quota)
    BY <1>1 DEF ReserveUpload
  <2> QED BY <1>0, <1>t, <2>1 DEF Reserved
<1>2. ASSUME NEW r \in Requests, NEW a \in Assets, requests[r].asset = a,
             MarkFailed(r) \/ PublishAsset(r) \/ RecordScan(r) \/ EndDelete(r) \/ EndReap(r)
      PROVE  Reserved' \subseteq Reserved
  <2>i. AssetInv(a)
    BY <1>i
  <2>1. CASE MarkFailed(r)
    BY <1>t, <1>2, <2>1 DEF MarkFailed, Reserved, AssetType
  <2>2. CASE PublishAsset(r)
    <3>1. \/ UNCHANGED assets
          \/ /\ assets[a].status = "uploading"
             /\ assets' = [assets EXCEPT ![a].status = "ready", ![a].scan = "scanning"]
      BY <1>2, <2>2, <2>i DEF PublishAsset, AssetInv, RowsAgree
    <3> QED BY <1>0, <1>t, <3>1 DEF Reserved, AssetType
  <2>3. CASE RecordScan(r)
    <3>1. UNCHANGED assets \/ \E v : assets' = [assets EXCEPT ![a].scan = v]
      BY <1>2, <2>3 DEF RecordScan
    <3> QED BY <1>0, <1>t, <3>1 DEF Reserved, AssetType
  <2>4. CASE EndDelete(r) \/ EndReap(r)
    <3>1. UNCHANGED assets \/ Removed(a)
      BY <1>2, <2>4 DEF EndDelete, EndReap, tables
    <3> QED BY <1>0, <1>g, <3>1
  <2> QED BY <1>2, <2>1, <2>2, <2>3, <2>4
<1>3. ASSUME NEW a \in Assets, EnvironmentStep(a) PROVE Reserved' \subseteq Reserved
  <2>1. CASE AssetExpires(a)
    BY <2>1, <1>t DEF AssetExpires, Reserved, AssetType
  <2>2. UNCHANGED assets \/ AssetExpires(a) \/ Removed(a)
    BY <1>3 DEF EnvironmentStep, PutPart, AcknowledgePart, LeaseEnds, AbortUpload, ReapUpload,
       ReapUploadFails, tables
  <2> QED BY <1>0, <1>g, <2>1, <2>2
<1>4. ASSUME NEW r \in Requests, RequestStep(r)
      PROVE  \/ Reserved' \subseteq Reserved \/ \E a \in Assets : ReserveUpload(r, a)
  <2>1. \/ UNCHANGED assets
        \/ \E a \in Assets : ReserveUpload(r, a)
        \/ /\ requests[r].asset \in Assets
           /\ \/ MarkFailed(r) \/ PublishAsset(r) \/ RecordScan(r) \/ EndDelete(r) \/ EndReap(r)
    BY <1>t, <1>4 DEF RequestStep, tables, BeginUpload, BeginWrite, BeginDelete, BeginReap, EndWrite,
       CommitObject, VerifyObject, DropObject, RequestDies, ClaimCompletion, MarkFailed,
       PublishAsset, RecordScan, EndDelete, EndReap
  <2> QED BY <1>0, <1>2, <2>1
<1> QED BY <1>0, <1>1, <1>3, <1>4, StepCases DEF vars

(* Every step keeps the reserved bytes within the quota.                    *)
LEMMA ReservedStep ==
    ASSUME StoreInv, ReservedFit, [Next]_vars
    PROVE  ReservedFit'
<1>1. /\ Reserved \subseteq Assets /\ IsFiniteSet(Reserved) /\ Quota \in Nat
      /\ \A a \in Assets : SizeOf[a] \in Nat
      /\ UsedBytes = Cardinality(Bytes(Reserved, SizeOf))
  BY SizesArePositive DEF Reserved, ReservedFit, UsedBytes
<1>2. CASE Reserved' \subseteq Reserved
  <2>1. IsFiniteSet(Reserved') /\ Cardinality(Bytes(Reserved', SizeOf)) \in Nat
    BY <1>1, <1>2, FS_Subset, BytesFinite
  <2>2. Cardinality(Bytes(Reserved', SizeOf)) <= Cardinality(Bytes(Reserved, SizeOf))
    <3>1. \A y \in Reserved : SizeOf[y] \in Nat
      BY <1>1
    <3>2. \A y \in Reserved' : SizeOf[y] \in Nat /\ SizeOf[y] <= SizeOf[y]
      BY <1>1, <1>2
    <3> QED BY <1>1, <1>2, <3>1, <3>2, BytesBelow
  <2>3. Cardinality(Bytes(Reserved, SizeOf)) \in Nat
    BY <1>1, BytesFinite
  <2> QED BY <1>1, <2>1, <2>2, <2>3 DEF ReservedFit
<1>3. ASSUME NEW a \in Assets, Reserved' \subseteq Reserved \union {a}, UsedBytes + SizeOf[a] <= Quota
      PROVE  ReservedFit'
  <2> DEFINE S == Reserved \union {a}
  <2>1. IsFiniteSet(S) /\ S \subseteq Assets
    BY <1>1, FS_AddElement
  <2>2. IsFiniteSet(Reserved') /\ Cardinality(Bytes(Reserved', SizeOf)) \in Nat
    BY <1>1, <1>3, <2>1, FS_Subset, BytesFinite
  <2>3. Cardinality(Bytes(S, SizeOf)) <= Cardinality(Bytes(Reserved, SizeOf)) + SizeOf[a]
    BY <1>1, BytesAdded
  <2>4. Cardinality(Bytes(Reserved', SizeOf)) <= Cardinality(Bytes(S, SizeOf))
    <3>1. \A y \in S : SizeOf[y] \in Nat
      BY <1>1, <2>1
    <3>2. \A y \in Reserved' : SizeOf[y] \in Nat /\ SizeOf[y] <= SizeOf[y]
      BY <1>1, <1>3
    <3> HIDE DEF S
    <3> QED BY <1>3, <2>1, <3>1, <3>2, BytesBelow DEF S
  <2>5. /\ Cardinality(Bytes(S, SizeOf)) \in Nat /\ Cardinality(Bytes(Reserved, SizeOf)) \in Nat
        /\ SizeOf[a] \in Nat
    BY <1>1, <2>1, BytesFinite
  <2>6. \A m, n, k, z, q \in Nat : m <= n /\ n <= k + z /\ k + z <= q => m <= q
    OBVIOUS
  <2> HIDE DEF S
  <2>7. Cardinality(Bytes(Reserved', SizeOf)) <= Quota
    BY <1>1, <1>3, <2>2, <2>3, <2>4, <2>5, <2>6
  <2> QED BY <2>2, <2>7 DEF ReservedFit
<1> QED BY <1>2, <1>3, ReservedMoves

(* The parts of an upload are finitely many.                                *)
LEMMA PartNumbersFinite ==
    \A a \in Assets : SizeOf[a] \in Nat /\ IsFiniteSet(PartNumbers(a))
<1> SUFFICES ASSUME NEW a \in Assets PROVE SizeOf[a] \in Nat /\ IsFiniteSet(1..SizeOf[a])
  BY DEF PartNumbers
<1>1. SizeOf[a] \in Int /\ 1 \in Int /\ SizeOf[a] \in Nat
  BY SizesArePositive
<1> QED BY <1>1, FS_Interval

\* Rows of parts that are cleared, and requests that write no more, leave the
\* sizes within their bounds.
LEMMA PartsClear ==
    ASSUME PartsFit, WritesFit,
           parts' = [a \in Assets |-> parts'[a]],
           \A a \in Assets : parts'[a] = parts[a] \/ parts'[a] = NoParts(a),
           \A q \in Requests : requests'[q].phase = "writing" => requests'[q] = requests[q],
           \A q \in Requests : requests[q].phase = "writing" => requests[q].asset \in Assets
    PROVE  PartsFit' /\ WritesFit'
<1>1. \A a \in Assets : /\ SizeOf[a] \in Nat /\ IsFiniteSet(PartNumbers(a))
                        /\ \A n \in PartNumbers(a) : parts[a][n] \in Nat
                        /\ Total(a) <= SizeOf[a]
  BY PartNumbersFinite DEF PartsFit
<1>2. \A a \in Assets : \A n \in PartNumbers(a) : /\ parts'[a][n] \in Nat
                                                  /\ parts'[a][n] <= parts[a][n]
  BY <1>1 DEF NoParts
<1>3. ASSUME NEW a \in Assets, NEW S \in SUBSET PartNumbers(a)
      PROVE  /\ Cardinality(Bytes(S, parts'[a])) \in Nat /\ Cardinality(Bytes(S, parts[a])) \in Nat
             /\ Cardinality(Bytes(S, parts'[a])) <= Cardinality(Bytes(S, parts[a]))
  <2>1. IsFiniteSet(S)
    BY <1>1, FS_Subset
  <2>2. \A y \in S : parts[a][y] \in Nat
    BY <1>1
  <2>3. \A y \in S : parts'[a][y] \in Nat /\ parts'[a][y] <= parts[a][y]
    BY <1>2
  <2>4. S \in SUBSET S
    OBVIOUS
  <2>5. Cardinality(Bytes(S, parts[a])) \in Nat /\ Cardinality(Bytes(S, parts'[a])) \in Nat
    BY <2>1, <2>2, <2>3, BytesFinite
  <2>6. Cardinality(Bytes(S, parts'[a])) <= Cardinality(Bytes(S, parts[a]))
    BY <2>1, <2>2, <2>3, <2>4, BytesBelow
  <2> QED BY <2>5, <2>6
<1>4. PartsFit'
  <2> SUFFICES ASSUME NEW a \in Assets
               PROVE  /\ parts'[a] \in [PartNumbers(a) -> Nat] /\ Total(a)' <= SizeOf[a]
                      /\ a \in Direct => \A n \in PartNumbers(a) : parts'[a][n] <= 1
    BY DEF PartsFit
  <2>1. parts'[a] \in [PartNumbers(a) -> Nat]
    BY DEF PartsFit, NoParts
  <2>2. Total(a)' <= SizeOf[a]
    <3>1. Total(a)' \in Nat /\ Total(a) \in Nat /\ Total(a)' <= Total(a)
      BY <1>3 DEF Total
    <3> QED BY <1>1, <3>1
  <2>3. a \in Direct => \A n \in PartNumbers(a) : parts'[a][n] <= 1
    BY <1>1, <1>2 DEF PartsFit, NoParts
  <2> QED BY <2>1, <2>2, <2>3
<1>5. WritesFit'
  <2> SUFFICES ASSUME NEW r \in Requests, requests'[r].phase = "writing"
               PROVE  LET w == requests'[r]
                      IN  /\ w.asset \notin Direct /\ w.part \in PartNumbers(w.asset) /\ w.size \in Nat
                          /\ Cardinality(Bytes(PartNumbers(w.asset) \ {w.part}, parts'[w.asset])) + w.size
                               <= SizeOf[w.asset]
                          /\ \A q \in Requests : requests'[q].phase \in {"writing"}
                                                 /\ requests'[q].asset = w.asset => q = r
    BY DEF WritesFit, OthersTotal, At
  <2> DEFINE a == requests[r].asset
             S == PartNumbers(a) \ {requests[r].part}
             z == requests[r].size
  <2>1. requests'[r] = requests[r] /\ requests[r].phase = "writing" /\ a \in Assets
    OBVIOUS
  <2>2. /\ a \notin Direct /\ requests[r].part \in PartNumbers(a) /\ z \in Nat
        /\ Cardinality(Bytes(S, parts[a])) + z <= SizeOf[a]
        /\ \A q \in Requests : requests[q].phase = "writing" /\ requests[q].asset = a => q = r
    BY <2>1 DEF WritesFit, OthersTotal, At
  <2>3. Cardinality(Bytes(S, parts'[a])) + z <= SizeOf[a]
    <3>1. /\ Cardinality(Bytes(S, parts'[a])) \in Nat /\ Cardinality(Bytes(S, parts[a])) \in Nat
          /\ Cardinality(Bytes(S, parts'[a])) <= Cardinality(Bytes(S, parts[a]))
      BY <1>3, <2>1
    <3>2. \A m, n, k, size \in Nat : m <= n /\ n + k <= size => m + k <= size
      OBVIOUS
    <3> HIDE DEF S, a, z
    <3> QED BY <1>1, <2>1, <2>2, <3>1, <3>2
  <2> QED BY <2>1, <2>2, <2>3
<1> QED BY <1>4, <1>5

\* The parts of an upload that nobody writes are replaced.
LEMMA PartsReplaced ==
    ASSUME PartsFit, WritesFit, NEW a \in Assets, NEW new \in [PartNumbers(a) -> Nat],
           parts' = [parts EXCEPT ![a] = new],
           Cardinality(Bytes(PartNumbers(a), new)) <= SizeOf[a],
           a \in Direct => \A n \in PartNumbers(a) : new[n] <= 1,
           \A q \in Requests : requests'[q].phase = "writing" =>
                                 requests'[q] = requests[q] /\ requests[q].asset # a
    PROVE  PartsFit' /\ WritesFit'
<1>1. /\ parts' = [b \in Assets |-> parts'[b]] /\ parts'[a] = new
      /\ \A b \in Assets : b # a => parts'[b] = parts[b]
  <2>1. parts = [b \in Assets |-> parts[b]]
    BY DEF PartsFit
  <2> QED BY <2>1
<1>2. PartsFit'
  BY <1>1 DEF PartsFit, Total
<1>3. WritesFit'
  <2> SUFFICES ASSUME NEW r \in Requests, requests'[r].phase = "writing"
               PROVE  LET w == requests'[r]
                      IN  /\ w.asset \notin Direct /\ w.part \in PartNumbers(w.asset) /\ w.size \in Nat
                          /\ Cardinality(Bytes(PartNumbers(w.asset) \ {w.part}, parts'[w.asset])) + w.size
                               <= SizeOf[w.asset]
                          /\ \A q \in Requests : requests'[q].phase \in {"writing"}
                                                 /\ requests'[q].asset = w.asset => q = r
    BY DEF WritesFit, OthersTotal, At
  <2>1. parts'[requests[r].asset] = parts[requests[r].asset]
    <3>1. parts = [b \in Assets |-> parts[b]]
      BY DEF PartsFit
    <3> QED BY <3>1
  <2> QED BY <2>1 DEF WritesFit, OthersTotal, At
<1> QED BY <1>2, <1>3

\* Every step of the store keeps parts and writes within the declared sizes.
LEMMA PartsStep ==
    ASSUME StoreInv, PartsFit, WritesFit, [Next]_vars
    PROVE  PartsFit' /\ WritesFit'
<1>t. /\ requests \in [Requests -> RequestType]
      /\ \A r \in Requests : requests[r].phase # "idle" => requests[r].asset \in Assets
      /\ \A q \in Requests : requests[q].phase = "writing" => requests[q].asset \in Assets
  BY RequestTypes DEF StoreInv, TypeOK
<1>p. parts = [a \in Assets |-> parts[a]]
  BY DEF PartsFit
<1>0. CASE /\ UNCHANGED parts
           /\ \A q \in Requests : requests'[q].phase = "writing" => requests'[q] = requests[q]
  BY <1>0, <1>p, <1>t, PartsClear
<1>g. ASSUME NEW a \in Assets, Removed(a),
             \A q \in Requests : requests'[q].phase = "writing" => requests'[q] = requests[q]
      PROVE  PartsFit' /\ WritesFit'
  <2>1. parts' = [b \in Assets |-> parts'[b]]
    BY <1>g, <1>p DEF Removed
  <2>2. \A b \in Assets : parts'[b] = parts[b] \/ parts'[b] = NoParts(b)
    BY <1>g, <1>p DEF Removed
  <2> QED BY <1>g, <1>t, <2>1, <2>2, PartsClear
<1>1. ASSUME NEW r \in Requests, NEW a \in Assets, NEW n \in PartNumbers(a), NEW size \in PartNumbers(a),
             BeginWrite(r, a, n, size)
      PROVE  PartsFit' /\ WritesFit'
  <2> DEFINE w == [phase |-> "writing", asset |-> a, part |-> n, size |-> size]
  <2>1. /\ requests'[r] = w /\ \A q \in Requests : q # r => requests'[q] = requests[q]
        /\ UNCHANGED parts /\ a \notin Direct /\ OthersTotal(a, n) + size <= SizeOf[a]
        /\ \A q \in Requests : requests[q].phase = "writing" => requests[q].asset # a
    BY <1>t, <1>1 DEF BeginWrite, Go, tables, LockFree
  <2>2. /\ w.phase = "writing" /\ w.asset = a /\ w.part = n /\ w.size = size /\ size \in Nat
    BY DEF PartNumbers
  <2>3. WritesFit'
    <3> SUFFICES ASSUME NEW p \in Requests, requests'[p].phase = "writing"
                 PROVE  LET v == requests'[p]
                        IN  /\ v.asset \notin Direct /\ v.part \in PartNumbers(v.asset) /\ v.size \in Nat
                            /\ OthersTotal(v.asset, v.part) + v.size <= SizeOf[v.asset]
                            /\ \A q \in Requests : requests'[q].phase \in {"writing"}
                                                   /\ requests'[q].asset = v.asset => q = p
      BY <2>1 DEF WritesFit, OthersTotal, At
    <3> HIDE DEF w
    <3>1. CASE p = r
      BY <2>1, <2>2, <3>1
    <3>2. CASE p # r
      BY <2>1, <2>2, <3>2 DEF WritesFit, At
    <3> QED BY <3>1, <3>2
  <2>4. PartsFit'
    BY <2>1 DEF PartsFit, Total
  <2> QED BY <2>3, <2>4
<1>2. ASSUME NEW r \in Requests, EndWrite(r) PROVE PartsFit' /\ WritesFit'
  <2> DEFINE a == requests[r].asset
             n == requests[r].part
             z == requests[r].size
             S == PartNumbers(a) \ {n}
             new == [parts[a] EXCEPT ![n] = z]
  <2>1. /\ requests[r].phase = "writing" /\ requests'[r].phase = "idle"
        /\ \A q \in Requests : q # r => requests'[q] = requests[q]
        /\ \/ UNCHANGED parts
           \/ parts' = [parts EXCEPT ![a] = new]
    BY <1>t, <1>2 DEF EndWrite, Go, Idle
  <2>2. /\ a \in Assets /\ a \notin Direct /\ n \in PartNumbers(a) /\ z \in Nat
        /\ Cardinality(Bytes(S, parts[a])) + z <= SizeOf[a]
        /\ \A q \in Requests : requests[q].phase = "writing" /\ requests[q].asset = a => q = r
    BY <1>t, <2>1 DEF WritesFit, OthersTotal, At
  <2>3. CASE UNCHANGED parts
    BY <1>0, <2>1, <2>3
  <2>4. CASE parts' = [parts EXCEPT ![a] = new]
    <3>1. /\ new \in [PartNumbers(a) -> Nat] /\ new[n] = z
          /\ \A y \in S : new[y] = parts[a][y] /\ parts[a][y] \in Nat
      BY <2>2 DEF PartsFit
    <3>2. PartNumbers(a) = S \union {n} /\ IsFiniteSet(S) /\ SizeOf[a] \in Nat
      BY <2>2, PartNumbersFinite, FS_RemoveElement
    <3> HIDE DEF S, new, z, n, a
    <3>3. Cardinality(Bytes(PartNumbers(a), new)) <= Cardinality(Bytes(S, new)) + z
      <4>1. Cardinality(Bytes(S \union {n}, new)) <= Cardinality(Bytes(S, new)) + new[n]
        BY <2>2, <3>1, <3>2, BytesAdded
      <4> QED BY <3>1, <3>2, <4>1
    <3>4. Cardinality(Bytes(S, new)) <= Cardinality(Bytes(S, parts[a]))
      <4>1. /\ \A y \in S : parts[a][y] \in Nat
            /\ \A y \in S : new[y] \in Nat /\ new[y] <= parts[a][y]
        BY <3>1
      <4> QED BY <3>2, <4>1, BytesBelow
    <3>5. /\ Cardinality(Bytes(S, new)) \in Nat /\ Cardinality(Bytes(S, parts[a])) \in Nat
          /\ Cardinality(Bytes(PartNumbers(a), new)) \in Nat
      <4>1. /\ \A y \in S : parts[a][y] \in Nat /\ new[y] \in Nat
            /\ \A y \in PartNumbers(a) : new[y] \in Nat
            /\ IsFiniteSet(PartNumbers(a))
        BY <2>2, <3>1, PartNumbersFinite
      <4> QED BY <3>2, <4>1, BytesFinite
    <3>6. \A m, k, l, size, v \in Nat : m <= k + v /\ k <= l /\ l + v <= size => m <= size
      OBVIOUS
    <3>7. Cardinality(Bytes(PartNumbers(a), new)) <= SizeOf[a]
      BY <2>2, <3>2, <3>3, <3>4, <3>5, <3>6
    <3>8. \A q \in Requests : requests'[q].phase = "writing" =>
                                 requests'[q] = requests[q] /\ requests[q].asset # a
      BY <2>1, <2>2
    <3> QED BY <2>2, <2>4, <3>1, <3>7, <3>8, PartsReplaced
  <2> QED BY <2>1, <2>3, <2>4
<1>c. ASSUME NEW a \in Assets, LockFree(a), NEW new,
             \/ new = parts[a]
             \/ new = Whole(a)
             \/ a \in Direct /\ \E n \in PartNumbers(a) : new = [parts[a] EXCEPT ![n] = 1],
             parts' = [parts EXCEPT ![a] = new],
             \A q \in Requests : requests'[q].phase = "writing" => requests'[q] = requests[q]
      PROVE  PartsFit' /\ WritesFit'
  <2>1. new \in [PartNumbers(a) -> Nat]
    BY <1>c DEF PartsFit, Whole
  <2>2. a \in Direct => \A n \in PartNumbers(a) : new[n] <= 1
    BY <1>c DEF PartsFit, Whole
  <2>3. Cardinality(Bytes(PartNumbers(a), new)) <= SizeOf[a]
    <3>1. CASE new = parts[a]
      BY <3>1 DEF PartsFit, Total
    <3>2. CASE new # parts[a]
      <4>1. \A n \in PartNumbers(a) : new[n] \in Nat /\ new[n] <= 1
        BY <1>c, <2>1, <2>2, <3>2 DEF Whole
      <4> QED BY <4>1, BytesOfParts
    <3> QED BY <3>1, <3>2
  <2>4. \A q \in Requests : requests'[q].phase = "writing" =>
                               requests'[q] = requests[q] /\ requests[q].asset # a
    BY <1>c DEF LockFree
  <2> QED BY <1>c, <2>1, <2>2, <2>3, <2>4, PartsReplaced
<1>3. ASSUME NEW r \in Requests, NEW a \in Assets, ClaimCompletion(r, a) PROVE PartsFit' /\ WritesFit'
  <2>1. PICK new \in {parts[a], Whole(a)} : parts' = [parts EXCEPT ![a] = new]
    BY <1>3 DEF ClaimCompletion
  <2>2. LockFree(a) /\ \A q \in Requests : requests'[q].phase = "writing" => requests'[q] = requests[q]
    BY <1>t, <1>3 DEF ClaimCompletion, Go, Doing
  <2> QED BY <1>c, <2>1, <2>2
<1>4. ASSUME NEW a \in Assets, NEW n \in PartNumbers(a), AcknowledgePart(a, n) PROVE PartsFit' /\ WritesFit'
  <2>1. /\ parts' = [parts EXCEPT ![a] = [parts[a] EXCEPT ![n] = 1]] /\ a \in Direct /\ LockFree(a)
        /\ UNCHANGED requests
    BY <1>4 DEF AcknowledgePart
  <2> QED BY <1>c, <2>1
<1>5. ASSUME NEW r \in Requests, RequestStep(r) PROVE PartsFit' /\ WritesFit'
  <2>1. CASE EndDelete(r) \/ EndReap(r)
    <3>1. /\ requests[r].asset \in Assets
          /\ \A q \in Requests : requests'[q].phase = "writing" => requests'[q] = requests[q]
          /\ Removed(requests[r].asset) \/ UNCHANGED parts
      BY <1>t, <2>1 DEF EndDelete, EndReap, Go, Idle, tables
    <3> QED BY <1>0, <1>g, <3>1
  <2>2. \/ EndDelete(r) \/ EndReap(r) \/ EndWrite(r)
        \/ \E a \in Assets : \/ ClaimCompletion(r, a)
                             \/ \E n, size \in PartNumbers(a) : BeginWrite(r, a, n, size)
        \/ /\ UNCHANGED parts
           /\ \A q \in Requests : requests'[q].phase = "writing" => requests'[q] = requests[q]
    <3> DEFINE Rest == /\ UNCHANGED parts
                       /\ \A q \in Requests :
                             requests'[q].phase = "writing" => requests'[q] = requests[q]
    <3>1. ASSUME NEW a \in Assets,
                 BeginUpload(r, a) \/ ReserveUpload(r, a) \/ BeginDelete(r, a) \/ BeginReap(r, a)
          PROVE  Rest
      <4>1. CASE BeginUpload(r, a)
        BY <1>t, <4>1 DEF BeginUpload, Go, Doing, tables
      <4>2. CASE ReserveUpload(r, a)
        BY <1>t, <4>2 DEF ReserveUpload, Go, Idle
      <4>3. CASE BeginDelete(r, a) \/ BeginReap(r, a)
        BY <1>t, <4>3 DEF BeginDelete, BeginReap, Go, Doing, tables
      <4> QED BY <3>1, <4>1, <4>2, <4>3
    <3>2. CASE CommitObject(r)
      BY <1>t, <3>2 DEF CommitObject, Go, Idle, Doing, tables
    <3>3. CASE VerifyObject(r) \/ DropObject(r)
      BY <1>t, <3>3 DEF VerifyObject, DropObject, Go, Idle, Doing, tables
    <3>4. CASE PublishAsset(r)
      BY <1>t, <3>4 DEF PublishAsset, Go, Idle
    <3>5. CASE MarkFailed(r) \/ RecordScan(r) \/ RequestDies(r)
      BY <1>t, <3>5 DEF MarkFailed, RecordScan, RequestDies, Go, Idle, tables
    <3> QED BY <1>5, <3>1, <3>2, <3>3, <3>4, <3>5 DEF RequestStep
  <2> QED BY <1>0, <1>1, <1>2, <1>3, <2>1, <2>2
<1>6. ASSUME NEW a \in Assets, EnvironmentStep(a) PROVE PartsFit' /\ WritesFit'
  <2>1. \/ \E n \in PartNumbers(a) : AcknowledgePart(a, n)
        \/ UNCHANGED requests /\ (UNCHANGED parts \/ Removed(a))
    BY <1>6 DEF EnvironmentStep, PutPart, LeaseEnds, AbortUpload, AssetExpires, ReapUpload,
       ReapUploadFails, tables
  <2> QED BY <1>0, <1>4, <1>g, <2>1
<1> QED BY <1>0, <1>5, <1>6, StepCases DEF vars

\* The reserved and the acknowledged bytes stay within the quota and the
\* declared sizes, whatever requests run at the same time: the quota
\* transaction and the lock of an upload check against current totals.
THEOREM QuotaIsKept == Spec => []QuotaKept
<1>1. Init => PartsFit /\ WritesFit /\ ReservedFit
  <2> SUFFICES ASSUME Init PROVE PartsFit /\ WritesFit /\ ReservedFit
    OBVIOUS
  <2>1. PartsFit
    <3>1. \A a \in Assets : parts[a] = NoParts(a) /\ parts[a] \in [PartNumbers(a) -> Nat]
      BY DEF Init, NoParts
    <3>2. \A a \in Assets : Total(a) <= SizeOf[a]
      <4> SUFFICES ASSUME NEW a \in Assets PROVE Cardinality(Bytes(PartNumbers(a), parts[a])) <= SizeOf[a]
        BY DEF Total
      <4>1. \A n \in PartNumbers(a) : parts[a][n] = 0
        <5>1. \A n \in PartNumbers(a) : NoParts(a)[n] = 0
          BY DEF NoParts
        <5> QED BY <3>1, <5>1
      <4>2. \A n \in PartNumbers(a) : parts[a][n] \in Nat /\ parts[a][n] <= 1
        BY <4>1
      <4> QED BY <4>2, BytesOfParts
    <3> QED BY <3>1, <3>2 DEF PartsFit, Init, NoParts
  <2>2. WritesFit
    BY DEF Init, WritesFit, Idle
  <2>3. ReservedFit
    <3>1. Reserved = {}
      BY DEF Init, Reserved
    <3>2. Bytes({}, SizeOf) = {}
      BY DEF Bytes
    <3> QED BY <3>1, <3>2, FS_EmptySet, SizesArePositive DEF ReservedFit
  <2> QED BY <2>1, <2>2, <2>3
<1>2. StoreInv /\ BytesInv /\ [Next]_vars => BytesInv'
  BY PartsStep, ReservedStep DEF BytesInv
<1>3. BytesInv => QuotaKept
  BY DEF BytesInv, ReservedFit, PartsFit, QuotaKept, Reserved
<1> QED BY <1>1, <1>2, <1>3, StoreHolds, PTL DEF Spec, BytesInv

=============================================================================
