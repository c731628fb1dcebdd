----------------------- MODULE WorkflowArchiveProofs -----------------------
(***************************************************************************)
(* Theorems about the archive of finished Workflow trees (WorkflowArchive), *)
(* for any number of trees, workers, page and pass sizes, changes of the    *)
(* trees and faults.                                                        *)
(***************************************************************************)
EXTENDS WorkflowArchive, DataInduction

-----------------------------------------------------------------------------
(* The inductive invariant.                                                 *)

AttemptPhases == {"claimed", "exported", "putting", "put", "verified", "failing"}

WorkerType ==
    {Idle}
    \cup [phase : {"scanned"}, page : SUBSET (Nat \X Roots)]
    \cup [phase : {"claiming"}, left : Nat]
    \cup [phase : AttemptPhases, root : Roots, sha : Nat, left : Nat]

RowType ==
    [status : {"none", "pending", "claimed", "failed", "completed"}, source : Nat,
     token : Workers \cup {"none"}, due : BOOLEAN, expired : BOOLEAN, sha : Nat]

ArchiveTypeOK ==
    /\ version \in [Roots -> Nat \ {0}]
    /\ done \in [Roots -> Nat] /\ clock \in Nat
    /\ rows \in [Roots -> RowType]
    /\ objects \in [Roots -> Nat]
    /\ workers \in [Workers -> WorkerType]

(* The number of a snapshot without a running member.                       *)
Whole(s) == s > 0 /\ s % 2 = 0

(* What an attempt carries is such a snapshot of its tree; as long as the   *)
(* attempt holds the claim, what it has read back stays in place.           *)
Honest(w) ==
    LET a == workers[w]
    IN  /\ a.phase \in {"exported", "putting", "put", "verified"}
             => Whole(a.sha) /\ a.sha <= version[a.root]
        /\ a.phase = "verified" /\ Owns(w) /\ version[a.root] = 2
             => objects[a.root] \in {a.sha, LateTorn}

Recorded(r) ==
    /\ rows[r].sha % 2 = 0
    /\ rows[r].status = "completed" =>
           /\ Whole(rows[r].sha) /\ rows[r].sha <= version[r]
           /\ version[r] = 2 => objects[r] \in {rows[r].sha, LateTorn}

(* A completed record is final, and so is what was restored from it.        *)
RestoredKept ==
    restored # Empty =>
        /\ restored[1] \in Roots
        /\ rows[restored[1]].status = "completed"
        /\ restored[2] = rows[restored[1]].sha

AllHonest == \A w \in Workers : Honest(w)

AllRecorded == \A r \in Roots : Recorded(r)

ArchiveInv == ArchiveTypeOK /\ AllHonest /\ AllRecorded /\ RestoredKept

-----------------------------------------------------------------------------
(* What a claim picks.                                                      *)

(* A pass that finds claimable rows picks one of them: the lexicographic    *)
(* order of the discovery time and the id has a least element on any set of *)
(* rows, finite or not.                                                     *)
LEMMA NextClaimReady ==
    ASSUME rows \in [Roots -> RowType], Claimable # {}
    PROVE  NextClaim \in Claimable /\ NextClaim \in Roots
<1> DEFINE T == {rows[r].source : r \in Claimable}
<1>1. Claimable \subseteq Roots /\ Roots \subseteq Nat
  BY ArchiveConstants DEF Claimable
<1>2. T \subseteq Nat /\ T # {}
  <2>1. \A r \in Claimable : rows[r].source \in Nat
    <3>1. \A r \in Roots : rows[r] \in RowType
      OBVIOUS
    <3> QED BY <1>1, <3>1 DEF RowType
  <2>2. PICK r \in Claimable : TRUE
    OBVIOUS
  <2> QED BY <2>1, <2>2
<1>3. PICK s \in T : \A y \in T : s <= y
  <2> HIDE DEF T
  <2> QED BY <1>2, LeastNatural
<1> DEFINE S == {r \in Claimable : rows[r].source = s}
<1>4. S \subseteq Nat /\ S # {}
  BY <1>1
<1>5. PICK m \in S : \A y \in S : m <= y
  <2> HIDE DEF S, T
  <2> QED BY <1>4, LeastNatural
<1>6. \A q \in Claimable \ {m} : Before(<<rows[m].source, m>>, <<rows[q].source, q>>)
  <2> SUFFICES ASSUME NEW q \in Claimable \ {m}
               PROVE  rows[m].source < rows[q].source \/ (rows[m].source = rows[q].source /\ m < q)
    BY DEF Before
  <2>1. rows[m].source = s /\ s <= rows[q].source /\ rows[q].source \in Nat /\ s \in Nat
        /\ m \in Nat /\ q \in Nat /\ m # q
    BY <1>1, <1>2, <1>3
  <2>2. rows[q].source = s => m <= q
    BY <1>5
  <2> QED BY <2>1, <2>2
<1>7. m \in Claimable
  OBVIOUS
<1> HIDE DEF S, T
<1> QED BY <1>1, <1>6, <1>7 DEF NextClaim

-----------------------------------------------------------------------------
(* Types.                                                                   *)

(* A worker that does something with a tree is in an attempt, on a root.    *)
LEMMA AttemptTypes ==
    ASSUME NEW w \in Workers, workers[w] \in WorkerType
    PROVE  /\ workers[w].phase \in AttemptPhases =>
                 /\ workers[w] \in [phase : AttemptPhases, root : Roots, sha : Nat, left : Nat]
                 /\ workers[w].root \in Roots /\ workers[w].sha \in Nat /\ workers[w].left \in Nat
           /\ workers[w].phase = "scanned" => workers[w].page \in SUBSET (Nat \X Roots)
           /\ workers[w].phase = "claiming" => workers[w].left \in Nat
           /\ workers[w] = Idle => workers[w].phase = "idle"
  BY DEF WorkerType, AttemptPhases, Idle

(* The initial state is well typed.                                         *)
LEMMA TypeInit == Init => ArchiveTypeOK
  BY DEF Init, ArchiveTypeOK, RowType, WorkerType

(* Type correctness of one step.                                            *)
LEMMA TypeStep == ArchiveTypeOK /\ [Next]_vars => ArchiveTypeOK'
<1> SUFFICES ASSUME ArchiveTypeOK, [Next]_vars PROVE ArchiveTypeOK'
  OBVIOUS
<1>t. \A w \in Workers :
          /\ workers[w].phase \in AttemptPhases =>
                 /\ workers[w] \in [phase : AttemptPhases, root : Roots, sha : Nat, left : Nat]
                 /\ workers[w].root \in Roots /\ workers[w].sha \in Nat /\ workers[w].left \in Nat
          /\ workers[w].phase = "scanned" => workers[w].page \in SUBSET (Nat \X Roots)
          /\ workers[w].phase = "claiming" => workers[w].left \in Nat
  BY AttemptTypes DEF ArchiveTypeOK
<1>r. ASSUME NEW r \in Roots
      PROVE  /\ rows[r] \in RowType
             /\ [rows[r] EXCEPT !.due = TRUE] \in RowType
             /\ \A b \in BOOLEAN : [rows[r] EXCEPT !.expired = b] \in RowType
             /\ \A n \in Nat : [rows[r] EXCEPT !.status = "pending", !.source = n] \in RowType
             /\ \A w \in Workers : [rows[r] EXCEPT !.status = "claimed", !.token = w,
                                                   !.expired = FALSE] \in RowType
             /\ \A n \in Nat : [rows[r] EXCEPT !.status = "completed", !.expired = FALSE,
                                               !.token = "none", !.sha = n] \in RowType
             /\ [rows[r] EXCEPT !.status = "failed", !.expired = FALSE,
                                !.token = "none", !.due = FALSE] \in RowType
  <2>1. rows[r] \in RowType
    BY DEF ArchiveTypeOK
  <2> QED BY <2>1 DEF RowType
<1>1. ASSUME NEW r \in Roots,
             \/ FinishTree(r) \/ ReviveTree(r) \/ GainHook(r) \/ HookRetentionEnds(r)
             \/ RetryDue(r) \/ LeaseEnds(r) \/ RestoreArchive(r)
      PROVE  ArchiveTypeOK'
  <2>1. CASE FinishTree(r) \/ ReviveTree(r)
    <3>1. version[r] + 1 \in Nat \ {0} /\ clock + 1 \in Nat
      BY DEF ArchiveTypeOK
    <3> QED BY <2>1, <3>1 DEF ArchiveTypeOK, FinishTree, ReviveTree
  <2>2. CASE RetryDue(r) \/ LeaseEnds(r)
    <3>1. \E row \in RowType : rows' = [rows EXCEPT ![r] = row]
      BY <1>r, <2>2 DEF RetryDue, LeaseEnds
    <3> QED BY <2>2, <3>1 DEF ArchiveTypeOK, RetryDue, LeaseEnds, world
  <2>3. CASE GainHook(r) \/ HookRetentionEnds(r) \/ RestoreArchive(r)
    BY <2>3 DEF ArchiveTypeOK, GainHook, HookRetentionEnds, RestoreArchive, world
  <2> QED BY <1>1, <2>1, <2>2, <2>3
<1>2. ASSUME NEW w \in Workers, ScanPage(w) \/ RecordDiscovery(w) PROVE ArchiveTypeOK'
  <2>1. CASE ScanPage(w)
    <3>1. {Key(r) : r \in Candidates} \in SUBSET (Nat \X Roots)
      <4>1. Candidates \subseteq Roots
        BY DEF Candidates, Eligible
      <4>2. \A r \in Roots : Key(r) \in Nat \X Roots
        BY DEF Key, ArchiveTypeOK
      <4> QED BY <4>1, <4>2
    <3>2. workers' \in [Workers -> WorkerType]
      BY <2>1, <3>1 DEF ScanPage, Go, WorkerType, ArchiveTypeOK
    <3> QED BY <2>1, <3>2 DEF ScanPage, ArchiveTypeOK, world
  <2>2. CASE RecordDiscovery(w)
    <3> DEFINE page == workers[w].page
    <3>1. page \in SUBSET (Nat \X Roots)
      BY <1>t, <2>2 DEF RecordDiscovery
    <3>2. ASSUME NEW r \in Roots PROVE rows'[r] \in RowType
      <4>1. CASE rows[r].status = "none" /\ \E k \in page : k[2] = r
        <5>1. (CHOOSE k \in page : k[2] = r) \in page
          BY <4>1
        <5>2. (CHOOSE k \in page : k[2] = r)[1] \in Nat
          BY <3>1, <5>1
        <5>3. rows'[r] = [rows[r] EXCEPT !.status = "pending",
                                         !.source = (CHOOSE k \in page : k[2] = r)[1]]
          BY <2>2, <4>1 DEF RecordDiscovery
        <5> HIDE DEF page
        <5> QED BY ZenonT(60), <1>r, <5>2, <5>3
      <4>2. CASE ~ (rows[r].status = "none" /\ \E k \in page : k[2] = r)
        BY <2>2, <4>2 DEF RecordDiscovery, ArchiveTypeOK
      <4> QED BY <4>1, <4>2
    <3>3. rows' \in [Roots -> RowType]
      <4>1. rows' = [r \in Roots |-> rows'[r]]
        BY <2>2 DEF RecordDiscovery
      <4> QED BY <3>2, <4>1
    <3>4. workers' \in [Workers -> WorkerType]
      BY <2>2, ArchiveConstants DEF RecordDiscovery, Go, WorkerType, ArchiveTypeOK
    <3> QED BY <2>2, <3>3, <3>4 DEF RecordDiscovery, ArchiveTypeOK, world
  <2> QED BY <1>2, <2>1, <2>2
<1>3. ASSUME NEW w \in Workers, ClaimNext(w) PROVE ArchiveTypeOK'
  <2>1. CASE Claimable = {} \/ workers[w].left = 0
    BY <1>3, <2>1 DEF ClaimNext, Go, WorkerType, ArchiveTypeOK, world
  <2>2. CASE ~ (Claimable = {} \/ workers[w].left = 0)
    <3>1. NextClaim \in Roots
      BY <2>2, NextClaimReady DEF ArchiveTypeOK
    <3>2. workers[w].left - 1 \in Nat
      BY <1>t, <1>3, <2>2 DEF ClaimNext
    <3>3. workers' \in [Workers -> WorkerType]
      BY <1>3, <2>2, <3>1, <3>2 DEF ClaimNext, Go, WorkerType, AttemptPhases, ArchiveTypeOK
    <3>4. rows' \in [Roots -> RowType]
      <4>1. \E row \in RowType : rows' = [rows EXCEPT ![NextClaim] = row]
        BY <1>r, <1>3, <2>2, <3>1 DEF ClaimNext
      <4> QED BY <4>1 DEF ArchiveTypeOK
    <3> QED BY <1>3, <3>3, <3>4 DEF ClaimNext, ArchiveTypeOK, world
  <2> QED BY <2>1, <2>2
<1>4. ASSUME NEW w \in Workers,
             \/ ExportTree(w) \/ CheckObject(w) \/ PutObject(w) \/ VerifyArchive(w)
             \/ CommitArchive(w) \/ FailArchive(w) \/ CallFails(w)
             \/ WorkerDies(w) \/ Renew(w)
      PROVE  ArchiveTypeOK'
  <2>1. CASE ExportTree(w) \/ CheckObject(w) \/ VerifyArchive(w)
    <3>1. /\ workers[w].phase \in AttemptPhases
          /\ \/ \E p \in AttemptPhases : Go(w, Phase(w, p))
             \/ Go(w, [Phase(w, "exported") EXCEPT !.sha = version[workers[w].root]])
      BY <2>1 DEF ExportTree, CheckObject, VerifyArchive, AttemptPhases
    <3>2. workers' \in [Workers -> WorkerType]
      <4>1. \A p \in AttemptPhases : Phase(w, p) \in WorkerType
        BY <1>t, <3>1 DEF Phase, WorkerType, AttemptPhases
      <4>2. version[workers[w].root] \in Nat
        BY <1>t, <3>1 DEF ArchiveTypeOK
      <4>3. [Phase(w, "exported") EXCEPT !.sha = version[workers[w].root]] \in WorkerType
        BY <1>t, <3>1, <4>2 DEF Phase, WorkerType, AttemptPhases
      <4> QED BY <3>1, <4>1, <4>3 DEF Go, ArchiveTypeOK
    <3> QED BY <2>1, <3>2 DEF ExportTree, CheckObject, VerifyArchive, ArchiveTypeOK, world
  <2>2. CASE PutObject(w)
    <3>1. workers' \in [Workers -> WorkerType]
      BY <1>t, <2>2 DEF PutObject, Go, Phase, WorkerType, AttemptPhases, ArchiveTypeOK
    <3>2. objects' \in [Roots -> Nat]
      BY <1>t, <2>2 DEF PutObject, AttemptPhases, ArchiveTypeOK, Torn, LateTorn
    <3> QED BY <2>2, <3>1, <3>2 DEF PutObject, ArchiveTypeOK, world
  <2>3. CASE CommitArchive(w) \/ FailArchive(w)
    <3>1. workers' \in [Workers -> WorkerType]
      BY <1>t, <2>3 DEF CommitArchive, FailArchive, Go, Phase, Claiming, WorkerType,
         AttemptPhases, ArchiveTypeOK
    <3>2. rows' \in [Roots -> RowType]
      <4>1. workers[w].root \in Roots /\ workers[w].sha \in Nat
        BY <1>t, <2>3 DEF CommitArchive, FailArchive, AttemptPhases
      <4>2. \/ UNCHANGED rows
            \/ \E row \in RowType : rows' = [rows EXCEPT ![workers[w].root] = row]
        <5>1. CASE CommitArchive(w)
          BY <1>r, <4>1, <5>1 DEF CommitArchive
        <5>2. CASE FailArchive(w)
          BY <1>r, <4>1, <5>2 DEF FailArchive
        <5> QED BY <2>3, <5>1, <5>2
      <4> QED BY <4>2 DEF ArchiveTypeOK
    <3> QED BY <2>3, <3>1, <3>2 DEF CommitArchive, FailArchive, ArchiveTypeOK, world
  <2>4. CASE CallFails(w) \/ WorkerDies(w)
    <3>1. workers' \in [Workers -> WorkerType]
      BY <1>t, <2>4 DEF CallFails, WorkerDies, Attempting, Go, Phase, Claiming, WorkerType,
         AttemptPhases, ArchiveTypeOK
    <3> QED BY <2>4, <3>1 DEF CallFails, WorkerDies, ArchiveTypeOK, world
  <2>5. CASE Renew(w)
    <3>1. workers[w].root \in Roots
      BY <1>t, <2>5 DEF Renew, Attempting, AttemptPhases
    <3>2. \E row \in RowType : rows' = [rows EXCEPT ![workers[w].root] = row]
      BY <1>r, <2>5, <3>1 DEF Renew
    <3> QED BY <2>5, <3>2 DEF Renew, ArchiveTypeOK, world
  <2> QED BY <1>4, <2>1, <2>2, <2>3, <2>4, <2>5
<1>5. CASE UNCHANGED vars
  BY <1>5 DEF ArchiveTypeOK, vars, world
<1> QED BY <1>1, <1>2, <1>3, <1>4, <1>5 DEF Next, WorkerStep

-----------------------------------------------------------------------------
(* The invariant.                                                           *)

Carrying == {"exported", "putting", "put", "verified"}

(* No object and no row of an archive at the start.                         *)
LEMMA ArchiveInit == Init => AllHonest /\ AllRecorded /\ RestoredKept
  BY DEF Init, AllHonest, Honest, AllRecorded, Recorded, RestoredKept, Idle, Empty

(* The steps that neither put, verify nor commit: they change no snapshot   *)
(* of a row, complete no row and give nobody a claim he did not have.       *)
LEMMA QuietStep ==
    ASSUME ArchiveInv,
           UNCHANGED <<version, objects, restored>>,
           \A r \in Roots : /\ rows'[r].sha = rows[r].sha
                            /\ rows'[r].status = "completed" <=> rows[r].status = "completed",
           \A w \in Workers :
               /\ workers'[w].phase \in Carrying =>
                     Whole(workers'[w].sha) /\ workers'[w].sha <= version[workers'[w].root]
               /\ workers'[w].phase = "verified" =>
                     workers'[w] = workers[w] /\ (Owns(w)' => Owns(w))
    PROVE  AllHonest' /\ AllRecorded' /\ RestoredKept'
<1>1. ASSUME NEW w \in Workers PROVE Honest(w)'
  BY DEF ArchiveInv, AllHonest, Honest, Carrying, Whole
<1>2. ASSUME NEW r \in Roots PROVE Recorded(r)'
  BY DEF ArchiveInv, AllRecorded, Recorded, Whole
<1>3. RestoredKept'
  BY DEF ArchiveInv, RestoredKept
<1> QED BY <1>1, <1>2, <1>3 DEF AllHonest, AllRecorded

(* A tree that ends for the first time has nothing exported from it.        *)
LEMMA TreeStep ==
    ASSUME ArchiveInv, NEW r \in Roots, FinishTree(r) \/ ReviveTree(r)
    PROVE  AllHonest' /\ AllRecorded' /\ RestoredKept'
<1>t. /\ \A q \in Roots : version[q] \in Nat \ {0} /\ rows[q].sha \in Nat
      /\ \A w \in Workers : workers[w].phase \in AttemptPhases =>
                               workers[w].root \in Roots /\ workers[w].sha \in Nat
  BY AttemptTypes DEF ArchiveInv, ArchiveTypeOK, RowType
<1>1. UNCHANGED <<rows, objects, workers, restored>>
  BY DEF FinishTree, ReviveTree
<1>2. \A q \in Roots : version[q] <= version'[q] /\ (version'[q] = 2 => version[q] \in {1, 2})
  BY <1>t DEF FinishTree, ReviveTree, ArchiveInv, ArchiveTypeOK
<1>3. \A s \in Nat : ~ (Whole(s) /\ s <= 1)
  BY DEF Whole
<1>4. ASSUME NEW w \in Workers PROVE Honest(w)'
  <2>1. CASE workers[w].phase \notin Carrying
    BY <1>1, <2>1 DEF Honest, Carrying
  <2>2. CASE workers[w].phase \in Carrying
    <3> DEFINE q == workers[w].root
               s == workers[w].sha
    <3>1. q \in Roots /\ s \in Nat /\ Whole(s) /\ s <= version[q]
      BY <1>t, <2>2 DEF Carrying, AttemptPhases, ArchiveInv, AllHonest, Honest
    <3>2. s <= version'[q] /\ (version'[q] = 2 => version[q] = 2)
      <4>1. version[q] # 1
        BY <1>3, <3>1
      <4>2. version[q] \in Nat /\ version'[q] \in Nat
        BY <1>t, <3>1 DEF FinishTree, ReviveTree, ArchiveInv, ArchiveTypeOK
      <4> HIDE DEF q, s
      <4> QED BY <1>2, <3>1, <4>1, <4>2
    <3>3. Owns(w)' <=> Owns(w)
      BY <1>1 DEF Owns
    <3> QED BY <1>1, <3>1, <3>2, <3>3 DEF ArchiveInv, AllHonest, Honest
  <2> QED BY <2>1, <2>2
<1>5. ASSUME NEW q \in Roots PROVE Recorded(q)'
  <2>1. rows[q].status = "completed" =>
            rows[q].sha <= version'[q] /\ (version'[q] = 2 => version[q] = 2)
    <3> SUFFICES ASSUME rows[q].status = "completed"
                 PROVE  rows[q].sha <= version'[q] /\ (version'[q] = 2 => version[q] = 2)
      OBVIOUS
    <3>1. Whole(rows[q].sha) /\ rows[q].sha <= version[q]
      BY DEF ArchiveInv, AllRecorded, Recorded
    <3>2. version[q] # 1
      BY <1>t, <1>3, <3>1
    <3>3. version[q] \in Nat /\ version'[q] \in Nat
      BY <1>t DEF FinishTree, ReviveTree, ArchiveInv, ArchiveTypeOK
    <3> QED BY <1>t, <1>2, <3>1, <3>2, <3>3
  <2> QED BY <1>1, <2>1 DEF ArchiveInv, AllRecorded, Recorded
<1>6. RestoredKept'
  BY <1>1 DEF ArchiveInv, RestoredKept
<1> QED BY <1>4, <1>5, <1>6 DEF AllHonest, AllRecorded

(* A put replaces nothing that counts: the owner of the claim has not read  *)
(* back yet, and a late one puts the same snapshot, or one nobody counts.   *)
LEMMA PutStep ==
    ASSUME ArchiveInv, NEW w \in Workers, PutObject(w)
    PROVE  AllHonest' /\ AllRecorded' /\ RestoredKept'
<1> DEFINE r == workers[w].root
           s == workers[w].sha
<1>t. /\ \A q \in Roots : version[q] \in Nat \ {0}
      /\ \A v \in Workers : workers[v].phase \in AttemptPhases =>
                               /\ workers[v].root \in Roots /\ workers[v].sha \in Nat
                               /\ Phase(v, "put").root = workers[v].root
                               /\ Phase(v, "put").sha = workers[v].sha
                               /\ Phase(v, "put").phase = "put"
  BY AttemptTypes DEF ArchiveInv, ArchiveTypeOK, Phase
<1>1. UNCHANGED <<version, rows, restored>>
  BY DEF PutObject, world
<1>2. /\ r \in Roots /\ s \in Nat /\ Whole(s) /\ s <= version[r]
      /\ workers[w].phase = "putting"
  BY <1>t DEF PutObject, AttemptPhases, ArchiveInv, AllHonest, Honest
<1>3. /\ workers'[w] = Phase(w, "put")
      /\ \A v \in Workers \ {w} : workers'[v] = workers[v]
  BY DEF PutObject, Go, ArchiveInv, ArchiveTypeOK
<1>4. /\ \A q \in Roots : q # r => objects'[q] = objects[q]
      /\ objects'[r] \in {s, IF Owns(w) THEN Torn ELSE LateTorn}
  BY <1>2 DEF PutObject, ArchiveInv, ArchiveTypeOK
<1>5. \A n \in Nat : Whole(n) /\ n <= 2 => n = 2
  BY DEF Whole
<1> HIDE DEF r, s
<1>6. version[r] = 2 => s = 2
  BY <1>2, <1>5
<1>7. ASSUME NEW v \in Workers PROVE Honest(v)'
  <2>1. CASE v = w
    BY <1>t, <1>1, <1>2, <1>3, <2>1 DEF Honest, AttemptPhases, r, s
  <2>2. CASE v # w
    <3>1. workers'[v] = workers[v] /\ (Owns(v)' <=> Owns(v))
      BY <1>1, <1>3, <2>2 DEF Owns
    <3>2. CASE workers[v].phase = "verified" /\ Owns(v) /\ workers[v].root = r /\ version[r] = 2
      <4>1. ~ Owns(w)
        BY <1>2, <2>2, <3>2 DEF Owns, r
      <4>2. workers[v].sha = 2
        <5>1. workers[v].sha \in Nat /\ Whole(workers[v].sha) /\ workers[v].sha <= 2
          BY <1>t, <3>2 DEF ArchiveInv, AllHonest, Honest, AttemptPhases
        <5> QED BY <1>5, <5>1
      <4>3. objects'[r] \in {2, LateTorn}
        BY <1>4, <1>6, <3>2, <4>1
      <4> QED BY <1>1, <3>1, <3>2, <4>2, <4>3 DEF ArchiveInv, AllHonest, Honest
    <3>3. CASE ~ (workers[v].phase = "verified" /\ Owns(v) /\ workers[v].root = r /\ version[r] = 2)
      <4>1. workers[v].phase = "verified" => workers[v].root \in Roots
        BY <1>t DEF AttemptPhases
      <4> QED BY <1>1, <1>4, <3>1, <3>3, <4>1 DEF ArchiveInv, AllHonest, Honest
    <3> QED BY <3>2, <3>3
  <2> QED BY <2>1, <2>2
<1>8. ASSUME NEW q \in Roots PROVE Recorded(q)'
  <2>1. CASE rows[q].status = "completed" /\ q = r /\ version[r] = 2
    <3>1. ~ Owns(w)
      BY <2>1 DEF Owns, r
    <3>2. rows[q].sha = 2
      <4>1. rows[q].sha \in Nat /\ Whole(rows[q].sha) /\ rows[q].sha <= 2
        BY <2>1 DEF ArchiveInv, AllRecorded, Recorded, ArchiveTypeOK, RowType
      <4> QED BY <1>5, <4>1
    <3>3. objects'[r] \in {2, LateTorn}
      BY <1>4, <1>6, <2>1, <3>1
    <3> QED BY <1>1, <2>1, <3>2, <3>3 DEF ArchiveInv, AllRecorded, Recorded
  <2>2. CASE ~ (rows[q].status = "completed" /\ q = r /\ version[r] = 2)
    BY <1>1, <1>4, <2>2 DEF ArchiveInv, AllRecorded, Recorded
  <2> QED BY <2>1, <2>2
<1>9. RestoredKept'
  BY <1>1 DEF ArchiveInv, RestoredKept
<1> QED BY <1>7, <1>8, <1>9 DEF AllHonest, AllRecorded

(* A verified attempt has read its own snapshot back.                       *)
LEMMA VerifyStep ==
    ASSUME ArchiveInv, NEW w \in Workers, VerifyArchive(w)
    PROVE  AllHonest' /\ AllRecorded' /\ RestoredKept'
<1>1. UNCHANGED <<version, rows, objects, restored>>
  BY DEF VerifyArchive, world
<1>2. /\ workers[w].phase = "put"
      /\ workers[w] \in [phase : AttemptPhases, root : Roots, sha : Nat, left : Nat]
      /\ Whole(workers[w].sha) /\ workers[w].sha <= version[workers[w].root]
  BY AttemptTypes DEF VerifyArchive, ArchiveInv, ArchiveTypeOK, AttemptPhases, AllHonest, Honest
<1>3. /\ \A v \in Workers \ {w} : workers'[v] = workers[v]
      /\ workers'[w].root = workers[w].root /\ workers'[w].sha = workers[w].sha
      /\ workers'[w].phase = "verified" => objects[workers[w].root] = workers[w].sha
  BY <1>2 DEF VerifyArchive, Go, Phase, ArchiveInv, ArchiveTypeOK
<1>4. ASSUME NEW v \in Workers PROVE Honest(v)'
  <2>1. CASE v = w
    BY <1>1, <1>2, <1>3, <2>1 DEF Honest
  <2>2. CASE v # w
    <3>1. workers'[v] = workers[v] /\ (Owns(v)' <=> Owns(v))
      BY <1>1, <1>3, <2>2 DEF Owns
    <3> QED BY <1>1, <3>1 DEF ArchiveInv, AllHonest, Honest
  <2> QED BY <2>1, <2>2
<1>5. AllRecorded' /\ RestoredKept'
  BY <1>1 DEF ArchiveInv, AllRecorded, Recorded, RestoredKept
<1> QED BY <1>4, <1>5 DEF AllHonest

(* A commit needs the claim, so that what it records has stayed in place.   *)
LEMMA CommitStep ==
    ASSUME ArchiveInv, NEW w \in Workers, CommitArchive(w)
    PROVE  AllHonest' /\ AllRecorded' /\ RestoredKept'
<1> DEFINE r == workers[w].root
<1>1. UNCHANGED <<version, objects, restored>>
  BY DEF CommitArchive, world
<1>2. /\ workers[w].phase = "verified"
      /\ workers[w] \in [phase : AttemptPhases, root : Roots, sha : Nat, left : Nat]
      /\ Whole(workers[w].sha) /\ workers[w].sha <= version[r]
      /\ r \in Roots
  BY AttemptTypes DEF CommitArchive, ArchiveInv, ArchiveTypeOK, AttemptPhases, AllHonest, Honest
<1>3. /\ \A v \in Workers \ {w} : workers'[v] = workers[v]
      /\ workers'[w].phase \in {"claiming", "failing"}
  BY <1>2 DEF CommitArchive, Go, Phase, Claiming, ArchiveInv, ArchiveTypeOK
<1>4. CASE ~ Owns(w)
  <2>1. UNCHANGED rows
    BY <1>4 DEF CommitArchive
  <2>2. \A v \in Workers : workers'[v].phase \in Carrying => workers'[v] = workers[v]
    BY <1>3 DEF Carrying
  <2>3. ASSUME NEW v \in Workers
        PROVE  /\ workers'[v].phase \in Carrying =>
                     Whole(workers'[v].sha) /\ workers'[v].sha <= version[workers'[v].root]
               /\ workers'[v].phase = "verified" =>
                     workers'[v] = workers[v] /\ (Owns(v)' => Owns(v))
    BY <2>1, <2>2 DEF ArchiveInv, AllHonest, Honest, Carrying, Owns
  <2> QED BY <1>1, <2>1, <2>3, QuietStep
<1>5. CASE Owns(w)
  <2>1. rows' = [rows EXCEPT ![r] =
                    [@ EXCEPT !.status = "completed", !.expired = FALSE,
                              !.token = "none", !.sha = workers[w].sha]]
    BY <1>5 DEF CommitArchive
  <2>2. /\ \A q \in Roots : q # r => rows'[q] = rows[q]
        /\ rows'[r].status = "completed" /\ rows'[r].sha = workers[w].sha
    BY <1>2, <2>1 DEF ArchiveInv, ArchiveTypeOK, RowType
  <2>3. rows[r].status = "claimed"
    BY <1>5 DEF Owns
  <2> HIDE DEF r
  <2>4. ASSUME NEW v \in Workers PROVE Honest(v)'
    <3>1. CASE v = w
      BY <1>3, <3>1 DEF Honest
    <3>2. CASE v # w
      <4>1. workers'[v] = workers[v] /\ (workers[v].phase = "verified" => workers[v].root \in Roots)
        BY <1>3, <3>2, AttemptTypes DEF ArchiveInv, ArchiveTypeOK, AttemptPhases
      <4>2. workers[v].phase = "verified" /\ Owns(v)' => Owns(v)
        BY <2>2, <4>1 DEF Owns
      <4> QED BY <1>1, <4>1, <4>2 DEF ArchiveInv, AllHonest, Honest
    <3> QED BY <3>1, <3>2
  <2>5. ASSUME NEW q \in Roots PROVE Recorded(q)'
    <3>1. CASE q = r
      <4>1. version[r] = 2 => objects[r] \in {workers[w].sha, LateTorn}
        BY <1>2, <1>5 DEF ArchiveInv, AllHonest, Honest, r
      <4> QED BY <1>1, <1>2, <2>2, <3>1, <4>1 DEF Recorded, Whole
    <3>2. CASE q # r
      BY <1>1, <2>2, <3>2 DEF ArchiveInv, AllRecorded, Recorded
    <3> QED BY <3>1, <3>2
  <2>6. RestoredKept'
    BY <1>1, <2>2, <2>3 DEF ArchiveInv, RestoredKept
  <2> QED BY <2>4, <2>5, <2>6 DEF AllHonest, AllRecorded
<1> QED BY <1>4, <1>5

(* Every step keeps the invariant.                                          *)
LEMMA ArchiveStep == ArchiveInv /\ [Next]_vars => AllHonest' /\ AllRecorded' /\ RestoredKept'
<1> SUFFICES ASSUME ArchiveInv, [Next]_vars PROVE AllHonest' /\ AllRecorded' /\ RestoredKept'
  OBVIOUS
<1>t. /\ \A w \in Workers :
             workers[w].phase \in AttemptPhases =>
                 /\ workers[w] \in [phase : AttemptPhases, root : Roots, sha : Nat, left : Nat]
                 /\ workers[w].root \in Roots
      /\ \A r \in Roots : rows[r] \in RowType /\ version[r] \in Nat \ {0}
  BY AttemptTypes DEF ArchiveInv, ArchiveTypeOK
<1>h. \A w \in Workers :
          workers[w].phase \in Carrying =>
              Whole(workers[w].sha) /\ workers[w].sha <= version[workers[w].root]
  BY DEF ArchiveInv, AllHonest, Honest, Carrying
<1>1. ASSUME NEW r \in Roots,
             \/ GainHook(r) \/ HookRetentionEnds(r) \/ RetryDue(r) \/ LeaseEnds(r)
      PROVE  AllHonest' /\ AllRecorded' /\ RestoredKept'
  <2>1. UNCHANGED <<version, objects, restored, workers>>
    BY <1>1 DEF GainHook, HookRetentionEnds, RetryDue, LeaseEnds, world
  <2>2. \A q \in Roots : /\ rows'[q].sha = rows[q].sha
                         /\ rows'[q].status = rows[q].status
                         /\ rows'[q].token = rows[q].token
    BY <1>t, <1>1 DEF GainHook, HookRetentionEnds, RetryDue, LeaseEnds, RowType,
       ArchiveInv, ArchiveTypeOK
  <2>3. \A w \in Workers : workers[w].phase = "verified" /\ Owns(w)' => Owns(w)
    BY <1>t, <2>1, <2>2 DEF Owns, AttemptPhases
  <2> QED BY <1>h, <2>1, <2>2, <2>3, QuietStep
<1>2. ASSUME NEW r \in Roots, RestoreArchive(r)
      PROVE  AllHonest' /\ AllRecorded' /\ RestoredKept'
  <2>1. UNCHANGED <<version, rows, objects, workers>>
    BY <1>2 DEF RestoreArchive, world
  <2>2. RestoredKept'
    BY <1>2, <2>1 DEF RestoreArchive, Downloadable, RestoredKept
  <2>3. AllHonest' /\ AllRecorded'
    BY <2>1 DEF ArchiveInv, AllHonest, Honest, Owns, AllRecorded, Recorded
  <2> QED BY <2>2, <2>3
<1>3. ASSUME NEW w \in Workers,
             UNCHANGED <<version, objects, restored>>,
             workers' = [workers EXCEPT ![w] = workers'[w]],
             \/ workers'[w].phase \notin Carrying
             \/ /\ workers'[w].phase \in {"exported", "putting", "put"}
                /\ Whole(workers'[w].sha) /\ workers'[w].sha <= version[workers'[w].root],
             \A r \in Roots : /\ rows'[r].sha = rows[r].sha
                              /\ rows'[r].status = "completed" <=> rows[r].status = "completed"
                              /\ \/ rows'[r].token = w
                                 \/ rows'[r].status # "claimed"
                                 \/ rows'[r].status = rows[r].status /\ rows'[r].token = rows[r].token
      PROVE  AllHonest' /\ AllRecorded' /\ RestoredKept'
  <2>1. \A v \in Workers : v # w => workers'[v] = workers[v]
    BY <1>3 DEF ArchiveInv, ArchiveTypeOK
  <2>2. ASSUME NEW v \in Workers, workers'[v].phase = "verified"
        PROVE  workers'[v] = workers[v] /\ (Owns(v)' => Owns(v))
    <3>1. v # w
      BY <1>3, <2>2 DEF Carrying
    <3>2. workers'[v] = workers[v] /\ workers[v].root \in Roots
      BY <1>t, <2>1, <2>2, <3>1 DEF AttemptPhases
    <3> QED BY <1>3, <3>1, <3>2 DEF Owns
  <2>3. \A v \in Workers : workers'[v].phase \in Carrying =>
            Whole(workers'[v].sha) /\ workers'[v].sha <= version[workers'[v].root]
    BY <1>3, <1>h, <2>1
  <2> QED BY <1>3, <2>2, <2>3, QuietStep
<1>4. ASSUME NEW w \in Workers,
             \/ ScanPage(w) \/ CallFails(w) \/ WorkerDies(w)
             \/ ExportTree(w) \/ CheckObject(w)
      PROVE  AllHonest' /\ AllRecorded' /\ RestoredKept'
  <2>1. UNCHANGED <<version, objects, restored, rows>>
    BY <1>4 DEF ScanPage, CallFails, WorkerDies, ExportTree, CheckObject, world
  <2>2. workers' = [workers EXCEPT ![w] = workers'[w]]
    BY <1>4 DEF ScanPage, CallFails, WorkerDies, ExportTree, CheckObject, Go,
       ArchiveInv, ArchiveTypeOK
  <2>3. \/ workers'[w].phase \notin Carrying
        \/ /\ workers'[w].phase \in {"exported", "putting", "put"}
           /\ Whole(workers'[w].sha) /\ workers'[w].sha <= version[workers'[w].root]
    <3>1. CASE ScanPage(w) \/ WorkerDies(w)
      BY <3>1 DEF ScanPage, WorkerDies, Go, Idle, Carrying, ArchiveInv, ArchiveTypeOK
    <3>2. CASE CallFails(w)
      BY <1>t, <3>2 DEF CallFails, Attempting, Go, Phase, Claiming, Carrying, AttemptPhases,
         ArchiveInv, ArchiveTypeOK
    <3>3. CASE ExportTree(w)
      <4>1. /\ workers[w] \in [phase : AttemptPhases, root : Roots, sha : Nat, left : Nat]
            /\ workers[w].root \in Roots
        BY <1>t, <3>3 DEF ExportTree, AttemptPhases
      <4>2. CASE Live(workers[w].root)
        BY <3>3, <4>1, <4>2 DEF ExportTree, Go, Phase, Carrying, ArchiveInv, ArchiveTypeOK
      <4>3. CASE ~ Live(workers[w].root)
        <5>1. version[workers[w].root] \in Nat \ {0} /\ version[workers[w].root] % 2 # 1
          BY <1>t, <4>1, <4>3 DEF Live
        <5>2. Whole(version[workers[w].root])
          BY <5>1 DEF Whole
        <5>3. /\ workers'[w].root = workers[w].root /\ workers'[w].phase = "exported"
              /\ workers'[w].sha = version[workers[w].root]
          BY <3>3, <4>1, <4>3 DEF ExportTree, Go, Phase, ArchiveInv, ArchiveTypeOK
        <5> QED BY <5>1, <5>2, <5>3
      <4> QED BY <4>2, <4>3
    <3>4. CASE CheckObject(w)
      <4>1. /\ workers[w] \in [phase : AttemptPhases, root : Roots, sha : Nat, left : Nat]
            /\ Whole(workers[w].sha) /\ workers[w].sha <= version[workers[w].root]
        BY <1>t, <1>h, <3>4 DEF CheckObject, AttemptPhases, Carrying
      <4> QED BY <3>4, <4>1 DEF CheckObject, Go, Phase, ArchiveInv, ArchiveTypeOK
    <3> QED BY <1>4, <3>1, <3>2, <3>3, <3>4
  <2> QED BY <1>3, <2>1, <2>2, <2>3
<1>5. ASSUME NEW w \in Workers,
             RecordDiscovery(w) \/ ClaimNext(w) \/ FailArchive(w) \/ Renew(w)
      PROVE  AllHonest' /\ AllRecorded' /\ RestoredKept'
  <2>1. UNCHANGED <<version, objects, restored>>
    BY <1>5 DEF RecordDiscovery, ClaimNext, FailArchive, Renew, world
  <2>2. CASE Renew(w)
    <3>1. UNCHANGED workers
      BY <2>2 DEF Renew
    <3>2. \A r \in Roots : /\ rows'[r].sha = rows[r].sha
                           /\ rows'[r].status = rows[r].status
                           /\ rows'[r].token = rows[r].token
      BY <1>t, <2>2 DEF Renew, RowType, ArchiveInv, ArchiveTypeOK
    <3>3. \A v \in Workers : workers[v].phase = "verified" /\ Owns(v)' => Owns(v)
      BY <1>t, <3>1, <3>2 DEF Owns, AttemptPhases
    <3> QED BY <1>h, <2>1, <3>1, <3>2, <3>3, QuietStep
  <2>3. CASE RecordDiscovery(w) \/ ClaimNext(w) \/ FailArchive(w)
    <3>1. workers' = [workers EXCEPT ![w] = workers'[w]] /\ workers'[w].phase \notin Carrying
      <4>1. \/ Go(w, Idle)
            \/ Go(w, [phase |-> "claiming", left |-> PassSize])
            \/ Go(w, Claiming(w))
            \/ \E r, n : Go(w, [phase |-> "claimed", root |-> r, sha |-> 0, left |-> n])
        <5>1. ClaimNext(w) => \/ Go(w, Idle)
                              \/ \E r, n : Go(w, [phase |-> "claimed", root |-> r, sha |-> 0,
                                                  left |-> n])
          BY Zenon DEF ClaimNext
        <5> QED BY <2>3, <5>1 DEF RecordDiscovery, FailArchive
      <4> QED BY <4>1 DEF Go, Idle, Claiming, Carrying, ArchiveInv, ArchiveTypeOK
    <3>2. ASSUME NEW r \in Roots
          PROVE  /\ rows'[r].sha = rows[r].sha
                 /\ rows'[r].status = "completed" <=> rows[r].status = "completed"
                 /\ \/ rows'[r].token = w
                    \/ rows'[r].status # "claimed"
                    \/ rows'[r].status = rows[r].status /\ rows'[r].token = rows[r].token
      <4>1. CASE rows'[r] = rows[r]
        BY <4>1
      <4>2. CASE rows'[r] # rows[r] /\ RecordDiscovery(w)
        <5>1. PICK n : /\ rows'[r] = [rows[r] EXCEPT !.status = "pending", !.source = n]
                       /\ rows[r].status = "none"
          BY <4>2 DEF RecordDiscovery
        <5> QED BY <1>t, <5>1 DEF RowType
      <4>3. CASE rows'[r] # rows[r] /\ ClaimNext(w)
        <5>1. Claimable # {} /\ r = NextClaim
          BY <4>3 DEF ClaimNext, ArchiveInv, ArchiveTypeOK
        <5>2. NextClaim \in Claimable
          BY <5>1, NextClaimReady DEF ArchiveInv, ArchiveTypeOK
        <5>3. rows[r].status # "completed"
          BY <5>1, <5>2 DEF Claimable
        <5>4. rows'[r] = [rows[r] EXCEPT !.status = "claimed", !.token = w, !.expired = FALSE]
          BY <4>3, <5>1 DEF ClaimNext, ArchiveInv, ArchiveTypeOK
        <5> QED BY <1>t, <5>3, <5>4 DEF RowType
      <4>4. CASE rows'[r] # rows[r] /\ FailArchive(w)
        <5>1. Owns(w) /\ r = workers[w].root
          BY <4>4 DEF FailArchive, ArchiveInv, ArchiveTypeOK
        <5>2. rows'[r] = [rows[r] EXCEPT !.status = "failed", !.expired = FALSE,
                                         !.token = "none", !.due = FALSE]
          BY <4>4, <5>1 DEF FailArchive, ArchiveInv, ArchiveTypeOK
        <5> QED BY <1>t, <5>1, <5>2 DEF RowType, Owns
      <4> QED BY <2>3, <4>1, <4>2, <4>3, <4>4
    <3> QED BY <1>3, <2>1, <3>1, <3>2
  <2> QED BY <1>5, <2>2, <2>3
<1>6. CASE UNCHANGED vars
  BY <1>6 DEF vars, world, ArchiveInv, AllHonest, Honest, Owns, AllRecorded, Recorded, RestoredKept
<1> QED
  BY <1>1, <1>2, <1>4, <1>5, <1>6, TreeStep, PutStep, VerifyStep, CommitStep DEF Next, WorkerStep

(* The invariant holds in every state.                                      *)
LEMMA ArchiveHolds == Spec => []ArchiveInv
<1>1. Init => ArchiveInv
  BY TypeInit, ArchiveInit DEF ArchiveInv
<1>2. ArchiveInv /\ [Next]_vars => ArchiveInv'
  BY TypeStep, ArchiveStep DEF ArchiveInv
<1> QED BY <1>1, <1>2, PTL DEF Spec

-----------------------------------------------------------------------------
(* The theorems.                                                            *)

(* "The worker never archives a running/waiting Eve session": what a row    *)
(* records is a snapshot in which every member was terminal, although the   *)
(* tree may run again during and after the export.                          *)
THEOREM OnlyWholeTreesArchived == Spec => []ArchivedWhole
<1>1. ArchiveInv => ArchivedWhole
  BY DEF ArchiveInv, AllRecorded, Recorded, ArchivedWhole
<1> QED BY <1>1, ArchiveHolds, PTL

(* A completed record names an object that is there and is the record's     *)
(* snapshot, whatever the workers that have lost their claims still put,    *)
(* up to a late put that the provider tears; and a restored World is the    *)
(* snapshot its record names.                                               *)
THEOREM CompletedStaysReadable == Spec => []CompletedReadable
<1>1. ArchiveInv => CompletedReadable
  BY DEF ArchiveInv, AllRecorded, Recorded, RestoredKept, CompletedReadable
<1> QED BY <1>1, ArchiveHolds, PTL

(* A completed record is final: no claim, failure or discovery touches it,  *)
(* so that its checksum may be kept elsewhere.                              *)
THEOREM CompletedIsFinal ==
    Spec => [][\A r \in Roots : rows[r].status = "completed" =>
                 rows'[r].status = "completed" /\ rows'[r].sha = rows[r].sha]_vars
<1> DEFINE Final == \A r \in Roots : rows[r].status = "completed" =>
                       rows'[r].status = "completed" /\ rows'[r].sha = rows[r].sha
<1>1. ArchiveInv /\ [Next]_vars => [Final]_vars
  <2> SUFFICES ASSUME ArchiveInv, Next, NEW r \in Roots, rows[r].status = "completed"
               PROVE  rows'[r].status = "completed" /\ rows'[r].sha = rows[r].sha
    OBVIOUS
  <2>t. /\ \A q \in Roots : rows[q] \in RowType
        /\ rows = [q \in Roots |-> rows[q]]
    BY DEF ArchiveInv, ArchiveTypeOK
  <2>1. ASSUME NEW q \in Roots,
               \/ FinishTree(q) \/ ReviveTree(q) \/ GainHook(q) \/ HookRetentionEnds(q)
               \/ RetryDue(q) \/ LeaseEnds(q) \/ RestoreArchive(q)
        PROVE  rows'[r].status = "completed" /\ rows'[r].sha = rows[r].sha
    BY <2>t, <2>1 DEF FinishTree, ReviveTree, GainHook, HookRetentionEnds, RetryDue, LeaseEnds,
       RestoreArchive, RowType
  <2>2. ASSUME NEW w \in Workers, ClaimNext(w)
        PROVE  rows'[r].status = "completed" /\ rows'[r].sha = rows[r].sha
    <3>1. Claimable # {} => r # NextClaim
      <4>1. r \notin Claimable
        BY DEF Claimable
      <4> QED BY <4>1, NextClaimReady DEF ArchiveInv, ArchiveTypeOK
    <3> QED BY <2>t, <2>2, <3>1 DEF ClaimNext
  <2>3. ASSUME NEW w \in Workers,
               \/ WorkerStep(w) /\ ~ ClaimNext(w)
               \/ CallFails(w) \/ WorkerDies(w) \/ Renew(w)
        PROVE  rows'[r].status = "completed" /\ rows'[r].sha = rows[r].sha
    BY <2>t, <2>3 DEF WorkerStep, ScanPage, RecordDiscovery, ExportTree, CheckObject, PutObject,
       VerifyArchive, CommitArchive, FailArchive, CallFails, WorkerDies, Renew, Owns
  <2> QED BY <2>1, <2>2, <2>3 DEF Next
<1> QED BY <1>1, ArchiveHolds, PTL DEF Spec

=============================================================================
