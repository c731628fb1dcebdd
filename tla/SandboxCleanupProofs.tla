------------------------ MODULE SandboxCleanupProofs ------------------------
(***************************************************************************)
(* Theorems about the admission, the idle shutdown and the deletion of      *)
(* sandboxes (SandboxBackend, SandboxCleanup), for any number of sessions,  *)
(* steps, permits, queue places, leases, reapers, attempts and faults.      *)
(***************************************************************************)
EXTENDS SandboxCleanup, SequenceTheorems, FiniteSetTheorems, TLAPS

-----------------------------------------------------------------------------
(* The inductive invariant.                                                 *)

LeaseType == [key : Keys, object : Nat, timer : BOOLEAN,
              phase : {"admission", "creating", "failed", "live", "stopping", "released"}]

ObjectType == [key : Keys, adm : {"granted", "refused", "waiting"}, admitted : BOOLEAN,
               refs : Nat]

CallType == [phase : {"idle", "create", "stop", "holds"}, lease : Nat]

BoxType == [state : {"absent", "stopped", "running"}, id : Nat]

BackendTypes ==
    /\ permits \in Nat
    /\ active \in [Keys -> Nat]
    /\ objects \in Seq(ObjectType)
    /\ waiters \in Seq(Nat)
    /\ leases \in Seq(LeaseType)
    /\ entries \in [Keys -> Nat] /\ creations \in [Keys -> Nat]
    /\ calls \in [Callers -> CallType]
    /\ box \in [Keys -> BoxType]

(* The permit of a lease: held once, and by nobody else, from the end of    *)
(* the wait to the release.                                                 *)
LeaseInv(l) ==
    LET k == leases[l].key
        o == leases[l].object
    IN  /\ o \in DOMAIN objects /\ objects[o].key = k
        /\ leases[l].phase \in {"admission", "creating"} => creations[k] = l
        /\ leases[l].phase \in {"live", "stopping"} => entries[k] = l
        /\ leases[l].phase \in {"admission", "creating", "live", "stopping"} => active[k] = o
        /\ leases[l].phase = "admission" => objects[o].refs = 0 /\ ~ objects[o].admitted
        /\ leases[l].phase \in {"creating", "live", "stopping"} =>
               objects[o].adm = "granted" /\ objects[o].refs = 1 /\ objects[o].admitted

(* A session is in creation or has an entry, never both; its permit object  *)
(* is the one of that lease.                                                *)
KeyInv(k) ==
    /\ creations[k] # None =>
           /\ creations[k] \in DOMAIN leases /\ leases[creations[k]].key = k
           /\ leases[creations[k]].phase \in {"admission", "creating"}
           /\ entries[k] = None
    /\ entries[k] # None =>
           /\ entries[k] \in DOMAIN leases /\ leases[entries[k]].key = k
           /\ leases[entries[k]].phase \in {"live", "stopping", "released"}
    /\ active[k] # None =>
           \/ creations[k] # None
           \/ entries[k] # None /\ leases[entries[k]].phase # "released"

(* The queue holds every waiting session once.                              *)
WaitersInv ==
    /\ \A i, j \in DOMAIN waiters : waiters[i] = waiters[j] => i = j
    /\ \A i \in DOMAIN waiters :
           /\ waiters[i] \in DOMAIN objects
           /\ objects[waiters[i]].adm = "waiting"
           /\ active[objects[waiters[i]].key] = waiters[i]

Granted == {k \in Keys : active[k] # None /\ objects[active[k]].adm = "granted"}

PermitsInv ==
    /\ IsFiniteSet(Granted) /\ permits = Cardinality(Granted) /\ permits <= Limit
    /\ waiters # <<>> => permits = Limit

(* A container that runs is the one of a lease, or known to be an orphan;   *)
(* the container of a lease runs until a reaper takes it, or a stop that is *)
(* reported as failed has stopped it.                                       *)
BoxInv(k) ==
    /\ box[k].state = "running" /\ k \notin orphaned
           => entries[k] # None /\ leases[entries[k]].phase \in {"live", "stopping"}
    /\ entries[k] # None /\ leases[entries[k]].phase \in {"live", "stopping"}
           => box[k].state = "running" \/ k \in retired \cup doubtful

CallsInv == \A c \in Callers : calls[c].phase # "idle" => calls[c].lease \in DOMAIN leases

BackendInv ==
    /\ BackendTypes
    /\ \A l \in DOMAIN leases : LeaseInv(l)
    /\ \A k \in Keys : KeyInv(k)
    /\ WaitersInv
    /\ CallsInv

(* The rows of a retired session, and what the reapers know of theirs: a    *)
(* container that is missing or removed stays away, unless a create that    *)
(* was under way makes a new one.                                           *)
Gone(k) == box[k].state = "absent" \/ k \in late

ReaperType ==
    {Resting}
    \cup [phase : {"listed", "missing"}, key : Keys]
    \cup [phase : {"selected"}, key : Keys, id : Nat, exact : BOOLEAN]
    \cup [phase : {"claimed", "removed"}, key : Keys, id : Nat, exact : BOOLEAN, token : Nat]

CleanupTypes ==
    /\ deletions \in [Keys -> [status : {"none", "authorized", "claimed", "failed", "completed"},
                               attempt : Nat, expired : BOOLEAN]]
    /\ workers \in [Workers -> ReaperType]

RowInv(k) ==
    /\ deletions[k].status # "none" => k \in retired
    /\ deletions[k].status = "completed" => Gone(k)

ReaperInv(w) ==
    /\ workers[w].phase \in {"listed", "missing", "claimed", "removed"} =>
           workers[w].key \in retired /\ deletions[workers[w].key].status # "none"
    /\ workers[w].phase \in {"missing", "removed"} => Gone(workers[w].key)

SandboxInv ==
    /\ BackendInv /\ PermitsInv
    /\ \A k \in Keys : BoxInv(k)
    /\ CleanupTypes
    /\ \A k \in Keys : RowInv(k)
    /\ \A w \in Workers : ReaperInv(w)

-----------------------------------------------------------------------------
(* The backend: what one step of it preserves.                              *)

(* A step that changes no phase but between live and stopping.              *)
LEMMA QuietStep ==
    ASSUME BackendInv, PermitsInv,
           leases' \in Seq(LeaseType), DOMAIN leases' = DOMAIN leases,
           \A m \in DOMAIN leases :
               /\ leases'[m].key = leases[m].key /\ leases'[m].object = leases[m].object
               /\ \/ leases'[m].phase = leases[m].phase
                  \/ {leases'[m].phase, leases[m].phase} \subseteq {"live", "stopping"},
           UNCHANGED <<permits, active, objects, waiters, entries, creations>>,
           calls' \in [Callers -> CallType], CallsInv', box' \in [Keys -> BoxType]
    PROVE  BackendInv' /\ PermitsInv'
<1>1. BackendTypes'
  BY DEF BackendInv, BackendTypes
<1>2. ASSUME NEW m \in DOMAIN leases' PROVE LeaseInv(m)'
  BY <1>2 DEF BackendInv, LeaseInv
<1>3. ASSUME NEW k \in Keys PROVE KeyInv(k)'
  <2>1. /\ creations[k] # None => creations[k] \in DOMAIN leases
        /\ entries[k] # None => entries[k] \in DOMAIN leases
    BY DEF BackendInv, KeyInv
  <2> QED BY <2>1 DEF BackendInv, KeyInv
<1>4. WaitersInv' /\ PermitsInv'
  BY DEF BackendInv, WaitersInv, PermitsInv, Granted
<1> QED BY <1>1, <1>2, <1>3, <1>4 DEF BackendInv

(* The lease l goes on to the phase p.                                      *)
Goes(l, p) ==
    /\ leases' \in Seq(LeaseType) /\ DOMAIN leases' = DOMAIN leases
    /\ \A m \in DOMAIN leases : leases'[m].key = leases[m].key /\ leases'[m].object = leases[m].object
    /\ \A m \in DOMAIN leases : m # l => leases'[m].phase = leases[m].phase
    /\ leases'[l].phase = p

(* A lease that is given another phase, and nothing else.                   *)
LEMMA PhaseMoves ==
    ASSUME BackendTypes, NEW l \in DOMAIN leases,
           NEW p \in {"admission", "creating", "failed", "live", "stopping", "released"},
           leases' = [leases EXCEPT ![l].phase = p]
    PROVE  Goes(l, p)
<1>1. leases[l] \in LeaseType /\ leases \in Seq(LeaseType)
  BY DEF BackendTypes
<1>2. [leases[l] EXCEPT !.phase = p] \in LeaseType
  BY <1>1 DEF LeaseType
<1>3. leases' \in Seq(LeaseType)
  BY <1>1, <1>2, ExceptSeq
<1>4. leases'[l] = [leases[l] EXCEPT !.phase = p] /\ DOMAIN leases' = DOMAIN leases
      /\ \A m \in DOMAIN leases : m # l => leases'[m] = leases[m]
  BY <1>1
<1> QED BY <1>1, <1>3, <1>4 DEF Goes, LeaseType

Holding == {"admission", "creating", "live", "stopping"}

(* Two leases that may hold a permit are of different sessions and permits. *)
LEMMA SoleLease ==
    ASSUME BackendInv, NEW l \in DOMAIN leases, leases[l].phase \in Holding,
           NEW m \in DOMAIN leases, m # l, leases[m].phase \in Holding
    PROVE  leases[m].key # leases[l].key /\ leases[m].object # leases[l].object
<1>1. LeaseInv(l) /\ LeaseInv(m)
  BY DEF BackendInv
<1>2. l # None /\ m # None /\ leases[l].key \in Keys
  <2>1. leases \in Seq(LeaseType)
    BY DEF BackendInv, BackendTypes
  <2>2. leases[l] \in LeaseType /\ l # None /\ m # None
    BY <2>1 DEF None
  <2> QED BY <2>2 DEF LeaseType
<1>3. KeyInv(leases[l].key)
  BY <1>2 DEF BackendInv
<1> QED BY <1>1, <1>2, <1>3 DEF LeaseInv, KeyInv, Holding

(* The permit object of a session is the one of its lease.                  *)
LEMMA ActiveObjects ==
    ASSUME BackendInv, NEW j \in Keys, active[j] # None
    PROVE  /\ active[j] \in DOMAIN objects /\ objects[active[j]].key = j
           /\ \E m \in DOMAIN leases : /\ leases[m].key = j /\ leases[m].object = active[j]
                                      /\ leases[m].phase \in Holding
<1>1. PICK m \in DOMAIN leases : leases[m].key = j /\ leases[m].phase \in Holding
  BY DEF BackendInv, KeyInv, Holding
<1>2. LeaseInv(m)
  BY DEF BackendInv
<1> QED BY <1>1, <1>2 DEF LeaseInv, Holding

(* A lease whose permit object did not change keeps its part.               *)
LEMMA OtherLease ==
    ASSUME BackendInv, NEW m \in DOMAIN leases,
           leases'[m].key = leases[m].key, leases'[m].object = leases[m].object,
           leases'[m].phase = leases[m].phase,
           DOMAIN objects \subseteq DOMAIN objects',
           objects'[leases[m].object].key = objects[leases[m].object].key,
           leases[m].phase \in Holding =>
               /\ objects'[leases[m].object].refs = objects[leases[m].object].refs
               /\ objects'[leases[m].object].admitted = objects[leases[m].object].admitted
               /\ objects[leases[m].object].adm = "granted" =>
                      objects'[leases[m].object].adm = "granted"
               /\ creations'[leases[m].key] = creations[leases[m].key]
               /\ entries'[leases[m].key] = entries[leases[m].key]
               /\ active'[leases[m].key] = active[leases[m].key]
    PROVE  LeaseInv(m)'
<1>1. LeaseInv(m)
  BY DEF BackendInv
<1> QED BY <1>1 DEF LeaseInv, Holding

(* The await of the admission returns.                                      *)
LEMMA GrantedStep ==
    ASSUME BackendInv, PermitsInv, NEW l \in DOMAIN leases, AdmissionGranted(l)
    PROVE  BackendInv' /\ PermitsInv'
<1> DEFINE k == leases[l].key
           o == leases[l].object
<1>1. Goes(l, "creating")
  BY PhaseMoves DEF AdmissionGranted, BackendInv
<1>2. /\ UNCHANGED <<permits, active, waiters, entries, creations, calls, box>>
      /\ leases[l].phase = "admission" /\ objects[o].adm = "granted"
  BY DEF AdmissionGranted
<1>3. /\ o \in DOMAIN objects /\ objects[o].key = k /\ creations[k] = l /\ active[k] = o
      /\ objects[o].refs = 0
  BY <1>2 DEF BackendInv, LeaseInv
<1>o. objects[o] \in ObjectType /\ leases[l] \in LeaseType /\ l # None
  BY <1>3 DEF BackendInv, BackendTypes, None
<1>4. /\ objects' \in Seq(ObjectType) /\ DOMAIN objects' = DOMAIN objects
      /\ \A q \in DOMAIN objects : q # o => objects'[q] = objects[q]
      /\ objects'[o] = [objects[o] EXCEPT !.admitted = TRUE, !.refs = 1]
  <2>1. objects' = [objects EXCEPT ![o] = [objects[o] EXCEPT !.admitted = TRUE, !.refs = 1]]
    BY <1>3 DEF AdmissionGranted
  <2>2. [objects[o] EXCEPT !.admitted = TRUE, !.refs = 1] \in ObjectType
    BY <1>o DEF ObjectType
  <2>3. objects \in Seq(ObjectType)
    BY DEF BackendInv, BackendTypes
  <2> HIDE DEF o
  <2> QED BY <1>3, <2>1, <2>2, <2>3, ExceptSeq
<1>5. /\ objects'[o].key = k /\ objects'[o].adm = "granted" /\ objects'[o].refs = 1
      /\ objects'[o].admitted = TRUE
      /\ k \in Keys
  BY <1>2, <1>3, <1>4, <1>o DEF ObjectType, LeaseType
<1> HIDE DEF k, o
<1>6. BackendTypes'
  BY <1>1, <1>2, <1>4 DEF BackendInv, BackendTypes, Goes
<1>7. ASSUME NEW m \in DOMAIN leases PROVE LeaseInv(m)'
  <2>1. CASE m = l
    BY <1>1, <1>2, <1>3, <1>4, <1>5, <2>1 DEF LeaseInv, Goes, k, o
  <2>2. CASE m # l
    <3>1. leases'[m].key = leases[m].key /\ leases'[m].object = leases[m].object
          /\ leases'[m].phase = leases[m].phase
      BY <1>1, <2>2 DEF Goes
    <3>2. leases[m].object \in DOMAIN objects
          /\ objects'[leases[m].object].key = objects[leases[m].object].key
      BY ZenonT(30), <1>3, <1>4, <1>5 DEF BackendInv, LeaseInv
    <3>3. leases[m].phase \in Holding => leases[m].object # o
      BY <1>2, <2>2, SoleLease DEF Holding, o
    <3> QED BY <1>2, <1>4, <3>1, <3>2, <3>3, OtherLease
  <2> QED BY <2>1, <2>2
<1>8. ASSUME NEW j \in Keys PROVE KeyInv(j)'
  <2>1. /\ creations[j] # None => creations[j] \in DOMAIN leases
        /\ entries[j] # None => entries[j] \in DOMAIN leases
        /\ KeyInv(j)
    BY DEF BackendInv, KeyInv
  <2>2. entries[j] # l
    BY <1>2, <2>1, <1>o DEF KeyInv
  <2>3. entries[j] # None => leases'[entries[j]].phase = leases[entries[j]].phase
                             /\ leases'[entries[j]].key = leases[entries[j]].key
    BY <1>1, <2>1, <2>2 DEF Goes
  <2>4. creations[j] # None => /\ leases'[creations[j]].phase \in {"admission", "creating"}
                               /\ leases'[creations[j]].key = leases[creations[j]].key
    BY <1>1, <2>1 DEF Goes, KeyInv
  <2> QED BY <1>1, <1>2, <2>1, <2>3, <2>4 DEF KeyInv, Goes
<1>9. WaitersInv'
  <2>1. \A i \in DOMAIN waiters : waiters[i] # o
    BY <1>2 DEF BackendInv, WaitersInv, o
  <2> QED BY <1>2, <1>4, <2>1 DEF BackendInv, WaitersInv
<1>10. PermitsInv'
  <2>1. \A q \in DOMAIN objects : objects'[q].adm = objects[q].adm
    BY <1>2, <1>4, <1>5 DEF o
  <2>2. \A j \in Keys : active[j] # None => active[j] \in DOMAIN objects
    BY ActiveObjects
  <2>3. Granted' = Granted
    BY <1>2, <2>1, <2>2 DEF Granted
  <2> QED BY <1>2, <2>3 DEF PermitsInv
<1> QED BY <1>1, <1>2, <1>6, <1>7, <1>8, <1>9, <1>10 DEF BackendInv, CallsInv, Goes

(* Calls that are moved to a lease that exists, or to idle.                 *)
LEMMA MovedCalls ==
    ASSUME BackendTypes, CallsInv, NEW who \in SUBSET Callers, NEW call \in CallType,
           DOMAIN leases \subseteq DOMAIN leases',
           call.phase # "idle" => call.lease \in DOMAIN leases',
           calls' = Moved(who, call)
    PROVE  calls' \in [Callers -> CallType] /\ CallsInv'
  BY DEF Moved, CallsInv, BackendTypes

(* Who waits for a lease is a caller.                                       *)
LEMMA WaitingCallers == \A phase, l : Waiting(phase, l) \in SUBSET Callers
  BY DEF Waiting

(* The numbers of the leases and of the permit objects.                     *)
LEMMA Numbers ==
    ASSUME BackendTypes
    PROVE  /\ \A l \in DOMAIN leases : l \in Nat \ {0} /\ l # None /\ leases[l] \in LeaseType
           /\ \A o \in DOMAIN objects : o \in Nat \ {0} /\ o # None /\ objects[o] \in ObjectType
<1>1. leases \in Seq(LeaseType) /\ objects \in Seq(ObjectType)
  BY DEF BackendTypes
<1> QED BY <1>1 DEF None

(* A container is started again or made anew, and never by that taken away. *)
LEMMA StartedType ==
    ASSUME NEW k \in Keys, box \in [Keys -> BoxType]
    PROVE  /\ Started(k) \in BoxType /\ Started(k).state = "running"
           /\ \A s \in {"stopped", "running"} :
                 /\ [Started(k) EXCEPT !.state = s] \in BoxType
                 /\ [Started(k) EXCEPT !.state = s].state = s
                 /\ box[k].state = "absent" => [Started(k) EXCEPT !.state = s].id # box[k].id
           /\ box[k].state = "absent" => Started(k).id # box[k].id
<1>1. box[k] \in BoxType
  OBVIOUS
<1>2. box[k].id \in Nat /\ box[k].id + 1 # box[k].id
  BY <1>1 DEF BoxType
<1> QED BY <1>1, <1>2 DEF Started, BoxType

(* The await of the admission throws.                                       *)
LEMMA RefusedStep ==
    ASSUME BackendInv, PermitsInv, NEW l \in DOMAIN leases, AdmissionRefused(l)
    PROVE  BackendInv' /\ PermitsInv'
<1> DEFINE k == leases[l].key
           o == leases[l].object
<1>1. Goes(l, "failed")
  BY PhaseMoves DEF AdmissionRefused, BackendInv
<1>2. /\ UNCHANGED <<permits, objects, waiters, entries, box>>
      /\ leases[l].phase = "admission" /\ objects[o].adm = "refused"
      /\ creations' = [creations EXCEPT ![k] = None]
      /\ active[k] = o => active' = [active EXCEPT ![k] = None]
      /\ calls' = Moved(Waiting("create", l), Idle)
  BY DEF AdmissionRefused
<1>3. /\ o \in DOMAIN objects /\ objects[o].key = k /\ creations[k] = l /\ active[k] = o
      /\ k \in Keys /\ l # None /\ entries[k] = None
  <2>1. LeaseInv(l) /\ BackendTypes
    BY DEF BackendInv
  <2>2. l # None /\ k \in Keys
    BY <2>1, Numbers DEF LeaseType
  <2>3. KeyInv(k)
    BY <2>2 DEF BackendInv
  <2> QED BY <1>2, <2>1, <2>2, <2>3 DEF LeaseInv, KeyInv
<1>4. /\ active'[k] = None /\ creations'[k] = None
      /\ \A j \in Keys : j # k => active'[j] = active[j] /\ creations'[j] = creations[j]
      /\ active' \in [Keys -> Nat] /\ creations' \in [Keys -> Nat]
  BY <1>2, <1>3 DEF BackendInv, BackendTypes, None
<1>5. calls' \in [Callers -> CallType] /\ CallsInv'
  <2>1. Idle \in CallType /\ Idle.phase = "idle"
    BY DEF Idle, CallType, None
  <2> QED BY <1>1, <1>2, <2>1, MovedCalls, WaitingCallers DEF Goes, BackendInv
<1> HIDE DEF k, o
<1>6. BackendTypes'
  BY <1>1, <1>2, <1>4, <1>5 DEF BackendInv, BackendTypes, Goes
<1>7. ASSUME NEW m \in DOMAIN leases PROVE LeaseInv(m)'
  <2>1. CASE m = l
    BY <1>1, <1>2, <1>3, <2>1 DEF LeaseInv, Goes, k, o
  <2>2. CASE m # l
    <3>1. leases'[m].key = leases[m].key /\ leases'[m].object = leases[m].object
          /\ leases'[m].phase = leases[m].phase
      BY <1>1, <2>2 DEF Goes
    <3>2. leases[m].key \in Keys
      BY Numbers DEF BackendInv, LeaseType
    <3>3. leases[m].phase \in Holding => leases[m].key # k
      BY <1>2, <2>2, SoleLease DEF Holding, k
    <3> QED BY <1>2, <1>4, <3>1, <3>2, <3>3, OtherLease
  <2> QED BY <2>1, <2>2
<1>8. ASSUME NEW j \in Keys PROVE KeyInv(j)'
  <2>1. KeyInv(j)
    BY DEF BackendInv
  <2>2. CASE j = k
    BY <1>2, <1>3, <1>4, <2>2 DEF KeyInv
  <2>3. CASE j # k
    <3>1. creations[j] # l /\ entries[j] # l
      BY <1>3, <2>1, <2>3 DEF KeyInv, k
    <3>2. \A m \in DOMAIN leases : m # l => leases'[m].key = leases[m].key
                                             /\ leases'[m].phase = leases[m].phase
      BY <1>1 DEF Goes
    <3>3. creations'[j] = creations[j] /\ active'[j] = active[j] /\ entries'[j] = entries[j]
          /\ DOMAIN leases' = DOMAIN leases
      BY <1>1, <1>2, <1>4, <2>3 DEF Goes
    <3> QED BY <2>1, <3>1, <3>2, <3>3 DEF KeyInv
  <2> QED BY <2>2, <2>3
<1>9. WaitersInv'
  <2>1. \A i \in DOMAIN waiters : objects[waiters[i]].key \in Keys /\ objects[waiters[i]].key # k
    <3> SUFFICES ASSUME NEW i \in DOMAIN waiters
                 PROVE  objects[waiters[i]].key \in Keys /\ objects[waiters[i]].key # k
      OBVIOUS
    <3>1. /\ waiters[i] \in DOMAIN objects /\ objects[waiters[i]].adm = "waiting"
          /\ active[objects[waiters[i]].key] = waiters[i]
      BY DEF BackendInv, WaitersInv
    <3>2. objects[waiters[i]].key \in Keys
      BY <3>1, Numbers DEF BackendInv, ObjectType
    <3> QED BY <1>2, <1>3, <3>1, <3>2
  <2> QED BY <1>2, <1>4, <2>1 DEF BackendInv, WaitersInv
<1>10. PermitsInv'
  <2>1. Granted' = Granted
    BY <1>2, <1>3, <1>4 DEF Granted
  <2> QED BY <1>2, <2>1 DEF PermitsInv
<1> QED BY <1>1, <1>5, <1>6, <1>7, <1>8, <1>9, <1>10 DEF BackendInv, Goes

(* What is left of a queue without its p-th element.                        *)
LEMMA RemoveAtProperties ==
    ASSUME NEW S, NEW s \in Seq(S), NEW p \in 1..Len(s)
    PROVE  /\ RemoveAt(s, p) \in Seq(S) /\ Len(RemoveAt(s, p)) = Len(s) - 1
           /\ \A i \in 1..(Len(s) - 1) : RemoveAt(s, p)[i] = IF i < p THEN s[i] ELSE s[i + 1]
<1> DEFINE n == Len(s)
           left == SubSeq(s, 1, p - 1)
           right == SubSeq(s, p + 1, n)
<1>1. n \in Nat /\ p \in Nat /\ 1 <= p /\ p <= n /\ \A i \in 1..n : s[i] \in S
  OBVIOUS
<1>2. /\ left \in Seq(S) /\ Len(left) = p - 1
      /\ \A i \in 1..(p - 1) : left[i] = s[i]
  <2> HIDE DEF n
  <2>1. 1 \in Int /\ p - 1 \in Int /\ \A i \in 1..(p - 1) : s[i] \in S
    BY <1>1
  <2>2. /\ left \in Seq(S) /\ Len(left) = IF 1 <= p - 1 THEN p - 1 - 1 + 1 ELSE 0
        /\ \A i \in 1..(p - 1 - 1 + 1) : left[i] = s[1 + i - 1]
    BY <2>1, SubSeqProperties
  <2> HIDE DEF left
  <2>3. \A i \in 1..(p - 1) : i \in 1..(p - 1 - 1 + 1) /\ 1 + i - 1 = i
    BY <1>1
  <2>4. Len(left) = p - 1
    BY <1>1, <2>2
  <2> QED BY <2>2, <2>3, <2>4
<1>3. /\ right \in Seq(S) /\ Len(right) = n - p
      /\ \A i \in 1..(n - p) : right[i] = s[p + i]
  <2> HIDE DEF n
  <2>1. p + 1 \in Int /\ n \in Int /\ \A i \in (p + 1)..n : s[i] \in S
    BY <1>1
  <2>2. /\ right \in Seq(S) /\ Len(right) = IF p + 1 <= n THEN n - (p + 1) + 1 ELSE 0
        /\ \A i \in 1..(n - (p + 1) + 1) : right[i] = s[p + 1 + i - 1]
    BY <2>1, SubSeqProperties
  <2> HIDE DEF right
  <2>3. \A i \in 1..(n - p) : i \in 1..(n - (p + 1) + 1) /\ p + 1 + i - 1 = p + i
    BY <1>1
  <2>4. Len(right) = n - p
    BY <1>1, <2>2
  <2> QED BY <2>2, <2>3, <2>4
<1>4. RemoveAt(s, p) = left \o right
  BY DEF RemoveAt
<1> HIDE DEF n, left, right
<1>5. /\ RemoveAt(s, p) \in Seq(S) /\ Len(RemoveAt(s, p)) = p - 1 + (n - p)
      /\ \A i \in 1..(p - 1 + (n - p)) :
            RemoveAt(s, p)[i] = IF i <= p - 1 THEN left[i] ELSE right[i - (p - 1)]
  BY <1>2, <1>3, <1>4, ConcatProperties
<1>6. ASSUME NEW i \in 1..(n - 1)
      PROVE  RemoveAt(s, p)[i] = IF i < p THEN s[i] ELSE s[i + 1]
  <2>1. i \in 1..(p - 1 + (n - p)) /\ i \in Nat
    BY <1>1
  <2>2. CASE i < p
    BY <1>1, <1>2, <1>5, <2>1, <2>2
  <2>3. CASE ~ (i < p)
    <3>1. i - (p - 1) \in 1..(n - p) /\ p + (i - (p - 1)) = i + 1 /\ ~ (i <= p - 1)
      BY <1>1, <2>1, <2>3
    <3> QED BY <1>3, <1>5, <2>1, <2>3, <3>1
  <2> QED BY <2>2, <2>3
<1>7. p - 1 + (n - p) = n - 1
  BY <1>1
<1> QED BY <1>5, <1>6, <1>7 DEF n

(* The timer of a waiter: it leaves the queue, the others keep their order. *)
LEMMA TimeoutStep ==
    ASSUME BackendInv, PermitsInv, NEW o \in DOMAIN objects, AdmissionTimeout(o)
    PROVE  BackendInv' /\ PermitsInv'
<1>1. PICK p \in DOMAIN waiters : waiters[p] = o /\ waiters' = RemoveAt(waiters, p)
  BY DEF AdmissionTimeout
<1>2. /\ UNCHANGED <<permits, active, leases, entries, creations, calls, box>>
      /\ objects' = [objects EXCEPT ![o].adm = "refused"]
  BY DEF AdmissionTimeout
<1>3. /\ waiters' \in Seq(Nat) /\ Len(waiters') = Len(waiters) - 1
      /\ \A i \in DOMAIN waiters' : waiters'[i] = waiters[IF i < p THEN i ELSE i + 1]
                                    /\ (IF i < p THEN i ELSE i + 1) \in DOMAIN waiters \ {p}
  <2>1. waiters \in Seq(Nat) /\ p \in 1..Len(waiters)
    BY DEF BackendInv, BackendTypes
  <2>2. /\ waiters' \in Seq(Nat) /\ Len(waiters') = Len(waiters) - 1
        /\ \A i \in 1..(Len(waiters) - 1) : waiters'[i] = IF i < p THEN waiters[i] ELSE waiters[i + 1]
    BY <1>1, <2>1, RemoveAtProperties
  <2>3. DOMAIN waiters' = 1..(Len(waiters) - 1) /\ DOMAIN waiters = 1..Len(waiters)
    BY <2>1, <2>2
  <2>4. Len(waiters) \in Nat /\ p \in Nat
    BY <2>1
  <2>5. ASSUME NEW i \in DOMAIN waiters'
        PROVE  /\ waiters'[i] = waiters[IF i < p THEN i ELSE i + 1]
               /\ (IF i < p THEN i ELSE i + 1) \in DOMAIN waiters \ {p}
    <3>1. i \in 1..(Len(waiters) - 1)
      BY <2>3
    <3>2. CASE i < p
      BY <2>2, <2>3, <2>4, <3>1, <3>2
    <3>3. CASE ~ (i < p)
      BY <2>2, <2>3, <2>4, <3>1, <3>3
    <3> QED BY <3>2, <3>3
  <2> QED BY <2>2, <2>5
<1>4. /\ objects' \in Seq(ObjectType) /\ DOMAIN objects' = DOMAIN objects
      /\ \A q \in DOMAIN objects : q # o => objects'[q] = objects[q]
      /\ objects'[o] = [objects[o] EXCEPT !.adm = "refused"]
  <2>1. objects[o] \in ObjectType /\ objects \in Seq(ObjectType)
    BY DEF BackendInv, BackendTypes
  <2>2. [objects[o] EXCEPT !.adm = "refused"] \in ObjectType
    BY <2>1 DEF ObjectType
  <2> QED BY <1>2, <2>1, <2>2, ExceptSeq
<1>5. /\ objects'[o].key = objects[o].key /\ objects'[o].refs = objects[o].refs
      /\ objects'[o].admitted = objects[o].admitted /\ objects[o].adm = "waiting"
      /\ active[objects[o].key] = o /\ objects'[o].adm = "refused"
  <2>1. objects[o] \in ObjectType
    BY Numbers DEF BackendInv
  <2> QED BY <1>1, <1>4, <2>1 DEF ObjectType, BackendInv, WaitersInv
<1>6. BackendTypes'
  BY <1>2, <1>3, <1>4 DEF BackendInv, BackendTypes
<1>7. ASSUME NEW m \in DOMAIN leases PROVE LeaseInv(m)'
  <2>1. leases[m].object \in DOMAIN objects
    BY DEF BackendInv, LeaseInv
  <2> QED BY <1>2, <1>4, <1>5, <2>1, OtherLease
<1>8. ASSUME NEW j \in Keys PROVE KeyInv(j)'
  BY <1>2 DEF BackendInv, KeyInv
<1>9. WaitersInv'
  <2>1. \A i, j \in DOMAIN waiters : waiters[i] = waiters[j] => i = j
    BY DEF BackendInv, WaitersInv
  <2>2. DOMAIN waiters' \subseteq Nat /\ p \in Nat
    BY SMTT(30), <1>3 DEF BackendInv, BackendTypes
  <2>3. \A i, j \in DOMAIN waiters' : waiters'[i] = waiters'[j] => i = j
    BY SMTT(30), <1>3, <2>1, <2>2
  <2>4. \A i \in DOMAIN waiters' : \E j \in DOMAIN waiters \ {p} : waiters'[i] = waiters[j]
    BY <1>3
  <2>5. ASSUME NEW i \in DOMAIN waiters'
        PROVE  /\ waiters'[i] \in DOMAIN objects /\ waiters'[i] # o
               /\ objects[waiters'[i]].adm = "waiting"
               /\ active[objects[waiters'[i]].key] = waiters'[i]
    BY <1>1, <2>1, <2>4 DEF BackendInv, WaitersInv
  <2> QED BY <1>2, <1>4, <2>3, <2>5 DEF WaitersInv
<1>10. PermitsInv'
  <2>1. Granted' = Granted
    <3>1. \A j \in Keys : active[j] # None => active[j] \in DOMAIN objects
      BY ActiveObjects
    <3> QED BY <1>2, <1>4, <1>5, <3>1 DEF Granted
  <2>2. waiters # <<>>
    BY <1>1
  <2> QED BY <1>2, <2>1, <2>2 DEF PermitsInv
<1> QED BY <1>2, <1>6, <1>7, <1>8, <1>9, <1>10 DEF BackendInv, CallsInv

(* The backend has created: the creation becomes the entry.                 *)
LEMMA CreatedStep ==
    ASSUME BackendInv, PermitsInv, NEW l \in DOMAIN leases, BackendCreated(l)
    PROVE  BackendInv' /\ PermitsInv'
<1> DEFINE k == leases[l].key
<1>1. Goes(l, "live")
  BY PhaseMoves DEF BackendCreated, BackendInv
<1>2. /\ UNCHANGED <<permits, active, objects, waiters>>
      /\ leases[l].phase = "creating"
      /\ creations' = [creations EXCEPT ![k] = None]
      /\ entries' = [entries EXCEPT ![k] = l]
      /\ box' = [box EXCEPT ![k] = Started(k)]
      /\ calls' = Moved(Waiting("create", l), [phase |-> "holds", lease |-> l])
  BY DEF BackendCreated
<1>3. creations[k] = l /\ k \in Keys /\ l \in Nat /\ l # None /\ entries[k] = None
  <2>1. LeaseInv(l) /\ BackendTypes
    BY DEF BackendInv
  <2>2. l # None /\ k \in Keys /\ l \in Nat
    BY <2>1, Numbers DEF LeaseType
  <2>3. KeyInv(k)
    BY <2>2 DEF BackendInv
  <2> QED BY <1>2, <2>1, <2>2, <2>3 DEF LeaseInv, KeyInv
<1>4. /\ creations'[k] = None /\ entries'[k] = l
      /\ \A j \in Keys : j # k => entries'[j] = entries[j] /\ creations'[j] = creations[j]
      /\ entries' \in [Keys -> Nat] /\ creations' \in [Keys -> Nat]
  BY <1>2, <1>3 DEF BackendInv, BackendTypes, None
<1>5. calls' \in [Callers -> CallType] /\ CallsInv'
  <2>1. [phase |-> "holds", lease |-> l] \in CallType
    BY <1>3 DEF CallType
  <2> QED BY <1>1, <1>2, <2>1, MovedCalls, WaitingCallers DEF Goes, BackendInv
<1>b. box' \in [Keys -> BoxType]
  <2>1. Started(k) \in BoxType
    BY <1>3, StartedType DEF BackendInv, BackendTypes
  <2> QED BY <1>2, <2>1 DEF BackendInv, BackendTypes
<1> HIDE DEF k
<1>6. BackendTypes'
  BY <1>1, <1>2, <1>4, <1>5, <1>b DEF BackendInv, BackendTypes, Goes
<1>7. ASSUME NEW m \in DOMAIN leases PROVE LeaseInv(m)'
  <2>1. CASE m = l
    <3>1. LeaseInv(l)
      BY DEF BackendInv
    <3> QED BY <1>1, <1>2, <1>3, <1>4, <2>1, <3>1 DEF LeaseInv, Goes, k
  <2>2. CASE m # l
    <3>1. leases'[m].key = leases[m].key /\ leases'[m].object = leases[m].object
          /\ leases'[m].phase = leases[m].phase
      BY <1>1, <2>2 DEF Goes
    <3>2. leases[m].key \in Keys
      BY Numbers DEF BackendInv, LeaseType
    <3>3. leases[m].phase \in Holding => leases[m].key # k
      BY <1>2, <2>2, SoleLease DEF Holding, k
    <3> QED BY <1>2, <1>4, <3>1, <3>2, <3>3, OtherLease
  <2> QED BY <2>1, <2>2
<1>8. ASSUME NEW j \in Keys PROVE KeyInv(j)'
  <2>1. KeyInv(j)
    BY DEF BackendInv
  <2>2. CASE j = k
    BY <1>1, <1>2, <1>3, <1>4, <2>2 DEF KeyInv, Goes, k
  <2>3. CASE j # k
    <3>1. creations[j] # l /\ entries[j] # l
      BY <1>3, <2>1, <2>3 DEF KeyInv, k
    <3>2. \A m \in DOMAIN leases : m # l => leases'[m].key = leases[m].key
                                             /\ leases'[m].phase = leases[m].phase
      BY <1>1 DEF Goes
    <3>3. creations'[j] = creations[j] /\ active'[j] = active[j] /\ entries'[j] = entries[j]
          /\ DOMAIN leases' = DOMAIN leases
      BY <1>1, <1>2, <1>4, <2>3 DEF Goes
    <3> QED BY <2>1, <3>1, <3>2, <3>3 DEF KeyInv
  <2> QED BY <2>2, <2>3
<1>9. WaitersInv' /\ PermitsInv'
  BY <1>2 DEF BackendInv, WaitersInv, PermitsInv, Granted
<1> QED BY <1>1, <1>5, <1>6, <1>7, <1>8, <1>9 DEF BackendInv, Goes

(* A new lease and its permit object: of a session that has neither a       *)
(* creation nor an entry nor a permit object.                               *)
LEMMA StartStep ==
    ASSUME BackendInv, PermitsInv, NEW k \in Keys, NEW who \in SUBSET Callers,
           StartCreate(k, who),
           creations[k] = None, active[k] = None,
           entries' \in [Keys -> Nat], entries'[k] = None,
           \A j \in Keys : j # k => entries'[j] = entries[j],
           UNCHANGED box
    PROVE  BackendInv' /\ PermitsInv'
<1> DEFINE l == Len(leases) + 1
           o == Len(objects) + 1
           lease == [key |-> k, object |-> o, phase |-> "admission", timer |-> FALSE]
           obj == [key |-> k, adm |-> Acquired, admitted |-> FALSE, refs |-> 0]
<1>1. /\ leases' = Append(leases, lease) /\ objects' = Append(objects, obj)
      /\ creations' = [creations EXCEPT ![k] = l]
      /\ active' = [active EXCEPT ![k] = o]
      /\ calls' = Moved(who, [phase |-> "create", lease |-> l])
      /\ permits' = IF Acquired = "granted" THEN permits + 1 ELSE permits
      /\ waiters' = IF Acquired = "waiting" THEN Append(waiters, o) ELSE waiters
  BY DEF StartCreate
<1>2. /\ Acquired \in {"granted", "refused", "waiting"}
      /\ Acquired = "granted" => permits < Limit /\ waiters = <<>>
      /\ Acquired # "granted" => ~ (permits < Limit /\ waiters = <<>>)
  BY DEF Acquired
<1>3. leases \in Seq(LeaseType) /\ objects \in Seq(ObjectType) /\ BackendTypes
  BY DEF BackendInv, BackendTypes
<1>4. l \in Nat \ {0} /\ o \in Nat \ {0} /\ l \notin DOMAIN leases /\ o \notin DOMAIN objects
  BY <1>3
<1>5. lease \in LeaseType /\ obj \in ObjectType
  BY <1>2, <1>4 DEF LeaseType, ObjectType
<1> HIDE DEF lease, obj
<1>6. /\ leases' \in Seq(LeaseType) /\ DOMAIN leases' = DOMAIN leases \union {l}
      /\ leases'[l] = lease /\ \A m \in DOMAIN leases : leases'[m] = leases[m]
      /\ objects' \in Seq(ObjectType) /\ DOMAIN objects' = DOMAIN objects \union {o}
      /\ objects'[o] = obj /\ \A q \in DOMAIN objects : objects'[q] = objects[q]
  BY <1>1, <1>3, <1>5
<1> HIDE DEF l, o
<1>7. /\ creations'[k] = l /\ active'[k] = o
      /\ \A j \in Keys : j # k => creations'[j] = creations[j] /\ active'[j] = active[j]
      /\ creations' \in [Keys -> Nat] /\ active' \in [Keys -> Nat]
  BY <1>1, <1>3, <1>4 DEF BackendTypes
<1>8. calls' \in [Callers -> CallType] /\ CallsInv'
  <2>1. [phase |-> "create", lease |-> l] \in CallType
    BY <1>4 DEF CallType
  <2> QED BY <1>1, <1>3, <1>6, <2>1, MovedCalls DEF BackendInv
<1>9. BackendTypes'
  <2>1. permits' \in Nat /\ waiters' \in Seq(Nat)
    BY <1>1, <1>3, <1>4 DEF BackendTypes
  <2> QED BY <1>3, <1>6, <1>7, <1>8, <2>1 DEF BackendTypes
<1>10. ASSUME NEW m \in DOMAIN leases' PROVE LeaseInv(m)'
  <2>1. CASE m = l
    BY <1>6, <1>7, <2>1 DEF LeaseInv, lease, obj
  <2>2. CASE m # l
    <3>1. m \in DOMAIN leases /\ leases'[m] = leases[m] /\ LeaseInv(m) /\ leases[m].key \in Keys
      BY <1>6, <2>2, <1>3, Numbers DEF BackendInv, LeaseType
    <3>2. leases[m].object \in DOMAIN objects /\ leases[m].object # None
      BY <1>3, <3>1, Numbers DEF LeaseInv
    <3>3. leases[m].phase \in Holding => leases[m].key # k
      BY <3>1, <3>2 DEF LeaseInv, Holding
    <3> QED BY <1>6, <1>7, <3>1, <3>2, <3>3, OtherLease
  <2> QED BY <2>1, <2>2
<1>11. ASSUME NEW j \in Keys PROVE KeyInv(j)'
  <2>1. CASE j = k
    BY <1>4, <1>6, <1>7, <2>1 DEF KeyInv, None, lease
  <2>2. CASE j # k
    <3>1. KeyInv(j)
      BY DEF BackendInv
    <3>2. creations'[j] = creations[j] /\ active'[j] = active[j] /\ entries'[j] = entries[j]
      BY <1>7, <2>2
    <3> QED BY <1>6, <3>1, <3>2 DEF KeyInv
  <2> QED BY <2>1, <2>2
<1>w. ASSUME NEW i \in DOMAIN waiters
      PROVE  /\ waiters[i] \in DOMAIN objects /\ waiters[i] # o
             /\ objects[waiters[i]].key \in Keys \ {k}
             /\ objects[waiters[i]].adm = "waiting"
             /\ active[objects[waiters[i]].key] = waiters[i]
  <2>1. waiters[i] \in DOMAIN objects /\ active[objects[waiters[i]].key] = waiters[i]
        /\ objects[waiters[i]].adm = "waiting"
    BY DEF BackendInv, WaitersInv
  <2>2. objects[waiters[i]].key \in Keys /\ waiters[i] # None
    BY <1>3, <2>1, Numbers DEF ObjectType
  <2> QED BY <1>4, <2>1, <2>2
<1>12. WaitersInv'
  <2>1. CASE Acquired # "waiting"
    BY <1>1, <1>6, <1>7, <1>w, <2>1 DEF BackendInv, WaitersInv
  <2>2. CASE Acquired = "waiting"
    <3>1. waiters' = Append(waiters, o) /\ waiters \in Seq(Nat)
      BY <1>1, <1>3, <2>2 DEF BackendTypes
    <3>2. /\ DOMAIN waiters' = DOMAIN waiters \union {Len(waiters) + 1}
          /\ waiters'[Len(waiters) + 1] = o
          /\ \A i \in DOMAIN waiters : waiters'[i] = waiters[i]
      BY <3>1, <1>4
    <3>3. \A i, j \in DOMAIN waiters' : waiters'[i] = waiters'[j] => i = j
      BY <1>w, <3>2 DEF BackendInv, WaitersInv
    <3>4. objects'[o].adm = "waiting" /\ objects'[o].key = k
      BY <1>6, <2>2 DEF obj
    <3>5. ASSUME NEW i \in DOMAIN waiters'
          PROVE  /\ waiters'[i] \in DOMAIN objects' /\ objects'[waiters'[i]].adm = "waiting"
                 /\ active'[objects'[waiters'[i]].key] = waiters'[i]
      <4>1. CASE i \in DOMAIN waiters
        <5>1. objects'[waiters[i]] = objects[waiters[i]]
          BY <1>6, <1>w, <4>1
        <5> QED BY <1>6, <1>7, <1>w, <3>2, <4>1, <5>1
      <4>2. CASE i = Len(waiters) + 1
        BY <1>6, <1>7, <3>2, <3>4, <4>2
      <4> QED BY <3>2, <4>1, <4>2
    <3> QED BY <3>3, <3>5 DEF WaitersInv
  <2> QED BY <2>1, <2>2
<1>13. PermitsInv'
  <2>1. \A j \in Keys : active[j] # None => active[j] \in DOMAIN objects
    BY ActiveObjects
  <2>2. k \notin Granted /\ Granted' = IF Acquired = "granted" THEN Granted \union {k} ELSE Granted
    <3>1. objects'[o].adm = Acquired
      BY <1>6 DEF obj
    <3> QED BY <1>4, <1>6, <1>7, <2>1, <3>1 DEF Granted, None
  <2>3. permits \in Nat /\ Limit \in Nat
    BY <1>3, LimitsArePositive DEF BackendTypes
  <2>4. CASE Acquired = "granted"
    <3>1. IsFiniteSet(Granted') /\ Cardinality(Granted') = Cardinality(Granted) + 1
      BY <2>2, <2>4, FS_AddElement DEF PermitsInv
    <3> QED BY <1>1, <1>2, <2>3, <2>4, <3>1 DEF PermitsInv
  <2>5. CASE Acquired # "granted"
    <3>1. permits = Limit \/ waiters # <<>>
      BY <1>2, <2>3, <2>5 DEF PermitsInv
    <3> QED BY <1>1, <2>2, <2>5, <3>1 DEF PermitsInv
  <2> QED BY <2>4, <2>5
<1> QED BY <1>8, <1>9, <1>10, <1>11, <1>12, <1>13 DEF BackendInv

(* The end of a lease that has held its permit: the permit goes to the      *)
(* first waiter, or back to the pool.                                       *)
LEMMA ReleaseStep ==
    ASSUME BackendInv, PermitsInv, NEW l \in DOMAIN leases,
           NEW p \in {"failed", "released"}, Goes(l, p),
           \/ leases[l].phase = "creating"
           \/ leases[l].phase = "stopping" /\ p = "released",
           Release(leases[l].key, leases[l].object),
           creations' \in [Keys -> Nat], creations'[leases[l].key] = None,
           \A j \in Keys : j # leases[l].key => creations'[j] = creations[j],
           UNCHANGED entries,
           calls' \in [Callers -> CallType], CallsInv', box' \in [Keys -> BoxType]
    PROVE  BackendInv' /\ PermitsInv'
<1> DEFINE k == leases[l].key
           o == leases[l].object
           w == Head(waiters)
<1>1. BackendTypes /\ LeaseInv(l) /\ k \in Keys /\ KeyInv(k)
  <2>1. BackendTypes /\ LeaseInv(l)
    BY DEF BackendInv
  <2>2. k \in Keys
    BY <2>1, Numbers DEF LeaseType
  <2> QED BY <2>1, <2>2 DEF BackendInv
<1>2. /\ o \in DOMAIN objects /\ objects[o].key = k /\ active[k] = o
      /\ objects[o].adm = "granted" /\ objects[o].refs = 1 /\ objects[o].admitted
      /\ o # None /\ objects[o] \in ObjectType
  BY <1>1, Numbers DEF LeaseInv
<1>3. /\ active' = [active EXCEPT ![k] = None]
      /\ waiters = <<>> => /\ objects' = [objects EXCEPT ![o].refs = 0]
                           /\ permits' = permits - 1 /\ waiters' = waiters
      /\ waiters # <<>> => /\ objects' = [objects EXCEPT ![o].refs = 0, ![w].adm = "granted"]
                           /\ permits' = permits - 1 + 1 /\ waiters' = Tail(waiters)
  BY <1>2 DEF Release
<1>4. /\ active'[k] = None /\ \A j \in Keys : j # k => active'[j] = active[j]
      /\ active' \in [Keys -> Nat]
  BY <1>1, <1>3 DEF BackendTypes, None
<1>w. ASSUME NEW i \in DOMAIN waiters
      PROVE  /\ waiters[i] \in DOMAIN objects /\ waiters[i] # o /\ waiters[i] # None
             /\ objects[waiters[i]].key \in Keys \ {k}
             /\ objects[waiters[i]].adm = "waiting"
             /\ objects[waiters[i]] \in ObjectType
             /\ active[objects[waiters[i]].key] = waiters[i]
  <2>1. waiters[i] \in DOMAIN objects /\ active[objects[waiters[i]].key] = waiters[i]
        /\ objects[waiters[i]].adm = "waiting"
    BY DEF BackendInv, WaitersInv
  <2>2. objects[waiters[i]].key \in Keys /\ waiters[i] # None /\ objects[waiters[i]] \in ObjectType
    BY <1>1, <2>1, Numbers DEF ObjectType
  <2> QED BY <1>2, <2>1, <2>2
<1>5. waiters # <<>> =>
          /\ 1 \in DOMAIN waiters /\ w = waiters[1] /\ waiters' \in Seq(Nat)
          /\ \A i \in DOMAIN waiters' : i + 1 \in DOMAIN waiters /\ waiters'[i] = waiters[i + 1]
                                        /\ i \in Nat \ {0}
  <2> SUFFICES ASSUME waiters # <<>>
               PROVE  /\ 1 \in DOMAIN waiters /\ w = waiters[1] /\ waiters' \in Seq(Nat)
                      /\ \A i \in DOMAIN waiters' : i + 1 \in DOMAIN waiters
                                                    /\ waiters'[i] = waiters[i + 1]
                                                    /\ i \in Nat \ {0}
    OBVIOUS
  <2>1. waiters \in Seq(Nat) /\ waiters' = Tail(waiters)
    BY <1>1, <1>3 DEF BackendTypes
  <2>2. /\ waiters' \in Seq(Nat) /\ Len(waiters') = Len(waiters) - 1
        /\ \A i \in 1..Len(waiters') : waiters'[i] = waiters[i + 1]
    BY <2>1, HeadTailProperties
  <2>3. Len(waiters) \in Nat /\ Len(waiters) # 0 /\ DOMAIN waiters = 1..Len(waiters)
        /\ DOMAIN waiters' = 1..Len(waiters')
    BY <2>1, <2>2
  <2>4. w = waiters[1]
    BY <2>1
  <2> QED BY <2>2, <2>3, <2>4
<1> HIDE DEF k, o, w
<1>6. /\ objects' \in Seq(ObjectType) /\ DOMAIN objects' = DOMAIN objects
      /\ objects'[o] = [objects[o] EXCEPT !.refs = 0]
      /\ waiters # <<>> => objects'[w] = [objects[w] EXCEPT !.adm = "granted"]
      /\ \A q \in DOMAIN objects : q = o \/ (waiters # <<>> /\ q = w) \/ objects'[q] = objects[q]
  <2> DEFINE mid == [objects EXCEPT ![o].refs = 0]
  <2>1. objects \in Seq(ObjectType) /\ o \in 1..Len(objects)
    BY <1>1, <1>2 DEF BackendTypes
  <2>2. [objects[o] EXCEPT !.refs = 0] \in ObjectType
    BY <1>2 DEF ObjectType
  <2>3. /\ mid \in Seq(ObjectType) /\ Len(mid) = Len(objects)
        /\ \A q \in 1..Len(objects) : mid[q] = IF q = o THEN [objects[o] EXCEPT !.refs = 0]
                                               ELSE objects[q]
    BY <2>1, <2>2, ExceptSeq
  <2>4. CASE waiters = <<>>
    BY <1>3, <2>1, <2>3, <2>4
  <2>5. CASE waiters # <<>>
    <3>1. w \in 1..Len(objects) /\ w # o /\ objects[w] \in ObjectType
      BY <1>5, <1>w, <2>1, <2>5
    <3>2. mid[w] = objects[w]
      BY <2>3, <3>1
    <3>3. objects' = [mid EXCEPT ![w] = [objects[w] EXCEPT !.adm = "granted"]]
      BY <1>3, <2>5, <3>2
    <3>4. [objects[w] EXCEPT !.adm = "granted"] \in ObjectType
      BY <3>1 DEF ObjectType
    <3> HIDE DEF mid
    <3>5. w \in 1..Len(mid)
      BY <2>3, <3>1
    <3>6. /\ objects' \in Seq(ObjectType) /\ Len(objects') = Len(mid)
          /\ \A q \in 1..Len(mid) : objects'[q] = IF q = w THEN [objects[w] EXCEPT !.adm = "granted"]
                                                  ELSE mid[q]
      BY <2>3, <3>3, <3>4, <3>5, ExceptSeq
    <3>7. DOMAIN objects' = 1..Len(objects) /\ DOMAIN objects = 1..Len(objects)
      BY <2>1, <2>3, <3>6
    <3>8. \A q \in 1..Len(objects) :
             objects'[q] = IF q = w THEN [objects[w] EXCEPT !.adm = "granted"]
                           ELSE IF q = o THEN [objects[o] EXCEPT !.refs = 0] ELSE objects[q]
      BY <2>3, <3>6
    <3> QED BY <2>1, <2>5, <3>1, <3>6, <3>7, <3>8
  <2> QED BY <2>4, <2>5
<1>7. /\ \A q \in DOMAIN objects : objects'[q].key = objects[q].key
      /\ \A q \in DOMAIN objects \ {o} :
             /\ objects'[q].refs = objects[q].refs /\ objects'[q].admitted = objects[q].admitted
             /\ objects[q].adm = "granted" => objects'[q].adm = "granted"
             /\ objects'[q].adm = "granted" =>
                    objects[q].adm = "granted" \/ (waiters # <<>> /\ q = w)
      /\ waiters # <<>> => objects'[w].adm = "granted"
  <2>1. ASSUME waiters # <<>>
        PROVE  /\ objects[w] \in ObjectType /\ objects'[w] = [objects[w] EXCEPT !.adm = "granted"]
    BY <1>5, <1>6, <1>w, <2>1
  <2>2. ASSUME waiters # <<>>
        PROVE  /\ objects'[w].key = objects[w].key /\ objects'[w].refs = objects[w].refs
               /\ objects'[w].admitted = objects[w].admitted /\ objects'[w].adm = "granted"
    BY <2>1, <2>2 DEF ObjectType
  <2>3. objects'[o].key = objects[o].key
    BY <1>2, <1>6 DEF ObjectType
  <2> QED BY <1>6, <2>2, <2>3
<1>8. BackendTypes'
  <2>1. permits' \in Nat
    <3>1. k \in Granted
      BY <1>1, <1>2 DEF Granted
    <3>2. Cardinality(Granted) # 0 /\ Cardinality(Granted) \in Nat
      BY <3>1, FS_EmptySet, FS_CardinalityType DEF PermitsInv
    <3>3. permits \in Nat /\ permits # 0
      BY <1>1, <3>2 DEF PermitsInv, BackendTypes
    <3>4. permits' \in {permits - 1, permits - 1 + 1}
      BY <1>3
    <3> QED BY <3>3, <3>4
  <2>2. waiters' \in Seq(Nat)
    BY <1>1, <1>3, <1>5 DEF BackendTypes
  <2> QED BY <1>1, <1>4, <1>6, <2>1, <2>2 DEF BackendTypes, Goes
<1>9. ASSUME NEW m \in DOMAIN leases PROVE LeaseInv(m)'
  <2>1. CASE m = l
    BY <1>2, <1>6, <1>7, <2>1 DEF LeaseInv, Goes, k, o
  <2>2. CASE m # l
    <3>1. leases'[m].key = leases[m].key /\ leases'[m].object = leases[m].object
          /\ leases'[m].phase = leases[m].phase
      BY <2>2 DEF Goes
    <3>2. leases[m].key \in Keys /\ leases[m].object \in DOMAIN objects
      BY <1>1, Numbers DEF BackendInv, LeaseInv, LeaseType
    <3>3. leases[m].phase \in Holding => leases[m].key # k /\ leases[m].object # o
      BY <2>2, SoleLease DEF Holding, k, o
    <3>4. leases[m].phase \in Holding =>
               /\ objects'[leases[m].object].refs = objects[leases[m].object].refs
               /\ objects'[leases[m].object].admitted = objects[leases[m].object].admitted
               /\ objects[leases[m].object].adm = "granted" =>
                      objects'[leases[m].object].adm = "granted"
               /\ creations'[leases[m].key] = creations[leases[m].key]
               /\ entries'[leases[m].key] = entries[leases[m].key]
               /\ active'[leases[m].key] = active[leases[m].key]
      BY <1>4, <1>7, <3>2, <3>3 DEF k
    <3> QED BY <1>6, <1>7, <3>1, <3>2, <3>4, OtherLease
  <2> QED BY <2>1, <2>2
<1>10. ASSUME NEW j \in Keys PROVE KeyInv(j)'
  <2>1. KeyInv(j)
    BY DEF BackendInv
  <2>2. CASE j = k
    <3>1. leases[l].phase = "creating" => entries[k] = None
      BY <1>1, Numbers DEF LeaseInv, KeyInv, k
    <3>2. leases[l].phase = "stopping" => entries[k] = l
      BY <1>1 DEF LeaseInv, k
    <3> QED BY <1>4, <2>2, <3>1, <3>2 DEF KeyInv, Goes, k
  <2>3. CASE j # k
    <3>1. /\ creations[j] # None => creations[j] # l
          /\ entries[j] # None => entries[j] # l
      BY <2>1, <2>3 DEF KeyInv, k
    <3>2. \A m \in DOMAIN leases : m # l => leases'[m].key = leases[m].key
                                             /\ leases'[m].phase = leases[m].phase
      BY DEF Goes
    <3>3. creations'[j] = creations[j] /\ active'[j] = active[j] /\ entries'[j] = entries[j]
          /\ DOMAIN leases' = DOMAIN leases
      BY <1>4, <2>3 DEF Goes, k
    <3> QED BY <2>1, <3>1, <3>2, <3>3 DEF KeyInv
  <2> QED BY <2>2, <2>3
<1>11. WaitersInv'
  <2>1. CASE waiters = <<>>
    BY <1>3, <2>1 DEF WaitersInv
  <2>2. CASE waiters # <<>>
    <3>1. \A i, j \in DOMAIN waiters : waiters[i] = waiters[j] => i = j
      BY DEF BackendInv, WaitersInv
    <3>2. \A i, j \in DOMAIN waiters' : waiters'[i] = waiters'[j] => i = j
      BY <1>5, <2>2, <3>1
    <3>3. ASSUME NEW i \in DOMAIN waiters'
          PROVE  /\ waiters'[i] \in DOMAIN objects' /\ objects'[waiters'[i]].adm = "waiting"
                 /\ active'[objects'[waiters'[i]].key] = waiters'[i]
      <4>1. i + 1 \in DOMAIN waiters /\ waiters'[i] = waiters[i + 1] /\ waiters[i + 1] # w
        BY <1>5, <2>2, <3>1
      <4>2. objects'[waiters[i + 1]] = objects[waiters[i + 1]]
        BY <1>6, <1>w, <4>1
      <4> QED BY SMTT(30), <1>4, <1>6, <1>w, <4>1, <4>2
    <3> QED BY <3>2, <3>3 DEF WaitersInv
  <2> QED BY <2>1, <2>2
<1>12. PermitsInv'
  <2>1. k \in Granted /\ IsFiniteSet(Granted) /\ permits = Cardinality(Granted)
    BY <1>1, <1>2 DEF Granted, PermitsInv
  <2>2. IsFiniteSet(Granted \ {k}) /\ Cardinality(Granted \ {k}) = permits - 1
    BY <2>1, FS_RemoveElement
  <2>3. \A j \in Keys : active[j] # None => active[j] \in DOMAIN objects /\ objects[active[j]].key = j
    BY ActiveObjects
  <2>4. \A j \in Keys : j # k /\ active[j] # None => active[j] # o
    BY <1>2, <2>3
  <2>5. CASE waiters = <<>>
    <3>1. Granted' = Granted \ {k}
      BY <1>4, <1>7, <2>3, <2>4, <2>5 DEF Granted
    <3> QED BY <1>1, <1>3, <2>2, <2>5, <3>1, LimitsArePositive DEF PermitsInv, BackendTypes
  <2>6. CASE waiters # <<>>
    <3> DEFINE j == objects[w].key
    <3>1. /\ j \in Keys \ {k} /\ active[j] = w /\ w # None /\ w \in DOMAIN objects
          /\ objects[w].adm = "waiting" /\ objects'[w].adm = "granted"
      BY <1>5, <1>7, <1>w, <2>6
    <3>2. j \notin Granted \ {k}
      BY <3>1 DEF Granted
    <3>3. Granted' = (Granted \ {k}) \union {j}
      <4>1. \A i \in Keys : active[i] = w => i = j
        BY <2>3, <3>1
      <4> HIDE DEF j
      <4> QED BY <1>4, <1>7, <2>3, <2>4, <3>1, <4>1 DEF Granted
    <3> HIDE DEF j
    <3>4. IsFiniteSet(Granted') /\ Cardinality(Granted') = permits - 1 + 1
      BY <2>2, <3>2, <3>3, FS_AddElement
    <3> QED BY <1>1, <1>3, <2>6, <3>4 DEF PermitsInv, BackendTypes
  <2> QED BY <2>5, <2>6
<1> QED BY <1>8, <1>9, <1>10, <1>11, <1>12 DEF BackendInv, Goes

(* The entry of a lease that has been released, without a waiting create.   *)
LEMMA EntryStep ==
    ASSUME BackendInv, PermitsInv, NEW l \in DOMAIN leases,
           leases[l].phase = "released", entries[leases[l].key] = l,
           entries' = [entries EXCEPT ![leases[l].key] = None],
           UNCHANGED <<permits, active, objects, waiters, leases, creations, calls, box>>
    PROVE  BackendInv' /\ PermitsInv'
<1> DEFINE k == leases[l].key
<1>1. BackendTypes /\ k \in Keys /\ l # None
  <2>1. BackendTypes
    BY DEF BackendInv
  <2> QED BY <2>1, Numbers DEF LeaseType
<1> HIDE DEF k
<1>2. entries' \in [Keys -> Nat] /\ entries'[k] = None /\ \A j \in Keys : j # k => entries'[j] = entries[j]
  BY <1>1 DEF BackendTypes, k, None
<1>3. BackendTypes'
  BY <1>1, <1>2 DEF BackendTypes
<1>4. ASSUME NEW m \in DOMAIN leases PROVE LeaseInv(m)'
  <2>1. LeaseInv(m) /\ leases[m].key \in Keys
    BY <1>1, Numbers DEF BackendInv, LeaseType
  <2>2. leases[m].phase \in {"live", "stopping"} => leases[m].key # k
    BY <2>1 DEF LeaseInv, k
  <2> QED BY <1>2, <2>1, <2>2 DEF LeaseInv
<1>5. ASSUME NEW j \in Keys PROVE KeyInv(j)'
  <2>1. KeyInv(j)
    BY DEF BackendInv
  <2>2. CASE j = k
    <3>1. creations[k] = None /\ active[k] = None
      BY <1>1, <2>1, <2>2 DEF KeyInv, k
    <3> QED BY <1>2, <2>2, <3>1 DEF KeyInv
  <2>3. CASE j # k
    BY <1>2, <2>1, <2>3 DEF KeyInv
  <2> QED BY <2>2, <2>3
<1>6. WaitersInv' /\ PermitsInv' /\ CallsInv'
  BY DEF BackendInv, WaitersInv, PermitsInv, Granted, CallsInv
<1> QED BY <1>3, <1>4, <1>5, <1>6 DEF BackendInv

(* The process dies.                                                        *)
LEMMA RestartStep ==
    ASSUME BackendInv, PermitsInv, ProcessRestarts
    PROVE  BackendInv' /\ PermitsInv' /\ \A k \in Keys : BoxInv(k)'
<1>1. BackendTypes'
  BY DEF ProcessRestarts, BackendInv, BackendTypes, None, CallType, Idle
<1>2. \A k \in Keys : KeyInv(k)' /\ BoxInv(k)'
  BY DEF ProcessRestarts, KeyInv, BoxInv
<1>3. (\A l \in DOMAIN leases : LeaseInv(l))' /\ WaitersInv' /\ CallsInv'
  BY DEF ProcessRestarts, WaitersInv, CallsInv, Idle
<1>4. PermitsInv'
  <2>1. Granted' = {}
    BY DEF ProcessRestarts, Granted
  <2> QED BY <2>1, FS_EmptySet, LimitsArePositive DEF PermitsInv, ProcessRestarts
<1> QED BY <1>1, <1>2, <1>3, <1>4 DEF BackendInv

-----------------------------------------------------------------------------
(* The steps of the process.                                                *)

(* The container of a session whose entry keeps its status.                 *)
LEMMA BoxElsewhere ==
    ASSUME NEW j \in Keys, BoxInv(j),
           box'[j] = box[j], j \in orphaned' <=> j \in orphaned,
           j \in doubtful => j \in doubtful', entries'[j] = entries[j],
           entries[j] # None =>
               (leases'[entries[j]].phase \in {"live", "stopping"}
                    <=> leases[entries[j]].phase \in {"live", "stopping"}),
           retired \subseteq retired'
    PROVE  BoxInv(j)'
  BY DEF BoxInv

(* What no step of the process does to a container: remove it, or bring it  *)
(* back under its old id.                                                   *)
BoxMoves ==
    /\ \A k \in Keys : box[k].state # "absent" => box'[k].state # "absent"
    /\ \A k \in Keys : box[k].state = "absent" =>
                          box'[k].state = "absent" \/ box'[k].id # box[k].id

AllBoxes == \A k \in Keys : BoxInv(k)

(* A lease that only moves between live and stopping.                       *)
LEMMA LeaseTimer ==
    ASSUME BackendTypes, NEW l \in DOMAIN leases, NEW b \in BOOLEAN,
           \/ leases' = leases
           \/ leases' = [leases EXCEPT ![l].timer = b]
           \/ /\ leases[l].phase \in {"live", "stopping"}
              /\ \E p \in {"live", "stopping"} :
                    \/ leases' = [leases EXCEPT ![l].phase = p]
                    \/ leases' = [leases EXCEPT ![l].phase = p, ![l].timer = b]
    PROVE  /\ leases' \in Seq(LeaseType) /\ DOMAIN leases' = DOMAIN leases
           /\ \A m \in DOMAIN leases :
                 /\ leases'[m].key = leases[m].key /\ leases'[m].object = leases[m].object
                 /\ \/ leases'[m].phase = leases[m].phase
                    \/ {leases'[m].phase, leases[m].phase} \subseteq {"live", "stopping"}
<1>1. leases \in Seq(LeaseType) /\ leases[l] \in LeaseType /\ l \in 1..Len(leases)
  BY DEF BackendTypes
<1>2. CASE leases' = leases
  BY <1>1, <1>2
<1>3. CASE leases' # leases
  <2>1. PICK t \in LeaseType :
            /\ leases' = [leases EXCEPT ![l] = t]
            /\ t.key = leases[l].key /\ t.object = leases[l].object
            /\ t.phase = leases[l].phase \/ {t.phase, leases[l].phase} \subseteq {"live", "stopping"}
    <3>1. CASE leases' = [leases EXCEPT ![l].timer = b]
      <4>1. [leases[l] EXCEPT !.timer = b] \in LeaseType
        BY <1>1 DEF LeaseType
      <4> QED BY <1>1, <3>1, <4>1 DEF LeaseType
    <3>2. ASSUME NEW p \in {"live", "stopping"}, leases[l].phase \in {"live", "stopping"},
                 leases' = [leases EXCEPT ![l].phase = p]
          PROVE  \E t \in LeaseType :
                    /\ leases' = [leases EXCEPT ![l] = t]
                    /\ t.key = leases[l].key /\ t.object = leases[l].object
                    /\ {t.phase, leases[l].phase} \subseteq {"live", "stopping"}
      <4>1. [leases[l] EXCEPT !.phase = p] \in LeaseType
        BY <1>1 DEF LeaseType
      <4> QED BY <1>1, <3>2, <4>1 DEF LeaseType
    <3>3. ASSUME NEW p \in {"live", "stopping"}, leases[l].phase \in {"live", "stopping"},
                 leases' = [leases EXCEPT ![l].phase = p, ![l].timer = b]
          PROVE  \E t \in LeaseType :
                    /\ leases' = [leases EXCEPT ![l] = t]
                    /\ t.key = leases[l].key /\ t.object = leases[l].object
                    /\ {t.phase, leases[l].phase} \subseteq {"live", "stopping"}
      <4>1. [leases[l] EXCEPT !.phase = p, !.timer = b] \in LeaseType
        BY <1>1 DEF LeaseType
      <4>2. leases' = [leases EXCEPT ![l] = [leases[l] EXCEPT !.phase = p, !.timer = b]]
        BY <1>1, <3>3
      <4> QED BY <1>1, <4>1, <4>2 DEF LeaseType
    <3> QED BY <1>3, <3>1, <3>2, <3>3
  <2>2. /\ leases' \in Seq(LeaseType) /\ DOMAIN leases' = DOMAIN leases
        /\ leases'[l] = t /\ \A m \in DOMAIN leases : m # l => leases'[m] = leases[m]
    BY <1>1, <2>1, ExceptSeq
  <2> QED BY <1>1, <2>1, <2>2
<1> QED BY <1>2, <1>3

(* What the uses of an entry do to the containers: nothing, but that a stop *)
(* that is reported as failed may have stopped one.                         *)
LEMMA UseOfBox ==
    ASSUME BackendInv,
           \/ \E c \in Callers : CaptureState(c) \/ Shutdown(c)
           \/ \E l \in DOMAIN leases : IdleTimer(l) \/ StopFails(l)
    PROVE  /\ box' \in [Keys -> BoxType] /\ doubtful \subseteq doubtful'
           /\ \A j \in Keys : \/ box'[j] = box[j]
                             \/ /\ box[j].state = "running" /\ box'[j].state = "stopped"
                                /\ j \in doubtful'
<1>1. box \in [Keys -> BoxType]
  BY DEF BackendInv, BackendTypes
<1>2. CASE UNCHANGED <<box, doubtful>>
  BY <1>1, <1>2
<1>3. ASSUME NEW l \in DOMAIN leases, StopFails(l), ~ UNCHANGED <<box, doubtful>>
      PROVE  /\ box' \in [Keys -> BoxType] /\ doubtful \subseteq doubtful'
             /\ \A j \in Keys : \/ box'[j] = box[j]
                               \/ /\ box[j].state = "running" /\ box'[j].state = "stopped"
                                  /\ j \in doubtful'
  <2>1. PICK k \in Keys : leases[l].key = k
    BY Numbers DEF BackendInv, LeaseType
  <2>2. /\ box[k].state = "running" /\ doubtful' = doubtful \cup {k}
        /\ box' = [box EXCEPT ![k].state = "stopped"]
    BY <1>3, <2>1 DEF StopFails, FailedStopLeaves
  <2>3. /\ box' \in [Keys -> BoxType] /\ box'[k].state = "stopped"
        /\ \A j \in Keys : j # k => box'[j] = box[j]
    BY <1>1, <2>2 DEF BoxType
  <2> QED BY <2>2, <2>3
<1>4. ASSUME NEW c \in Callers, CaptureState(c) \/ Shutdown(c) PROVE UNCHANGED <<box, doubtful>>
  BY <1>4 DEF CaptureState, Shutdown
<1>5. ASSUME NEW l \in DOMAIN leases, IdleTimer(l) PROVE UNCHANGED <<box, doubtful>>
  BY <1>5 DEF IdleTimer
<1> QED BY <1>2, <1>3, <1>4, <1>5

(* The uses of an entry.                                                    *)
LEMMA UseSteps ==
    ASSUME BackendInv, PermitsInv, AllBoxes, UNCHANGED retired,
           \/ \E c \in Callers : CaptureState(c) \/ Shutdown(c)
           \/ \E l \in DOMAIN leases : IdleTimer(l) \/ StopFails(l)
    PROVE  BackendInv' /\ PermitsInv' /\ AllBoxes' /\ BoxMoves
<1>1. UNCHANGED <<permits, active, objects, waiters, entries, creations, orphaned>>
  BY DEF CaptureState, Shutdown, IdleTimer, StopFails
<1>b. /\ box' \in [Keys -> BoxType] /\ doubtful \subseteq doubtful'
      /\ \A j \in Keys : \/ box'[j] = box[j]
                        \/ /\ box[j].state = "running" /\ box'[j].state = "stopped"
                           /\ j \in doubtful'
  BY UseOfBox
<1>2. BackendTypes /\ CallsInv
  BY DEF BackendInv
<1>3. PICK l \in DOMAIN leases, b \in BOOLEAN :
          \/ leases' = leases
          \/ leases' = [leases EXCEPT ![l].timer = b]
          \/ /\ leases[l].phase \in {"live", "stopping"}
             /\ \E p \in {"live", "stopping"} :
                   \/ leases' = [leases EXCEPT ![l].phase = p]
                   \/ leases' = [leases EXCEPT ![l].phase = p, ![l].timer = b]
  <2>1. ASSUME NEW c \in Callers, CaptureState(c) \/ Shutdown(c)
        PROVE  /\ calls[c].lease \in DOMAIN leases
               /\ \/ leases' = leases
                  \/ leases' = [leases EXCEPT ![calls[c].lease].timer = TRUE]
                  \/ /\ leases[calls[c].lease].phase = "live"
                     /\ leases' = [leases EXCEPT ![calls[c].lease].phase = "stopping",
                                                 ![calls[c].lease].timer = FALSE]
    BY <1>2, <2>1 DEF CaptureState, Shutdown, Stopped, CallsInv
  <2>2. ASSUME NEW l \in DOMAIN leases, IdleTimer(l) \/ StopFails(l)
        PROVE  \/ leases' = leases
               \/ leases' = [leases EXCEPT ![l].timer = FALSE]
               \/ leases[l].phase = "stopping" /\ leases' = [leases EXCEPT ![l].phase = "live"]
               \/ leases[l].phase = "live" /\ leases' = [leases EXCEPT ![l].phase = "stopping",
                                                                       ![l].timer = FALSE]
    BY <2>2 DEF IdleTimer, StopFails, Stopped
  <2> QED BY <2>1, <2>2
<1>4. /\ leases' \in Seq(LeaseType) /\ DOMAIN leases' = DOMAIN leases
      /\ \A m \in DOMAIN leases :
            /\ leases'[m].key = leases[m].key /\ leases'[m].object = leases[m].object
            /\ \/ leases'[m].phase = leases[m].phase
               \/ {leases'[m].phase, leases[m].phase} \subseteq {"live", "stopping"}
  BY <1>2, <1>3, LeaseTimer
<1>5. calls' \in [Callers -> CallType] /\ CallsInv'
  <2>1. ASSUME NEW c \in Callers, calls' = [calls EXCEPT ![c] = Idle]
        PROVE  calls' \in [Callers -> CallType] /\ CallsInv'
    BY <1>2, <1>4, <2>1 DEF BackendTypes, CallsInv, Idle, CallType, None
  <2>2. ASSUME NEW m \in DOMAIN leases, StopFails(m)
        PROVE  calls' \in [Callers -> CallType] /\ CallsInv'
    <3>1. [phase |-> "holds", lease |-> m] \in CallType
      BY <1>2, Numbers DEF CallType
    <3>2. calls' = Moved(Waiting("stop", m), [phase |-> "holds", lease |-> m])
      BY <2>2 DEF StopFails
    <3> QED BY <1>2, <1>4, <3>1, <3>2, MovedCalls, WaitingCallers
  <2>3. ASSUME UNCHANGED calls
        PROVE  calls' \in [Callers -> CallType] /\ CallsInv'
    BY <1>2, <1>4, <2>3 DEF BackendTypes, CallsInv
  <2> QED BY <2>1, <2>2, <2>3 DEF CaptureState, Shutdown, IdleTimer
<1>6. BackendInv' /\ PermitsInv'
  BY <1>1, <1>b, <1>2, <1>4, <1>5, QuietStep
<1>7. ASSUME NEW j \in Keys PROVE BoxInv(j)'
  <2>1. entries[j] # None => entries[j] \in DOMAIN leases
    BY DEF BackendInv, KeyInv
  <2>2. CASE box'[j] = box[j]
    BY <1>1, <1>b, <1>4, <2>1, <2>2, BoxElsewhere DEF AllBoxes
  <2>3. CASE box'[j].state = "stopped" /\ j \in doubtful'
    BY <2>3 DEF BoxInv
  <2> QED BY <1>b, <2>2, <2>3
<1>8. BoxMoves
  BY <1>b DEF BoxMoves
<1> QED BY <1>6, <1>7, <1>8 DEF AllBoxes

(* A step gets a handle, waits, or starts a create.                         *)
LEMMA CreateStep ==
    ASSUME BackendInv, PermitsInv, AllBoxes, UNCHANGED retired,
           NEW c \in Callers, NEW k \in Keys, Create(c, k)
    PROVE  BackendInv' /\ PermitsInv' /\ AllBoxes' /\ BoxMoves
<1>1. UNCHANGED <<entries, box, orphaned, doubtful>> /\ calls[c] = Idle
  BY DEF Create
<1>2. BackendTypes /\ CallsInv /\ KeyInv(k)
  BY DEF BackendInv
<1>3. CASE entries[k] # None
  <2>1. /\ leases' = [leases EXCEPT ![entries[k]].timer = FALSE]
        /\ \E p \in {"stop", "holds"} :
              calls' = [calls EXCEPT ![c] = [phase |-> p, lease |-> entries[k]]]
        /\ UNCHANGED <<permits, active, objects, waiters, creations>>
    BY <1>3 DEF Create
  <2>2. entries[k] \in DOMAIN leases /\ entries[k] \in Nat
    BY <1>2, <1>3 DEF KeyInv, BackendTypes
  <2>3. /\ leases' \in Seq(LeaseType) /\ DOMAIN leases' = DOMAIN leases
        /\ \A m \in DOMAIN leases :
              /\ leases'[m].key = leases[m].key /\ leases'[m].object = leases[m].object
              /\ \/ leases'[m].phase = leases[m].phase
                 \/ {leases'[m].phase, leases[m].phase} \subseteq {"live", "stopping"}
    BY <1>2, <2>1, <2>2, LeaseTimer
  <2>4. calls' \in [Callers -> CallType] /\ CallsInv'
    BY <1>2, <2>1, <2>2, <2>3 DEF BackendTypes, CallsInv, CallType
  <2>5. BackendInv' /\ PermitsInv'
    BY <1>1, <1>2, <2>1, <2>3, <2>4, QuietStep DEF BackendTypes
  <2>6. ASSUME NEW j \in Keys PROVE BoxInv(j)'
    <3>1. entries[j] # None => entries[j] \in DOMAIN leases
      BY DEF BackendInv, KeyInv
    <3> QED BY <1>1, <2>3, <3>1, BoxElsewhere DEF AllBoxes
  <2> QED BY <1>1, <2>5, <2>6 DEF AllBoxes, BoxMoves
<1>4. CASE entries[k] = None /\ InCreation(k)
  <2>1. /\ calls' = [calls EXCEPT ![c] = [phase |-> "create", lease |-> creations[k]]]
        /\ UNCHANGED <<permits, active, objects, waiters, leases, creations>>
    BY <1>4 DEF Create
  <2>2. creations[k] \in DOMAIN leases /\ creations[k] \in Nat
    BY <1>2, <1>4 DEF KeyInv, BackendTypes, InCreation
  <2>3. calls' \in [Callers -> CallType] /\ CallsInv'
    BY <1>2, <2>1, <2>2 DEF BackendTypes, CallsInv, CallType
  <2>4. BackendInv' /\ PermitsInv'
    BY <1>1, <1>2, <2>1, <2>3, QuietStep DEF BackendTypes
  <2>5. ASSUME NEW j \in Keys PROVE BoxInv(j)'
    BY <1>1, <2>1, BoxElsewhere DEF AllBoxes
  <2> QED BY <1>1, <2>4, <2>5 DEF AllBoxes, BoxMoves
<1>5. CASE entries[k] = None /\ ~ InCreation(k)
  <2>1. StartCreate(k, {c})
    BY <1>5 DEF Create
  <2>2. creations[k] = None /\ active[k] = None
    BY <1>2, <1>5 DEF InCreation, KeyInv
  <2>3. BackendInv' /\ PermitsInv'
    <3>1. {c} \in SUBSET Callers /\ entries' \in [Keys -> Nat]
      BY <1>1, <1>2 DEF BackendTypes
    <3> QED BY <1>1, <1>5, <2>1, <2>2, <3>1, StartStep
  <2>4. ASSUME NEW j \in Keys PROVE BoxInv(j)'
    <3>1. entries[j] # None => entries[j] \in DOMAIN leases
      BY DEF BackendInv, KeyInv
    <3>2. \A m \in DOMAIN leases : leases'[m] = leases[m]
      BY SMTT(30), <1>2, <2>1 DEF StartCreate, BackendTypes
    <3> QED BY <1>1, <3>1, <3>2, BoxElsewhere DEF AllBoxes
  <2> QED BY <1>1, <2>3, <2>4 DEF AllBoxes, BoxMoves
<1> QED BY <1>3, <1>4, <1>5

(* The wait of a create ends, and nothing happens to the containers.        *)
LEMMA AdmissionSteps ==
    ASSUME BackendInv, PermitsInv, AllBoxes, UNCHANGED retired,
           \/ \E o \in DOMAIN objects : AdmissionTimeout(o)
           \/ \E l \in DOMAIN leases : AdmissionGranted(l) \/ AdmissionRefused(l)
    PROVE  BackendInv' /\ PermitsInv' /\ AllBoxes' /\ BoxMoves
<1>1. UNCHANGED <<entries, box, orphaned, doubtful>>
  BY DEF AdmissionTimeout, AdmissionGranted, AdmissionRefused
<1>2. BackendInv' /\ PermitsInv'
  BY TimeoutStep, GrantedStep, RefusedStep
<1>3. ASSUME NEW j \in Keys PROVE BoxInv(j)'
  <2>1. entries[j] # None => /\ entries[j] \in DOMAIN leases
                             /\ leases[entries[j]].phase # "admission"
    BY DEF BackendInv, KeyInv
  <2>2. CASE \E o \in DOMAIN objects : AdmissionTimeout(o)
    BY <1>1, <2>2, BoxElsewhere DEF AdmissionTimeout, AllBoxes
  <2>3. ASSUME NEW l \in DOMAIN leases, AdmissionGranted(l) \/ AdmissionRefused(l)
        PROVE  BoxInv(j)'
    <3>1. leases[l].phase = "admission" /\ (Goes(l, "creating") \/ Goes(l, "failed"))
      BY <2>3, PhaseMoves DEF AdmissionGranted, AdmissionRefused, BackendInv
    <3>2. entries[j] # None => leases'[entries[j]].phase = leases[entries[j]].phase
      BY <2>1, <3>1 DEF Goes
    <3> QED BY <1>1, <3>2, BoxElsewhere DEF AllBoxes
  <2> QED BY <2>2, <2>3
<1> QED BY <1>1, <1>2, <1>3 DEF AllBoxes, BoxMoves

(* The container of another session at a step on the lease of k.            *)
LEMMA OneBox ==
    ASSUME BackendInv, AllBoxes, UNCHANGED retired, NEW l \in DOMAIN leases,
           NEW k \in Keys, leases[l].key = k,
           \A m \in DOMAIN leases : m # l => leases'[m].phase = leases[m].phase,
           NEW j \in Keys, j # k, box'[j] = box[j],
           j \in orphaned' <=> j \in orphaned, j \in doubtful => j \in doubtful',
           entries'[j] = entries[j]
    PROVE  BoxInv(j)'
<1>1. entries[j] # None => entries[j] \in DOMAIN leases /\ entries[j] # l
  BY DEF BackendInv, KeyInv
<1>2. entries[j] # None => leases'[entries[j]].phase = leases[entries[j]].phase
  BY <1>1
<1> QED BY <1>2, BoxElsewhere DEF AllBoxes

(* All containers after a step on the one of k.                             *)
LEMMA BoxesThen ==
    ASSUME NEW k \in Keys,
           \A j \in Keys : j # k => BoxInv(j)' /\ box'[j] = box[j],
           BoxInv(k)',
           box[k].state # "absent" => box'[k].state # "absent",
           box[k].state = "absent" => box'[k].state = "absent" \/ box'[k].id # box[k].id
    PROVE  AllBoxes' /\ BoxMoves
<1>1. \A j \in Keys : BoxInv(j)'
  OBVIOUS
<1>2. BoxMoves
  BY DEF BoxMoves
<1> QED BY <1>1, <1>2 DEF AllBoxes

(* The steps of the backend on the container of a lease.                    *)
LEMMA BoxSteps ==
    ASSUME BackendInv, PermitsInv, AllBoxes, UNCHANGED retired, NEW l \in DOMAIN leases,
           \/ BackendCreated(l) \/ StopSucceeds(l) \/ EntryRemoved(l)
           \/ \E left \in {"none", "stopped", "running"} : BackendFails(l, left)
    PROVE  BackendInv' /\ PermitsInv' /\ AllBoxes' /\ BoxMoves
<1>k. PICK k \in Keys : leases[l].key = k
  BY Numbers DEF BackendInv, LeaseType
<1>1. /\ BackendTypes /\ LeaseInv(l) /\ k \in Keys /\ KeyInv(k) /\ BoxInv(k)
      /\ l # None /\ l \in Nat /\ box[k] \in BoxType /\ CallsInv
  <2>1. BackendTypes /\ LeaseInv(l) /\ CallsInv
    BY DEF BackendInv
  <2>2. l # None /\ l \in Nat
    BY <1>k, <2>1, Numbers
  <2> QED BY <1>k, <2>1, <2>2 DEF BackendInv, AllBoxes, BackendTypes
<1>2. CASE BackendCreated(l)
  <2> DEFINE b == Started(k)
  <2>1. BackendInv' /\ PermitsInv'
    BY <1>2, CreatedStep
  <2>2. Goes(l, "live") /\ leases[l].phase = "creating"
    BY <1>1, <1>2, PhaseMoves DEF BackendCreated
  <2>3. box' = [box EXCEPT ![k] = b]
    BY <1>k, <1>2 DEF BackendCreated
  <2>4. \A j \in Keys : j # k => /\ (j \in orphaned' <=> j \in orphaned)
                                 /\ entries'[j] = entries[j] /\ doubtful' = doubtful
    BY <1>k, <1>1, <1>2 DEF BackendCreated, BackendTypes
  <2>5. /\ b \in BoxType /\ b.state = "running"
        /\ box[k].state = "absent" => b.id # box[k].id
    BY <1>k, <1>1, StartedType DEF BackendTypes
  <2> HIDE DEF b
  <2>6. /\ \A j \in Keys : j # k => BoxInv(j)' /\ box'[j] = box[j]
        /\ box'[k] = b
    <3>1. \A m \in DOMAIN leases : m # l => leases'[m].phase = leases[m].phase
      BY <2>2 DEF Goes
    <3>2. box'[k] = b /\ \A j \in Keys : j # k => box'[j] = box[j]
      BY <1>k, <1>1, <2>3 DEF BackendTypes
    <3>3. ASSUME NEW j \in Keys, j # k PROVE BoxInv(j)'
      <4>1. /\ (j \in orphaned' <=> j \in orphaned) /\ entries'[j] = entries[j]
            /\ j \in doubtful => j \in doubtful'
        BY <2>4, <3>3
      <4> QED BY <1>k, <3>1, <3>2, <3>3, <4>1, OneBox
    <3> QED BY <3>2, <3>3
  <2>7. entries'[k] = l
    BY <1>k, <1>1, <1>2 DEF BackendCreated, BackendTypes
  <2>8. BoxInv(k)'
    BY <1>k, <1>1, <2>2, <2>5, <2>6, <2>7 DEF BoxInv, Goes
  <2> QED BY <1>k, <1>1, <2>1, <2>5, <2>6, <2>8, BoxesThen
<1>3. CASE StopSucceeds(l)
  <2> DEFINE b == [box[k] EXCEPT !.state = IF box[k].state = "running" THEN "stopped"
                                           ELSE box[k].state]
  <2>1. /\ Goes(l, "released") /\ leases[l].phase = "stopping" /\ entries[k] = l
        /\ box' = [box EXCEPT ![k] = b]
        /\ Release(k, leases[l].object)
        /\ doubtful' = doubtful \ {k}
        /\ UNCHANGED <<entries, creations, calls, orphaned>>
    BY <1>k, <1>1, <1>3, PhaseMoves DEF StopSucceeds, LeaseInv
  <2>2. b \in BoxType /\ b.state # "running" /\ (b.state = "absent" <=> box[k].state = "absent")
        /\ b.id = box[k].id
    BY <1>k, <1>1 DEF BoxType
  <2> HIDE DEF b
  <2>3. /\ \A j \in Keys : j # k => BoxInv(j)' /\ box'[j] = box[j]
        /\ box'[k] = b
    <3>1. \A m \in DOMAIN leases : m # l => leases'[m].phase = leases[m].phase
      BY <2>1 DEF Goes
    <3>2. box'[k] = b /\ \A j \in Keys : j # k => box'[j] = box[j]
      BY <1>k, <1>1, <2>1 DEF BackendTypes
    <3>3. ASSUME NEW j \in Keys, j # k PROVE BoxInv(j)'
      <4>1. /\ (j \in orphaned' <=> j \in orphaned) /\ entries'[j] = entries[j]
            /\ j \in doubtful => j \in doubtful'
        BY <2>1, <3>3
      <4> QED BY <1>k, <3>1, <3>2, <3>3, <4>1, OneBox
    <3> QED BY <3>2, <3>3
  <2>4. BoxInv(k)'
    BY <1>k, <1>1, <2>1, <2>2, <2>3 DEF BoxInv, Goes
  <2>5. calls' \in [Callers -> CallType] /\ CallsInv' /\ box' \in [Keys -> BoxType]
        /\ creations' \in [Keys -> Nat] /\ creations'[k] = None
    <3>1. creations[k] = None
      BY <1>k, <1>1, <2>1 DEF KeyInv
    <3> QED BY <1>k, <1>1, <2>1, <2>2, <3>1 DEF BackendTypes, CallsInv, Goes
  <2>6. BackendInv' /\ PermitsInv'
    BY <1>k, <2>1, <2>5, ReleaseStep
  <2> QED BY <1>k, <1>1, <2>2, <2>3, <2>4, <2>6, BoxesThen
<1>4. CASE EntryRemoved(l)
  <2>1. /\ leases[l].phase = "released" /\ entries[k] = l
        /\ entries' = [entries EXCEPT ![k] = None]
        /\ UNCHANGED <<box, orphaned, doubtful>>
        /\ \/ UNCHANGED <<permits, active, objects, waiters, leases, creations, calls>>
           \/ StartCreate(k, Waiting("stop", l))
    BY <1>k, <1>4 DEF EntryRemoved
  <2>2. /\ entries' \in [Keys -> Nat] /\ entries'[k] = None
        /\ \A j \in Keys : j # k => entries'[j] = entries[j]
    BY <1>k, <1>1, <2>1 DEF BackendTypes, None
  <2>3. BackendInv' /\ PermitsInv'
    <3>1. CASE UNCHANGED <<permits, active, objects, waiters, leases, creations, calls>>
      BY <1>k, <2>1, <3>1, EntryStep
    <3>2. CASE StartCreate(k, Waiting("stop", l))
      <4>1. creations[k] = None /\ active[k] = None
        BY <1>k, <1>1, <2>1 DEF KeyInv
      <4> QED BY <1>k, <1>1, <2>1, <2>2, <3>2, <4>1, StartStep, WaitingCallers
    <3> QED BY <1>k, <2>1, <3>1, <3>2
  <2>4. \A m \in DOMAIN leases : leases'[m] = leases[m]
    <3>1. leases \in Seq(LeaseType) /\ (leases' = leases \/ \E x : leases' = Append(leases, x))
      BY <1>k, <1>1, <2>1 DEF StartCreate, BackendTypes
    <3> QED BY <3>1
  <2>5. ASSUME NEW j \in Keys PROVE BoxInv(j)'
    <3>1. entries[j] # None => entries[j] \in DOMAIN leases
      BY DEF BackendInv, KeyInv
    <3>2. CASE j = k
      BY <1>k, <1>1, <2>1, <2>2, <3>2 DEF BoxInv
    <3>3. CASE j # k
      BY <1>k, <2>1, <2>2, <2>4, <3>1, <3>3, BoxElsewhere DEF AllBoxes
    <3> QED BY <3>2, <3>3
  <2> QED BY <1>k, <2>1, <2>3, <2>5 DEF AllBoxes, BoxMoves
<1>5. ASSUME NEW left \in {"none", "stopped", "running"}, BackendFails(l, left)
      PROVE  BackendInv' /\ PermitsInv' /\ AllBoxes' /\ BoxMoves
  <2> DEFINE b == IF left = "none" THEN box[k] ELSE [Started(k) EXCEPT !.state = left]
  <2>1. /\ Goes(l, "failed") /\ leases[l].phase = "creating"
        /\ creations' = [creations EXCEPT ![k] = None]
        /\ calls' = Moved(Waiting("create", l), Idle)
        /\ Release(k, leases[l].object)
        /\ UNCHANGED <<entries, doubtful>>
    BY <1>k, <1>1, <1>5, PhaseMoves DEF BackendFails
  <2>2. box' = [box EXCEPT ![k] = b]
    BY <1>k, <1>1, <1>5 DEF BackendFails, BackendTypes
  <2>3. \A j \in Keys : j # k => (j \in orphaned' <=> j \in orphaned)
    BY <1>k, <1>5 DEF BackendFails
  <2>4. /\ b \in BoxType
        /\ b.state = "running" => k \in orphaned' \/ (box[k].state = "running" /\ orphaned' = orphaned)
        /\ box[k].state # "absent" => b.state # "absent"
        /\ box[k].state = "absent" => b.state = "absent" \/ b.id # box[k].id
    <3>1. CASE left = "none"
      BY <1>k, <1>1, <1>5, <3>1 DEF BackendFails
    <3>2. CASE left # "none"
      <4>1. /\ b \in BoxType /\ b.state = left
            /\ box[k].state = "absent" => b.id # box[k].id
        BY <1>k, <1>1, <3>2, StartedType DEF BackendTypes
      <4>2. left = "running" => k \in orphaned'
        BY <1>k, <1>5 DEF BackendFails
      <4>3. left # "absent"
        OBVIOUS
      <4> HIDE DEF b
      <4> QED BY <3>2, <4>1, <4>2, <4>3
    <3> QED BY <3>1, <3>2
  <2> HIDE DEF b
  <2>5. /\ \A j \in Keys : j # k => BoxInv(j)' /\ box'[j] = box[j]
        /\ box'[k] = b
    <3>1. \A m \in DOMAIN leases : m # l => leases'[m].phase = leases[m].phase
      BY <2>1 DEF Goes
    <3>2. box'[k] = b /\ \A j \in Keys : j # k => box'[j] = box[j]
      BY <1>k, <1>1, <2>2 DEF BackendTypes
    <3>3. ASSUME NEW j \in Keys, j # k PROVE BoxInv(j)'
      <4>1. /\ (j \in orphaned' <=> j \in orphaned) /\ entries'[j] = entries[j]
            /\ j \in doubtful => j \in doubtful'
        BY <2>1, <2>3, <3>3
      <4> QED BY <1>k, <3>1, <3>2, <3>3, <4>1, OneBox
    <3> QED BY <3>2, <3>3
  <2>6. entries[k] = None
    BY <1>k, <1>1, <2>1 DEF LeaseInv, KeyInv
  <2>7. BoxInv(k)'
    <3>1. entries'[k] = None
      BY <1>k, <2>1, <2>6
    <3>2. box[k].state = "running" => k \in orphaned
      BY <1>k, <1>1, <2>6 DEF BoxInv
    <3> QED BY <1>k, <2>4, <2>5, <3>1, <3>2 DEF BoxInv
  <2>8. /\ calls' \in [Callers -> CallType] /\ CallsInv' /\ box' \in [Keys -> BoxType]
        /\ creations' \in [Keys -> Nat] /\ creations'[k] = None
        /\ \A j \in Keys : j # k => creations'[j] = creations[j]
    <3>1. Idle \in CallType /\ Idle.phase = "idle"
      BY DEF Idle, CallType, None
    <3>2. calls' \in [Callers -> CallType] /\ CallsInv'
      BY <1>k, <1>1, <2>1, <3>1, MovedCalls, WaitingCallers DEF Goes
    <3> QED BY <1>k, <1>1, <2>1, <2>2, <2>4, <3>2 DEF BackendTypes, None
  <2>9. BackendInv' /\ PermitsInv'
    BY <1>k, <2>1, <2>8, ReleaseStep
  <2> QED BY <1>k, <1>1, <2>4, <2>5, <2>7, <2>9, BoxesThen
<1> QED BY <1>2, <1>3, <1>4, <1>5

(* Every step of the agent process.                                         *)
LEMMA ProcessSteps ==
    ASSUME BackendInv, PermitsInv, AllBoxes, ProcessStep
    PROVE  BackendInv' /\ PermitsInv' /\ AllBoxes' /\ BoxMoves
<1>1. UNCHANGED retired
  BY DEF ProcessStep
<1>2. ASSUME NEW c \in Callers, NEW k \in Keys \ retired, Create(c, k)
      PROVE  BackendInv' /\ PermitsInv' /\ AllBoxes' /\ BoxMoves
  BY <1>1, <1>2, CreateStep
<1>3. CASE \E c \in Callers : CaptureState(c) \/ Shutdown(c)
  BY <1>1, <1>3, UseSteps
<1>4. CASE \E o \in DOMAIN objects : AdmissionTimeout(o)
  BY <1>1, <1>4, AdmissionSteps
<1>5. CASE LeaseStep
  <2>1. PICK l \in DOMAIN leases :
           \/ AdmissionGranted(l) \/ AdmissionRefused(l) \/ BackendCreated(l)
           \/ IdleTimer(l) \/ StopSucceeds(l) \/ EntryRemoved(l) \/ StopFails(l)
           \/ \E left \in {"none", "stopped", "running"} : BackendFails(l, left)
    BY <1>5 DEF LeaseStep
  <2>2. CASE AdmissionGranted(l) \/ AdmissionRefused(l)
    BY <1>1, <2>2, AdmissionSteps
  <2>3. CASE IdleTimer(l) \/ StopFails(l)
    BY <1>1, <2>3, UseSteps
  <2>4. CASE \/ BackendCreated(l) \/ StopSucceeds(l) \/ EntryRemoved(l)
             \/ \E left \in {"none", "stopped", "running"} : BackendFails(l, left)
    BY <1>1, <2>4, BoxSteps
  <2> QED BY <2>1, <2>2, <2>3, <2>4
<1>6. CASE ProcessRestarts
  <2>1. BoxMoves
    BY <1>6 DEF ProcessRestarts, BoxMoves
  <2> QED BY <1>6, <2>1, RestartStep DEF AllBoxes
<1> QED BY <1>2, <1>3, <1>4, <1>5, <1>6 DEF ProcessStep

-----------------------------------------------------------------------------
(* The deletions and the reapers.                                           *)

CleanupInv == /\ CleanupTypes
              /\ \A k \in Keys : RowInv(k)
              /\ \A w \in Workers : ReaperInv(w)

(* What a reaper knows in each phase.                                       *)
LEMMA ReaperRecords ==
    ASSUME NEW r \in ReaperType
    PROVE  /\ r.phase \in {"idle", "listed", "missing", "selected", "claimed", "removed"}
           /\ r.phase # "idle" => r.key \in Keys
           /\ r.phase \in {"selected", "claimed", "removed"} => r.id \in Nat /\ r.exact \in BOOLEAN
           /\ r.phase \in {"claimed", "removed"} =>
                 /\ r.token \in Nat
                 /\ [r EXCEPT !.phase = "removed"] \in ReaperType
                 /\ [r EXCEPT !.phase = "removed"].phase = "removed"
                 /\ [r EXCEPT !.phase = "removed"].key = r.key
<1>1. CASE r = Resting
  BY <1>1 DEF Resting
<1>2. CASE r \in [phase : {"listed", "missing"}, key : Keys]
  BY <1>2
<1>3. CASE r \in [phase : {"selected"}, key : Keys, id : Nat, exact : BOOLEAN]
  BY <1>3
<1>4. CASE r \in [phase : {"claimed", "removed"}, key : Keys, id : Nat, exact : BOOLEAN, token : Nat]
  BY <1>4 DEF ReaperType
<1> QED BY <1>1, <1>2, <1>3, <1>4 DEF ReaperType

(* A step that leaves a row or a reaper as it is, or changes it to one that *)
(* satisfies the invariant.                                                 *)
LEMMA CleanupMoves ==
    ASSUME CleanupInv, retired \subseteq retired', CleanupTypes',
           \A j \in retired \cap Keys : Gone(j) => Gone(j)',
           \A j \in Keys : \/ deletions'[j] = deletions[j]
                           \/ /\ RowInv(j)'
                              /\ deletions[j].status # "none" => deletions'[j].status # "none",
           \A v \in Workers : workers'[v] = workers[v] \/ ReaperInv(v)'
    PROVE  CleanupInv'
<1>1. ASSUME NEW j \in Keys PROVE RowInv(j)'
  <2>1. RowInv(j)
    BY DEF CleanupInv
  <2>2. CASE deletions'[j] = deletions[j]
    BY <2>1, <2>2 DEF RowInv
  <2> QED BY <2>2
<1>2. ASSUME NEW v \in Workers PROVE ReaperInv(v)'
  <2>1. ReaperInv(v) /\ workers[v] \in ReaperType
    BY DEF CleanupInv, CleanupTypes
  <2>2. workers[v].phase # "idle" => workers[v].key \in Keys
    BY <2>1, ReaperRecords
  <2>3. \A j \in Keys : deletions[j].status # "none" => deletions'[j].status # "none"
    OBVIOUS
  <2>4. CASE workers'[v] = workers[v]
    BY <2>1, <2>2, <2>3, <2>4 DEF ReaperInv
  <2> QED BY <2>4
<1> QED BY <1>1, <1>2 DEF CleanupInv

(* A container that is gone stays away from a retired session, whatever the *)
(* process does, unless a create that was under way makes a new one.        *)
LEMMA GoneStays ==
    ASSUME BoxMoves, late' = late \cup {k \in retired : box'[k].id # box[k].id},
           NEW j \in retired \cap Keys, Gone(j)
    PROVE  Gone(j)'
  BY DEF BoxMoves, Gone

(* A reaper that rests has nothing to keep.                                 *)
LEMMA RestingReaper ==
    ASSUME CleanupInv, NEW w \in Workers, workers' = [workers EXCEPT ![w] = Resting]
    PROVE  /\ workers' \in [Workers -> ReaperType] /\ ReaperInv(w)'
           /\ \A v \in Workers : v # w => workers'[v] = workers[v]
  BY DEF CleanupInv, CleanupTypes, ReaperType, Resting, ReaperInv

(* The row of a retired session is made, or its lease runs out.             *)
LEMMA RequestSteps ==
    ASSUME CleanupInv, NEW k \in Keys, RequestDeletion(k) \/ LeaseExpires(k)
    PROVE  CleanupInv'
<1>1. UNCHANGED <<box, retired, late, workers>>
  BY DEF RequestDeletion, LeaseExpires, backendVars
<1>2. CleanupTypes /\ RowInv(k)
  BY DEF CleanupInv
<1>3. CleanupTypes'
  <2>1. CASE RequestDeletion(k)
    BY <1>1, <1>2, <2>1 DEF CleanupTypes, RequestDeletion
  <2>2. CASE LeaseExpires(k)
    BY <1>1, <1>2, <2>2 DEF CleanupTypes, LeaseExpires
  <2> QED BY <2>1, <2>2
<1>4. RowInv(k)' /\ (deletions[k].status # "none" => deletions'[k].status # "none")
  BY <1>1, <1>2 DEF RequestDeletion, LeaseExpires, RowInv, Gone, CleanupTypes
<1>5. \A j \in Keys : j # k => deletions'[j] = deletions[j]
  BY <1>2 DEF CleanupTypes, RequestDeletion, LeaseExpires
<1> QED BY <1>1, <1>3, <1>4, <1>5, CleanupMoves DEF Gone

(* The steps that only change rows and reapers.                             *)
LEMMA RowSteps ==
    ASSUME CleanupInv, box \in [Keys -> BoxType], NEW k \in Keys, NEW w \in Workers,
           \/ ListReady(w, k) \/ OperatorSelects(w, k)
           \/ SelectContainer(w) \/ ClaimDeletion(w) \/ RemovalFails(w)
           \/ CompleteDeletion(w) \/ CompleteMissing(w) \/ WorkerDies(w)
    PROVE  CleanupInv' /\ UNCHANGED <<box, retired, late>>
<1>1. UNCHANGED <<box, retired, late>>
  BY DEF ListReady, OperatorSelects, SelectContainer,
         ClaimDeletion, RemovalFails, CompleteDeletion, CompleteMissing, WorkerDies,
         backendVars
<1>2. /\ retired \subseteq retired'
      /\ \A j \in retired \cap Keys : Gone(j) => Gone(j)'
  BY <1>1 DEF Gone
<1>3. CleanupTypes /\ RowInv(k) /\ ReaperInv(w) /\ workers[w] \in ReaperType
  BY DEF CleanupInv, CleanupTypes
<1>4. CASE ListReady(w, k)
  <2>1. deletions[k].status # "none" /\ k \in retired
    BY <1>3, <1>4 DEF ListReady, Ready, RowInv
  <2>2. CleanupTypes' /\ ReaperInv(w)'
    BY <1>1, <1>3, <1>4, <2>1 DEF ListReady, CleanupTypes, ReaperType, ReaperInv
  <2> QED BY <1>1, <1>2, <1>3, <1>4, <2>2, CleanupMoves DEF ListReady, CleanupTypes
<1>5. CASE OperatorSelects(w, k)
  <2>1. box[k].id \in Nat
    BY DEF BoxType
  <2>2. CleanupTypes' /\ ReaperInv(w)'
    BY <1>1, <1>3, <1>5, <2>1 DEF OperatorSelects, CleanupTypes, ReaperType, ReaperInv
  <2> QED BY <1>1, <1>2, <1>3, <1>5, <2>2, CleanupMoves DEF OperatorSelects, CleanupTypes
<1>6. CASE SelectContainer(w)
  <2>k. PICK j \in Keys : workers[w].key = j
    BY <1>3, <1>6, ReaperRecords DEF SelectContainer
  <2>1. /\ j \in retired /\ deletions[j].status # "none" /\ box[j] \in BoxType
    BY <2>k, <1>3, <1>6 DEF SelectContainer, ReaperInv
  <2>2. CASE workers' = [workers EXCEPT ![w] =
                [phase |-> "selected", key |-> j, id |-> box[j].id, exact |-> TRUE]]
    <3>1. CleanupTypes' /\ ReaperInv(w)'
      <4>1. [phase |-> "selected", key |-> j, id |-> box[j].id, exact |-> TRUE] \in ReaperType
        BY <2>1 DEF ReaperType, BoxType
      <4>2. UNCHANGED deletions
        BY <1>6 DEF SelectContainer
      <4> QED BY <1>3, <2>2, <4>1, <4>2 DEF CleanupTypes, ReaperInv
    <3> QED BY <1>1, <1>2, <1>3, <1>6, <2>2, <3>1, CleanupMoves DEF SelectContainer, CleanupTypes
  <2>3. CASE /\ workers' = [workers EXCEPT ![w] = [phase |-> "missing", key |-> j]]
             /\ box[j].state = "absent"
    <3>1. CleanupTypes' /\ ReaperInv(w)'
      <4>1. [phase |-> "missing", key |-> j] \in ReaperType
        BY DEF ReaperType
      <4>2. UNCHANGED deletions
        BY <1>6 DEF SelectContainer
      <4> QED BY <1>1, <1>3, <2>1, <2>3, <4>1, <4>2 DEF CleanupTypes, ReaperInv, Gone
    <3> QED BY <1>1, <1>2, <1>3, <1>6, <2>3, <3>1, CleanupMoves DEF SelectContainer, CleanupTypes
  <2>4. CASE workers' = [workers EXCEPT ![w] = Resting]
    <3>1. UNCHANGED deletions
      BY <1>6 DEF SelectContainer
    <3>2. CleanupTypes' /\ ReaperInv(w)' /\ \A v \in Workers : v # w => workers'[v] = workers[v]
      BY <1>3, <2>4, <3>1, RestingReaper DEF CleanupTypes
    <3> QED BY <1>1, <1>2, <3>1, <3>2, CleanupMoves
  <2> QED BY <1>6, <2>k, <2>2, <2>3, <2>4 DEF SelectContainer, NoContainer
<1>7. CASE ClaimDeletion(w)
  <2>k. PICK j \in Keys : workers[w].key = j
    BY <1>3, <1>7, ReaperRecords DEF ClaimDeletion
  <2>1. RowInv(j) /\ deletions[j].attempt \in Nat
    BY <1>3 DEF CleanupInv, CleanupTypes
  <2>2. CASE Ready(j)
    <3> DEFINE row == [status |-> "claimed", attempt |-> deletions[j].attempt + 1, expired |-> FALSE]
               reaper == [phase |-> "claimed", key |-> j, id |-> workers[w].id,
                          exact |-> workers[w].exact, token |-> deletions[j].attempt + 1]
    <3>1. deletions' = [deletions EXCEPT ![j] = row] /\ workers' = [workers EXCEPT ![w] = reaper]
      BY <1>7, <2>k, <2>2 DEF ClaimDeletion
    <3>2. deletions[j].status # "none" /\ j \in retired
      BY <2>1, <2>2 DEF Ready, RowInv
    <3>3. reaper \in ReaperType
      <4>1. workers[w].id \in Nat /\ workers[w].exact \in BOOLEAN
        BY <1>3, <1>7, ReaperRecords DEF ClaimDeletion
      <4> QED BY <2>1, <4>1 DEF ReaperType
    <3>4. CleanupTypes'
      BY <1>3, <2>1, <3>1, <3>3 DEF CleanupTypes
    <3>5. RowInv(j)' /\ ReaperInv(w)' /\ deletions'[j].status # "none"
      BY <1>1, <1>3, <3>1, <3>2 DEF CleanupTypes, RowInv, ReaperInv
    <3> HIDE DEF row, reaper
    <3> QED BY <1>1, <1>2, <1>3, <3>1, <3>2, <3>4, <3>5, CleanupMoves DEF CleanupTypes
  <2>3. CASE ~ Ready(j)
    <3>1. workers' = [workers EXCEPT ![w] = Resting] /\ UNCHANGED deletions
      BY <1>7, <2>k, <2>3 DEF ClaimDeletion
    <3>2. CleanupTypes' /\ ReaperInv(w)' /\ \A v \in Workers : v # w => workers'[v] = workers[v]
      BY <1>3, <3>1, RestingReaper DEF CleanupTypes
    <3> QED BY <1>1, <1>2, <3>1, <3>2, CleanupMoves
  <2> QED BY <2>2, <2>3
<1>8. ASSUME NEW status \in {"failed", "completed"}, workers[w].phase \in {"claimed", "removed"},
              status = "completed" => workers[w].phase = "removed",
              deletions' = Settled(w, status), workers' = [workers EXCEPT ![w] = Resting]
       PROVE  CleanupInv'
  <2>k. PICK j \in Keys : workers[w].key = j
    BY <1>3, <1>8, ReaperRecords
  <2>1. /\ j \in retired /\ deletions[j].status # "none"
        /\ status = "completed" => Gone(j)
    BY <1>3, <1>8, <2>k DEF ReaperInv
  <2>2. CleanupTypes' /\ ReaperInv(w)' /\ \A v \in Workers : v # w => workers'[v] = workers[v]
    <3>1. deletions' \in [Keys -> [status : {"none", "authorized", "claimed", "failed", "completed"},
                                   attempt : Nat, expired : BOOLEAN]]
      BY <1>3, <1>8, <2>k DEF CleanupTypes, Settled
    <3> QED BY <1>8, <3>1, RestingReaper DEF CleanupTypes
  <2>3. CASE Owns(w)
    <3>1. deletions' = [deletions EXCEPT ![j].status = status]
      BY <1>8, <2>k, <2>3 DEF Settled
    <3>2. RowInv(j)' /\ deletions'[j].status # "none"
      BY <1>1, <1>3, <2>1, <3>1 DEF RowInv, Gone, CleanupTypes
    <3> QED BY <1>2, <1>3, <2>2, <3>1, <3>2, CleanupMoves DEF CleanupTypes
  <2>4. CASE ~ Owns(w)
    BY <1>2, <1>8, <2>2, <2>4, CleanupMoves DEF Settled
  <2> QED BY <2>3, <2>4
<1>9. CASE RemovalFails(w)
  BY <1>1, <1>8, <1>9 DEF RemovalFails
<1>10. CASE CompleteDeletion(w)
  BY <1>1, <1>8, <1>10 DEF CompleteDeletion
<1>11. CASE CompleteMissing(w)
  <2>k. PICK j \in Keys : workers[w].key = j
    BY <1>3, <1>11, ReaperRecords DEF CompleteMissing
  <2>1. j \in retired /\ deletions[j].status # "none" /\ Gone(j)
    BY <1>3, <1>11, <2>k DEF ReaperInv, CompleteMissing
  <2>2. \/ UNCHANGED deletions
        \/ deletions' = [deletions EXCEPT ![j] =
                [status |-> "completed", attempt |-> deletions[j].attempt + 1,
                 expired |-> deletions[j].expired]]
    BY <1>3, <1>11, <2>k DEF CompleteMissing, CleanupTypes
  <2>3. workers' = [workers EXCEPT ![w] = Resting]
    BY <1>11 DEF CompleteMissing
  <2>4. /\ CleanupTypes' /\ ReaperInv(w)' /\ \A v \in Workers : v # w => workers'[v] = workers[v]
        /\ deletions[j].attempt \in Nat
    <3>1. /\ deletions[j].attempt \in Nat /\ deletions[j].attempt + 1 \in Nat
          /\ deletions[j].expired \in BOOLEAN
      BY <1>3 DEF CleanupTypes
    <3>2. [status |-> "completed", attempt |-> deletions[j].attempt + 1, expired |-> deletions[j].expired]
             \in [status : {"none", "authorized", "claimed", "failed", "completed"},
                  attempt : Nat, expired : BOOLEAN]
      BY <3>1
    <3>3. deletions' \in [Keys -> [status : {"none", "authorized", "claimed", "failed", "completed"},
                                   attempt : Nat, expired : BOOLEAN]]
      BY <1>3, <2>2, <3>2 DEF CleanupTypes
    <3> QED BY <2>3, <3>1, <3>3, RestingReaper DEF CleanupTypes
  <2>5. CASE UNCHANGED deletions
    BY <1>1, <1>2, <2>4, <2>5, CleanupMoves
  <2>6. CASE deletions' = [deletions EXCEPT ![j] =
                [status |-> "completed", attempt |-> deletions[j].attempt + 1,
                 expired |-> deletions[j].expired]]
    <3>1. RowInv(j)' /\ deletions'[j].status # "none"
      BY <1>1, <1>3, <2>1, <2>6 DEF RowInv, Gone, CleanupTypes
    <3> QED BY <1>1, <1>2, <1>3, <2>4, <2>6, <3>1, CleanupMoves DEF CleanupTypes
  <2> QED BY <2>2, <2>5, <2>6
<1>12. CASE WorkerDies(w)
  <2>1. workers' = [workers EXCEPT ![w] = Resting] /\ UNCHANGED deletions
    BY <1>12 DEF WorkerDies
  <2>2. CleanupTypes' /\ ReaperInv(w)' /\ \A v \in Workers : v # w => workers'[v] = workers[v]
    BY <1>3, <2>1, RestingReaper DEF CleanupTypes
  <2> QED BY <1>1, <1>2, <2>1, <2>2, CleanupMoves
<1> QED BY <1>1, <1>4, <1>5, <1>6, <1>7, <1>9, <1>10, <1>11, <1>12

(* A container is removed: its session is retired, and it is gone.          *)
LEMMA RemoveStep ==
    ASSUME SandboxInv, NEW w \in Workers, RemoveContainer(w)
    PROVE  /\ SandboxInv'
           /\ \A j \in Keys : box'[j] # box[j] =>
                  j \in retired /\ deletions[j].status # "none"
<1>1. /\ BackendInv /\ PermitsInv /\ AllBoxes /\ CleanupInv
      /\ workers[w] \in ReaperType /\ ReaperInv(w) /\ workers[w].phase = "claimed"
  BY DEF SandboxInv, AllBoxes, CleanupInv, CleanupTypes, RemoveContainer
<1>k. PICK k \in Keys : workers[w].key = k
  BY <1>1, ReaperRecords
<1>2. k \in retired /\ deletions[k].status # "none"
  BY <1>k, <1>1 DEF ReaperInv
<1>3. /\ box' = [box EXCEPT ![k].state = "absent"]
      /\ orphaned' = orphaned \ {k}
      /\ workers' = [workers EXCEPT ![w] = [workers[w] EXCEPT !.phase = "removed"]]
      /\ UNCHANGED <<permits, active, objects, waiters, leases, entries, creations, calls,
                     doubtful, deletions, retired, late>>
  BY <1>k DEF RemoveContainer
<1>4. /\ box' \in [Keys -> BoxType] /\ box'[k].state = "absent"
      /\ \A j \in Keys : j # k => box'[j] = box[j]
  BY <1>1, <1>3 DEF BackendInv, BackendTypes, BoxType
<1>5. BackendInv' /\ PermitsInv'
  <2>1. CallsInv' /\ calls' \in [Callers -> CallType] /\ leases' \in Seq(LeaseType)
    BY <1>1, <1>3 DEF BackendInv, BackendTypes, CallsInv
  <2> QED BY <1>1, <1>3, <1>4, <2>1, QuietStep
<1>6. AllBoxes'
  <2>1. ASSUME NEW j \in Keys, j # k PROVE BoxInv(j)'
    BY <1>1, <1>3, <1>4, <2>1, BoxElsewhere DEF AllBoxes
  <2>2. BoxInv(k)'
    BY <1>2, <1>3, <1>4 DEF BoxInv
  <2> QED BY <2>1, <2>2 DEF AllBoxes
<1>7. CleanupInv'
  <2>1. \A j \in retired \cap Keys : Gone(j) => Gone(j)'
    BY <1>3, <1>4 DEF Gone
  <2>2. /\ [workers[w] EXCEPT !.phase = "removed"] \in ReaperType
        /\ [workers[w] EXCEPT !.phase = "removed"].phase = "removed"
        /\ [workers[w] EXCEPT !.phase = "removed"].key = k
    BY <1>k, <1>1, ReaperRecords
  <2>3. CleanupTypes' /\ ReaperInv(w)' /\ \A v \in Workers : v # w => workers'[v] = workers[v]
    BY <1>1, <1>2, <1>3, <1>4, <2>2 DEF CleanupInv, CleanupTypes, ReaperInv, Gone
  <2> QED BY <1>1, <1>3, <2>1, <2>3, CleanupMoves
<1>8. \A j \in Keys : box'[j] # box[j] => j \in retired /\ deletions[j].status # "none"
  BY <1>2, <1>4
<1> QED BY <1>5, <1>6, <1>7, <1>8 DEF SandboxInv, AllBoxes, CleanupInv

(* A retirement changes nothing but the set of the retired sessions.        *)
LEMMA RetireStep ==
    ASSUME SandboxInv, NEW k \in Keys, RetireSession(k)
    PROVE  SandboxInv' /\ UNCHANGED box
<1>1. /\ BackendInv /\ PermitsInv /\ AllBoxes /\ CleanupInv
      /\ retired' = retired \cup {k}
      /\ UNCHANGED <<permits, active, objects, waiters, leases, entries, creations, calls, box,
                     orphaned, doubtful, deletions, workers, late>>
  BY DEF SandboxInv, AllBoxes, CleanupInv, RetireSession, backendVars
<1>2. BackendInv' /\ PermitsInv'
  <2>1. /\ CallsInv' /\ calls' \in [Callers -> CallType] /\ leases' \in Seq(LeaseType)
        /\ box' \in [Keys -> BoxType]
    BY <1>1 DEF BackendInv, BackendTypes, CallsInv
  <2> QED BY <1>1, <2>1, QuietStep
<1>3. AllBoxes'
  BY <1>1, BoxElsewhere DEF AllBoxes
<1>4. CleanupInv'
  BY <1>1, CleanupMoves DEF Gone, CleanupInv, CleanupTypes
<1> QED BY <1>1, <1>2, <1>3, <1>4 DEF SandboxInv, AllBoxes, CleanupInv

(* A step that changes only rows and reapers keeps the backend as it is.    *)
LEMMA BackendFrame ==
    ASSUME SandboxInv, CleanupInv',
           UNCHANGED <<permits, active, objects, waiters, leases, entries, creations, calls, box,
                       orphaned, doubtful, retired>>
    PROVE  SandboxInv'
<1>1. BackendInv /\ PermitsInv /\ AllBoxes
  BY DEF SandboxInv, AllBoxes
<1>2. BackendInv' /\ PermitsInv'
  <2>1. /\ CallsInv' /\ calls' \in [Callers -> CallType] /\ leases' \in Seq(LeaseType)
        /\ box' \in [Keys -> BoxType]
    BY <1>1 DEF BackendInv, BackendTypes, CallsInv
  <2> QED BY <1>1, <2>1, QuietStep
<1>3. AllBoxes'
  BY <1>1, BoxElsewhere DEF AllBoxes
<1> QED BY <1>2, <1>3 DEF SandboxInv, AllBoxes, CleanupInv

-----------------------------------------------------------------------------
(* The invariant.                                                           *)

(* No permit, no lease, no container and no row at the start.               *)
LEMMA SandboxInit == Init => SandboxInv
<1> SUFFICES ASSUME Init PROVE SandboxInv
  OBVIOUS
<1> USE DEF Init, BackendInit
<1>1. BackendTypes
  BY DEF BackendTypes, None, Idle, CallType, Absent, BoxType
<1>2. BackendInv
  BY <1>1 DEF BackendInv, KeyInv, WaitersInv, CallsInv, Idle
<1>3. PermitsInv
  <2>1. Granted = {}
    BY DEF Granted
  <2> QED BY <2>1, FS_EmptySet, LimitsArePositive DEF PermitsInv
<1>4. \A k \in Keys : BoxInv(k)
  BY DEF BoxInv, Absent
<1>5. CleanupTypes
  BY DEF CleanupTypes, ReaperType
<1>6. (\A k \in Keys : RowInv(k)) /\ (\A w \in Workers : ReaperInv(w))
  BY DEF RowInv, ReaperInv, Resting
<1> QED BY <1>2, <1>3, <1>4, <1>5, <1>6 DEF SandboxInv

(* What a step may take away from a session.                                *)
OnlyRetiredLose ==
    \A k \in Keys : box[k].state # "absent" /\ box'[k].state = "absent"
                      => k \in retired /\ deletions[k].status # "none"

(* Every step keeps the invariant and takes no container but a retired one. *)
LEMMA SandboxStep ==
    ASSUME SandboxInv, [Next]_vars
    PROVE  SandboxInv' /\ OnlyRetiredLose
<1>1. /\ BackendInv /\ PermitsInv /\ AllBoxes /\ CleanupInv
      /\ box \in [Keys -> BoxType]
  BY DEF SandboxInv, AllBoxes, CleanupInv, BackendInv, BackendTypes
<1>2. CASE ProcessStep
  <2>1. BackendInv' /\ PermitsInv' /\ AllBoxes' /\ BoxMoves
    BY <1>1, <1>2, ProcessSteps
  <2>2. /\ late' = late \cup {k \in retired : box'[k].id # box[k].id}
        /\ UNCHANGED <<deletions, workers, retired>>
    BY <1>2 DEF ProcessStep
  <2>3. \A j \in retired \cap Keys : Gone(j) => Gone(j)'
    BY <2>1, <2>2, GoneStays
  <2>4. CleanupInv'
    BY <1>1, <2>2, <2>3, CleanupMoves DEF CleanupInv, CleanupTypes
  <2>5. OnlyRetiredLose
    BY <2>1 DEF BoxMoves, OnlyRetiredLose
  <2> QED BY <2>1, <2>4, <2>5 DEF SandboxInv, AllBoxes, CleanupInv
<1>3. ASSUME NEW k \in Keys, RequestDeletion(k) \/ LeaseExpires(k)
      PROVE  SandboxInv' /\ OnlyRetiredLose
  <2>1. UNCHANGED <<permits, active, objects, waiters, leases, entries, creations, calls, box,
                    orphaned, doubtful, retired>>
    BY <1>3 DEF RequestDeletion, LeaseExpires, backendVars
  <2> QED BY <1>1, <1>3, <2>1, RequestSteps, BackendFrame DEF OnlyRetiredLose
<1>4. ASSUME NEW k \in Keys, RetireSession(k) PROVE SandboxInv' /\ OnlyRetiredLose
  BY <1>4, RetireStep DEF OnlyRetiredLose
<1>5. ASSUME NEW w \in Workers, NEW k \in Keys,
             \/ ListReady(w, k) \/ OperatorSelects(w, k)
             \/ SelectContainer(w) \/ ClaimDeletion(w) \/ RemovalFails(w)
             \/ CompleteDeletion(w) \/ CompleteMissing(w) \/ WorkerDies(w)
      PROVE  SandboxInv' /\ OnlyRetiredLose
  <2>1. CleanupInv' /\ UNCHANGED <<box, retired, late>>
    BY <1>1, <1>5, RowSteps
  <2>2. UNCHANGED <<permits, active, objects, waiters, leases, entries, creations, calls, orphaned,
                    doubtful>>
    BY <1>5 DEF ListReady, OperatorSelects, SelectContainer, ClaimDeletion, RemovalFails,
                CompleteDeletion, CompleteMissing, WorkerDies, backendVars
  <2> QED BY <2>1, <2>2, BackendFrame DEF OnlyRetiredLose
<1>6. ASSUME NEW w \in Workers, WorkerStep(w) \/ WorkerDies(w)
      PROVE  SandboxInv' /\ OnlyRetiredLose
  <2>1. workers[w] \in ReaperType
    BY <1>1 DEF CleanupInv, CleanupTypes
  <2>2. PICK k \in Keys : TRUE
    <3>1. workers[w].phase # "idle"
      <4>1. CASE WorkerDies(w)
        BY <2>1, <4>1 DEF WorkerDies, ReaperType
      <4>2. CASE WorkerStep(w)
        BY <4>2 DEF WorkerStep, SelectContainer, ClaimDeletion, RemoveContainer, RemovalFails,
                    CompleteDeletion, CompleteMissing
      <4> QED BY <1>6, <4>1, <4>2
    <3> QED BY <2>1, <3>1, ReaperRecords
  <2>3. CASE RemoveContainer(w)
    BY <2>3, RemoveStep DEF OnlyRetiredLose
  <2> QED BY <1>5, <1>6, <2>2, <2>3 DEF WorkerStep
<1>7. CASE UNCHANGED vars
  <2>1. UNCHANGED <<permits, active, objects, waiters, leases, entries, creations, calls, box,
                    orphaned, doubtful, retired, late, workers, deletions>>
    BY <1>7 DEF vars, backendVars, cleanupVars
  <2>2. CleanupInv'
    BY <1>1, <2>1, CleanupMoves DEF Gone, CleanupInv, CleanupTypes
  <2> QED BY <2>1, <2>2, BackendFrame DEF OnlyRetiredLose
<1> QED BY <1>2, <1>3, <1>4, <1>5, <1>6, <1>7 DEF Next

(* The invariant holds in every state.                                      *)
LEMMA SandboxHolds == Spec => []SandboxInv
<1>1. SandboxInv /\ [Next]_vars => SandboxInv'
  BY SandboxStep
<1> QED BY SandboxInit, <1>1, PTL DEF Spec

-----------------------------------------------------------------------------
(* Handles.                                                                 *)

(* The container of a lease that lives or is being stopped.                  *)
LEMMA LiveEntry ==
    ASSUME SandboxInv, NEW k \in Keys, entries[k] # None,
           leases[entries[k]].phase \in {"live", "stopping"}
    PROVE  /\ entries[k] \in DOMAIN leases /\ leases[entries[k]].key = k
           /\ box[k].state = "running" \/ k \in retired \cup doubtful
<1>1. KeyInv(k) /\ BoxInv(k)
  BY DEF SandboxInv, BackendInv
<1> QED BY <1>1 DEF KeyInv, BoxInv

(* Who gets a handle in a step of the process, and from which lease.        *)
LEMMA HandedOut ==
    ASSUME SandboxInv, ProcessStep, NEW c \in Callers,
           calls'[c].phase = "holds", calls[c] # calls'[c]
    PROVE  \E l \in DOMAIN leases :
               /\ calls'[c].lease = l
               /\ \/ BackendCreated(l) \/ StopFails(l)
                  \/ \E k \in Keys :
                        /\ Create(c, k) /\ entries[k] = l /\ entries[k] # None
                        /\ ~ BeingStopped(l) /\ leases' = [leases EXCEPT ![l].timer = FALSE]
<1>1. /\ calls \in [Callers -> CallType] /\ \A k \in Keys : KeyInv(k)
  BY DEF SandboxInv, BackendInv, BackendTypes
<1>2. \A who, call : calls' = Moved(who, call) => calls'[c] = call
  BY DEF Moved
<1>3. Idle.phase = "idle"
  BY DEF Idle
<1>4. \A call : calls' = [calls EXCEPT ![c] = call] => calls'[c] = call
  BY <1>1
<1>5. ASSUME NEW d \in Callers, NEW k \in Keys, Create(d, k)
      PROVE  /\ d = c /\ entries[k] # None /\ ~ BeingStopped(entries[k])
             /\ calls'[c].lease = entries[k]
             /\ leases' = [leases EXCEPT ![entries[k]].timer = FALSE]
  <2>1. CASE entries[k] # None
    <3>1. /\ leases' = [leases EXCEPT ![entries[k]].timer = FALSE]
          /\ calls' = [calls EXCEPT ![d] =
                [phase |-> IF BeingStopped(entries[k]) THEN "stop" ELSE "holds",
                 lease |-> entries[k]]]
      BY <1>5, <2>1 DEF Create
    <3>2. d = c
      BY <1>1, <3>1
    <3>3. calls'[c] = [phase |-> IF BeingStopped(entries[k]) THEN "stop" ELSE "holds",
                       lease |-> entries[k]]
      BY <1>4, <3>1, <3>2
    <3> QED BY <2>1, <3>1, <3>2, <3>3
  <2>2. CASE entries[k] = None /\ InCreation(k)
    <3>1. calls' = [calls EXCEPT ![d] = [phase |-> "create", lease |-> creations[k]]]
      BY <1>5, <2>2 DEF Create
    <3>2. d = c
      BY <1>1, <3>1
    <3> QED BY <1>4, <3>1, <3>2
  <2>3. CASE entries[k] = None /\ ~ InCreation(k)
    BY <1>2, <1>5, <2>3 DEF Create, StartCreate
  <2> QED BY <2>1, <2>2, <2>3
<1>6. ASSUME NEW d \in Callers, CaptureState(d) \/ Shutdown(d) PROVE FALSE
  <2>1. calls' = [calls EXCEPT ![d] = Idle]
    BY <1>6 DEF CaptureState, Shutdown
  <2>2. d = c
    BY <1>1, <2>1
  <2> QED BY <1>3, <1>4, <2>1, <2>2
<1>7. ASSUME NEW o \in DOMAIN objects, AdmissionTimeout(o) PROVE FALSE
  BY <1>7 DEF AdmissionTimeout
<1>8. ~ ProcessRestarts
  BY <1>3 DEF ProcessRestarts
<1>9. ASSUME NEW l \in DOMAIN leases,
             \/ AdmissionGranted(l) \/ AdmissionRefused(l) \/ BackendCreated(l)
             \/ IdleTimer(l) \/ StopSucceeds(l) \/ EntryRemoved(l) \/ StopFails(l)
             \/ \E left \in {"none", "stopped", "running"} : BackendFails(l, left)
      PROVE  (BackendCreated(l) \/ StopFails(l)) /\ calls'[c].lease = l
  <2>1. CASE AdmissionGranted(l) \/ IdleTimer(l) \/ StopSucceeds(l)
    BY <2>1 DEF AdmissionGranted, IdleTimer, StopSucceeds
  <2>2. CASE AdmissionRefused(l) \/ \E left \in {"none", "stopped", "running"} : BackendFails(l, left)
    BY <1>2, <1>3, <2>2 DEF AdmissionRefused, BackendFails
  <2>3. CASE EntryRemoved(l)
    BY <1>2, <2>3 DEF EntryRemoved, StartCreate
  <2>4. CASE BackendCreated(l) \/ StopFails(l)
    BY <1>2, <2>4 DEF BackendCreated, StopFails
  <2> QED BY <1>9, <2>1, <2>2, <2>3, <2>4
<1>10. CASE \E d \in Callers, k \in Keys \ retired : Create(d, k)
  <2>1. PICK k \in Keys : Create(c, k)
    BY <1>5, <1>10
  <2>2. entries[k] \in DOMAIN leases
    BY <1>1, <1>5, <2>1 DEF KeyInv
  <2> QED BY <1>5, <2>1, <2>2
<1>11. CASE LeaseStep
  BY <1>9, <1>11 DEF LeaseStep
<1> QED BY <1>6, <1>7, <1>8, <1>10, <1>11 DEF ProcessStep

(* A step that gets a handle gets that of a lease that nothing is stopping.  *)
LEMMA HandleStep ==
    ASSUME SandboxInv, [Next]_vars, NEW c \in Callers,
           calls'[c].phase = "holds", calls[c] # calls'[c]
    PROVE  LET l == calls'[c].lease
               k == leases'[l].key
           IN  /\ leases'[l].phase = "live" /\ entries'[k] = l
               /\ box'[k].state = "running" \/ k \in retired \cup doubtful'
<1>1. ProcessStep
  <2>1. ASSUME UNCHANGED calls PROVE FALSE
    BY <2>1
  <2> QED BY <2>1 DEF Next, vars, backendVars, RetireSession, RequestDeletion, LeaseExpires,
         WorkerStep, WorkerDies, ListReady, OperatorSelects, SelectContainer, ClaimDeletion,
         RemoveContainer, RemovalFails, CompleteDeletion, CompleteMissing
<1>2. PICK l \in DOMAIN leases :
          /\ calls'[c].lease = l
          /\ \/ BackendCreated(l) \/ StopFails(l)
             \/ \E k \in Keys :
                   /\ Create(c, k) /\ entries[k] = l /\ entries[k] # None
                   /\ ~ BeingStopped(l) /\ leases' = [leases EXCEPT ![l].timer = FALSE]
  BY <1>1, HandedOut
<1>3. BackendTypes /\ leases[l] \in LeaseType /\ LeaseInv(l) /\ l # None
  BY Numbers DEF SandboxInv, BackendInv
<1>k. PICK k \in Keys : leases[l].key = k
  BY <1>3 DEF LeaseType
<1>4. /\ leases'[l].key = k /\ leases'[l].phase = "live" /\ entries'[k] = l
      /\ box'[k].state = "running" \/ k \in retired \cup doubtful'
  <2>1. CASE BackendCreated(l)
    <3>1. leases'[l].key = k /\ leases'[l].phase = "live"
      BY <1>3, <1>k, <2>1, PhaseMoves DEF BackendCreated, Goes
    <3>2. box' = [box EXCEPT ![k] = Started(k)] /\ entries' = [entries EXCEPT ![k] = l]
      BY <1>k, <2>1 DEF BackendCreated
    <3>3. box'[k].state = "running" /\ entries'[k] = l
      BY <1>3, <3>2, StartedType DEF BackendTypes
    <3> QED BY <3>1, <3>3
  <2>2. CASE StopFails(l)
    <3>1. leases'[l].key = k /\ leases'[l].phase = "live"
      BY <1>3, <1>k, <2>2, PhaseMoves DEF StopFails, Goes
    <3>2. entries[k] = l /\ leases[l].phase = "stopping" /\ entries' = entries
      BY <1>3, <1>k, <2>2 DEF LeaseInv, StopFails
    <3>3. box[k].state = "running" \/ k \in retired \cup doubtful
      BY <1>3, <3>2, LiveEntry
    <3>4. /\ doubtful \subseteq doubtful'
          /\ box'[k] = box[k] \/ k \in doubtful'
      BY <2>2, UseOfBox DEF SandboxInv
    <3> QED BY <3>1, <3>2, <3>3, <3>4
  <2>3. ASSUME NEW j \in Keys, Create(c, j), entries[j] = l, ~ BeingStopped(l),
               leases' = [leases EXCEPT ![l].timer = FALSE]
        PROVE  /\ leases'[l].key = k /\ leases'[l].phase = "live" /\ entries'[k] = l
               /\ box'[k].state = "running" \/ k \in retired \cup doubtful'
    <3>1. KeyInv(j)
      BY DEF SandboxInv, BackendInv
    <3>2. j = k /\ leases[l].phase = "live"
      BY <1>3, <1>k, <2>3, <3>1 DEF KeyInv, BeingStopped
    <3>3. leases'[l].key = k /\ leases'[l].phase = "live"
      <4>1. leases[l] \in LeaseType /\ leases \in Seq(LeaseType) /\ l \in DOMAIN leases
        BY <1>3 DEF BackendTypes
      <4>2. leases'[l] = [leases[l] EXCEPT !.timer = FALSE]
        BY <2>3, <4>1
      <4> QED BY <1>k, <3>2, <4>1, <4>2 DEF LeaseType
    <3>4. UNCHANGED <<entries, box, doubtful>>
      BY <2>3 DEF Create
    <3> QED BY <1>3, <2>3, <3>2, <3>3, <3>4, LiveEntry
  <2> QED BY <1>2, <2>1, <2>2, <2>3
<1> QED BY <1>2, <1>4

-----------------------------------------------------------------------------
(* The theorems.                                                            *)

(* permitsInUse is the number of the sessions that hold a permit, it never   *)
(* exceeds the limit, and a session waits only while every permit is in use: *)
(* whatever timeouts, shared creates, failures and restarts did.             *)
THEOREM PermitsAreExact == Spec => []PermitsExact
<1>1. SandboxInv => PermitsExact
  BY DEF SandboxInv, PermitsInv, PermitsExact, Granted
<1> QED BY <1>1, SandboxHolds, PTL

(* The containers the process runs, but for the known orphans, are at most   *)
(* as many as the limit: every one of them is the container of a session     *)
(* that holds a permit.                                                      *)
THEOREM ComputeIsBounded == Spec => []ComputeWithinLimit
<1>1. SandboxInv => ComputeWithinLimit
  <2> SUFFICES ASSUME SandboxInv PROVE ComputeWithinLimit
    OBVIOUS
  <2> DEFINE Running == {k \in Keys : box[k].state = "running"} \ orphaned
  <2>1. Running \subseteq Granted
    <3> SUFFICES ASSUME NEW k \in Running PROVE k \in Granted
      OBVIOUS
    <3>1. KeyInv(k) /\ BoxInv(k) /\ BackendTypes /\ \A l \in DOMAIN leases : LeaseInv(l)
      BY DEF SandboxInv, BackendInv
    <3>2. /\ entries[k] \in DOMAIN leases /\ leases[entries[k]].key = k
          /\ leases[entries[k]].phase \in {"live", "stopping"}
      BY <3>1 DEF BoxInv, KeyInv
    <3>3. /\ active[k] = leases[entries[k]].object /\ active[k] \in DOMAIN objects
          /\ objects[active[k]].adm = "granted"
      BY <3>1, <3>2 DEF LeaseInv
    <3> QED BY <3>1, <3>3, Numbers DEF Granted
  <2>2. IsFiniteSet(Granted) /\ Cardinality(Granted) <= Limit
    BY DEF SandboxInv, PermitsInv
  <2>3. IsFiniteSet(Running) /\ Cardinality(Running) <= Cardinality(Granted)
    BY <2>1, <2>2, FS_Subset
  <2>4. Cardinality(Running) \in Nat /\ Cardinality(Granted) \in Nat
    BY <2>2, <2>3, FS_CardinalityType
  <2> QED BY <2>2, <2>3, <2>4, LimitsArePositive DEF ComputeWithinLimit
<1> QED BY <1>1, SandboxHolds, PTL

(* A completed deletion means that the container is gone, also when the claim *)
(* expired, the reaper died or the container was already missing, unless a    *)
(* create that began before the retirement made a new one.                    *)
THEOREM CompletedIsGone == Spec => []CompletedMeansGone
<1>1. SandboxInv => CompletedMeansGone
  BY DEF SandboxInv, RowInv, Gone, CompletedMeansGone
<1> QED BY <1>1, SandboxHolds, PTL

(* No step takes the container of a session away that was not retired before *)
(* its deletion was authorized: not the idle shutdown, not a failed create,   *)
(* not a reaper with a stale claim, not an operator's run.                    *)
THEOREM RemovalsAreAuthorized == Spec => RemovedAfterRetirement
<1>1. SandboxInv /\ [Next]_vars =>
        [\A k \in Keys : box[k].state # "absent" /\ box'[k].state = "absent"
          => k \in retired /\ deletions[k].status # "none"]_vars
  BY SandboxStep DEF OnlyRetiredLose
<1> QED BY <1>1, SandboxHolds, PTL DEF Spec, RemovedAfterRetirement

(* The handoff between an idle shutdown and a new create: a step that gets a *)
(* handle, from a create, from an entry that lives or from a shutdown that   *)
(* failed, gets it of a lease that no shutdown is stopping.  Its container   *)
(* runs, unless a failed stop took effect after all or the session was       *)
(* retired and its container removed meanwhile.                              *)
THEOREM HandlesAreLive == Spec => HandedOutLive
<1>1. SandboxInv /\ [Next]_vars =>
        [\A c \in Callers :
            calls'[c].phase = "holds" /\ calls[c] # calls'[c]
              => LET l == calls'[c].lease
                     k == leases'[l].key
                 IN  /\ leases'[l].phase = "live" /\ entries'[k] = l
                     /\ box'[k].state = "running" \/ k \in retired \cup doubtful']_vars
  BY HandleStep
<1> QED BY <1>1, SandboxHolds, PTL DEF Spec, HandedOutLive

=============================================================================
