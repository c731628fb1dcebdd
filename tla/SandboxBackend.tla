--------------------------- MODULE SandboxBackend ---------------------------
(***************************************************************************)
(* The sandbox backend of one agent process: the idle shutdown wrapper     *)
(* (lib/idle-sandbox-backend.ts) around the admission wrapper              *)
(* (lib/sandbox-admission-backend.ts) around Docker with resource limits   *)
(* (agent/sandbox.ts).                                                     *)
(*                                                                         *)
(* A lease is one call of the admission wrapper's create and what it       *)
(* returned: the reference it holds on the session's permit and, once      *)
(* live, the entry of the idle wrapper.  A permit object is the            *)
(* ActiveSession that several creates of one session would share.  Code    *)
(* between two awaits is one step; continuations of a settled promise run  *)
(* with it, because no timer or Docker answer can come in between.         *)
(***************************************************************************)
EXTENDS Naturals, Sequences, FiniteSets, SequencesExt

CONSTANTS
    Keys,       \* session keys
    Callers,    \* durable steps that use a sandbox
    Limit,      \* live sandboxes of the process
    MaxQueued,  \* sessions that may wait for a permit
    MaxLeases,  \* bound on the creates of the admission wrapper
    MaxFaults   \* bound on failing Docker calls and process restarts

ASSUME LimitsArePositive == Limit \in Nat \ {0} /\ MaxQueued \in Nat \ {0}

VARIABLES
    permits,   \* permitsInUse
    active,    \* [Keys -> permit object in the map `active`, or None]
    objects,   \* sequence of permit objects [key, adm, admitted, refs]
    waiters,   \* permit objects waiting in FIFO order
    leases,    \* sequence of leases [key, object, phase, timer]
    entries,   \* [Keys -> lease in the map `entries`, or None]
    creations, \* [Keys -> lease in the map `creations`, or None]
    calls,     \* [Callers -> what the step awaits or holds]
    box,       \* [Keys -> the container of the session]
    orphaned,  \* keys whose container runs although no lease knows it
    doubtful,  \* keys of leases whose last stop failed but took effect
    faults

backendVars == <<permits, active, objects, waiters, leases, entries, creations,
                 calls, box, orphaned, doubtful, faults>>

None == 0

Idle == [phase |-> "idle", lease |-> None]

\* A container is its generation: a new one gets a new id.
Absent == [state |-> "absent", id |-> 0]

BackendInit ==
    /\ permits = 0 /\ waiters = <<>> /\ objects = <<>> /\ leases = <<>>
    /\ active = [k \in Keys |-> None]
    /\ entries = [k \in Keys |-> None]
    /\ creations = [k \in Keys |-> None]
    /\ calls = [c \in Callers |-> Idle]
    /\ box = [k \in Keys |-> Absent]
    /\ orphaned = {} /\ doubtful = {} /\ faults = 0

Fault == faults < MaxFaults /\ faults' = faults + 1

Waiting(phase, l) == {c \in Callers : calls[c] = [phase |-> phase, lease |-> l]}

Moved(who, call) == [c \in Callers |-> IF c \in who THEN call ELSE calls[c]]

-----------------------------------------------------------------------------
(* Admission.                                                               *)

\* acquire: what a new permit object gets at once.
Acquired ==
    IF permits < Limit /\ waiters = <<>> THEN "granted"
    ELSE IF Len(waiters) >= MaxQueued THEN "refused" ELSE "waiting"

\* The synchronous part of create, for a new lease of k and the callers who.
StartCreate(k, who) ==
    LET l      == Len(leases) + 1
        reused == active[k] # None
        o      == IF reused THEN active[k] ELSE Len(objects) + 1
    IN  /\ l <= MaxLeases
        /\ leases' = Append(leases, [key |-> k, object |-> o, phase |-> "admission",
                                     timer |-> FALSE])
        /\ creations' = [creations EXCEPT ![k] = l]
        /\ calls' = Moved(who, [phase |-> "create", lease |-> l])
        /\ IF reused THEN UNCHANGED <<permits, active, objects, waiters>>
           ELSE /\ objects' = Append(objects, [key |-> k, adm |-> Acquired,
                                               admitted |-> FALSE, refs |-> 0])
                /\ active' = [active EXCEPT ![k] = o]
                /\ permits' = IF Acquired = "granted" THEN permits + 1 ELSE permits
                /\ waiters' = IF Acquired = "waiting" THEN Append(waiters, o) ELSE waiters

\* Mutant of Release: the waiter that gets the permit is not counted.
ReleaseUncounted(k, o) ==
    /\ active' = [active EXCEPT ![k] = None]
    /\ permits' = permits - 1
    /\ objects' = [i \in DOMAIN objects |->
            IF waiters # <<>> /\ i = Head(waiters) THEN [objects[i] EXCEPT !.adm = "granted"]
            ELSE objects[i]]
    /\ waiters' = IF waiters = <<>> THEN waiters ELSE Tail(waiters)

\* release: the last reference gives the permit to the first waiter.
Release(k, o) ==
    IF active[k] # o \/ objects[o].refs = 0
    THEN UNCHANGED <<permits, active, objects, waiters>>
    ELSE IF objects[o].refs > 1
    THEN /\ objects' = [objects EXCEPT ![o].refs = @ - 1]
         /\ UNCHANGED <<permits, active, waiters>>
    ELSE LET freed == IF objects[o].admitted THEN permits - 1 ELSE permits
         IN  /\ active' = [active EXCEPT ![k] = None]
             /\ IF waiters = <<>>
                THEN /\ objects' = [objects EXCEPT ![o].refs = 0]
                     /\ permits' = freed /\ UNCHANGED waiters
                ELSE /\ objects' = [objects EXCEPT ![o].refs = 0,
                                                   ![Head(waiters)].adm = "granted"]
                     /\ permits' = freed + 1 /\ waiters' = Tail(waiters)

\* The await of session.admission returns.
AdmissionGranted(l) ==
    LET o == leases[l].object
    IN  /\ leases[l].phase = "admission" /\ objects[o].adm = "granted"
        /\ leases' = [leases EXCEPT ![l].phase = "creating"]
        /\ objects' = [objects EXCEPT ![o] = [objects[o] EXCEPT !.admitted = TRUE, !.refs = @ + 1]]
        /\ UNCHANGED <<permits, active, waiters, entries, creations, calls, box,
                       orphaned, doubtful, faults>>

\* The await of session.admission throws: timeout or full queue.
AdmissionRefused(l) ==
    LET k == leases[l].key
        o == leases[l].object
    IN  /\ leases[l].phase = "admission" /\ objects[o].adm = "refused"
        /\ leases' = [leases EXCEPT ![l].phase = "failed"]
        /\ active' = IF active[k] = o THEN [active EXCEPT ![k] = None] ELSE active
        /\ creations' = [creations EXCEPT ![k] = None]
        /\ calls' = Moved(Waiting("create", l), Idle)
        /\ UNCHANGED <<permits, objects, waiters, entries, box, orphaned, doubtful, faults>>

\* The timer of a waiter.
AdmissionTimeout(o) ==
    /\ \E i \in DOMAIN waiters : waiters[i] = o /\ waiters' = RemoveAt(waiters, i)
    /\ objects' = [objects EXCEPT ![o].adm = "refused"]
    /\ UNCHANGED <<permits, active, leases, entries, creations, calls, box, orphaned,
                   doubtful, faults>>

-----------------------------------------------------------------------------
(* Docker with resource limits, and the entry of the idle wrapper.          *)

\* A container that exists is started again, otherwise a new one is made.
Started(k) ==
    IF box[k].state = "absent" THEN [state |-> "running", id |-> box[k].id + 1]
    ELSE [box[k] EXCEPT !.state = "running"]

BackendCreated(l) ==
    LET k == leases[l].key
    IN  /\ leases[l].phase = "creating"
        /\ leases' = [leases EXCEPT ![l].phase = "live"]
        /\ box' = [box EXCEPT ![k] = Started(k)]
        /\ orphaned' = orphaned \ {k}
        /\ entries' = [entries EXCEPT ![k] = l]
        /\ creations' = [creations EXCEPT ![k] = None]
        /\ calls' = Moved(Waiting("create", l), [phase |-> "holds", lease |-> l])
        /\ UNCHANGED <<permits, active, objects, waiters, doubtful, faults>>

\* The outcomes of a failing create: Docker refused ("none"), or the limits
\* were not applied and the container was stopped again; a stop that fails as
\* well is ignored and leaves the container running.
BackendFails(l, left) ==
    LET k == leases[l].key
    IN  /\ leases[l].phase = "creating" /\ Fault
        /\ leases' = [leases EXCEPT ![l].phase = "failed"]
        /\ box' = IF left = "none" THEN box
                  ELSE [box EXCEPT ![k] = [Started(k) EXCEPT !.state = left]]
        /\ orphaned' = CASE left = "none" -> orphaned
                         [] left = "stopped" -> orphaned \ {k}
                         [] left = "running" -> orphaned \cup {k}
        /\ creations' = [creations EXCEPT ![k] = None]
        /\ calls' = Moved(Waiting("create", l), Idle)
        /\ Release(k, leases[l].object)
        /\ UNCHANGED <<entries, doubtful>>

-----------------------------------------------------------------------------
(* The idle wrapper.                                                        *)

\* Mutant of BeingStopped: a create does not wait for an idle shutdown.
NeverStopped(l) == FALSE

\* entry.stopPromise is set.
BeingStopped(l) == leases[l].phase \in {"stopping", "released"}

\* creations.get(key)
InCreation(k) == creations[k] # None

\* create of the idle wrapper.
Create(c, k) ==
    LET previous == entries[k]
    IN  /\ calls[c] = Idle
        /\ \/ /\ previous # None
              /\ leases' = [leases EXCEPT ![previous].timer = FALSE]
              /\ calls' = [calls EXCEPT ![c] =
                    [phase |-> IF BeingStopped(previous) THEN "stop" ELSE "holds", lease |-> previous]]
              /\ UNCHANGED <<permits, active, objects, waiters, creations>>
           \/ /\ previous = None /\ InCreation(k)
              /\ calls' = [calls EXCEPT ![c] = [phase |-> "create", lease |-> creations[k]]]
              /\ UNCHANGED <<permits, active, objects, waiters, leases, creations>>
           \/ /\ previous = None /\ ~InCreation(k)
              /\ StartCreate(k, {c})
        /\ UNCHANGED <<entries, box, orphaned, doubtful, faults>>

\* captureState ends the use by a step; the idle timer starts.
CaptureState(c) ==
    LET l == calls[c].lease
        k == leases[l].key
    IN  /\ calls[c].phase = "holds"
        /\ leases' = IF leases[l].phase = "live" /\ entries[k] = l
                     THEN [leases EXCEPT ![l].timer = TRUE] ELSE leases
        /\ calls' = [calls EXCEPT ![c] = Idle]
        /\ UNCHANGED <<permits, active, objects, waiters, entries, creations, box,
                       orphaned, doubtful, faults>>

\* stop: the first call starts the shutdown, later ones share it.
Stopped(l) ==
    IF leases[l].phase = "live"
    THEN [leases EXCEPT ![l].phase = "stopping", ![l].timer = FALSE] ELSE leases

Shutdown(c) ==
    /\ calls[c].phase = "holds"
    /\ leases' = Stopped(calls[c].lease)
    /\ calls' = [calls EXCEPT ![c] = Idle]
    /\ UNCHANGED <<permits, active, objects, waiters, entries, creations, box, orphaned,
                   doubtful, faults>>

IdleTimer(l) ==
    /\ leases[l].timer
    /\ leases' = IF entries[leases[l].key] = l THEN Stopped(l)
                 ELSE [leases EXCEPT ![l].timer = FALSE]
    /\ UNCHANGED <<permits, active, objects, waiters, entries, creations, calls, box,
                   orphaned, doubtful, faults>>

\* Docker stopped the container: the admission wrapper releases the reference.
StopSucceeds(l) ==
    LET k == leases[l].key
    IN  /\ leases[l].phase = "stopping"
        /\ leases' = [leases EXCEPT ![l].phase = "released"]
        /\ box' = [box EXCEPT ![k].state = IF @ = "running" THEN "stopped" ELSE @]
        /\ doubtful' = doubtful \ {k}
        /\ Release(k, leases[l].object)
        /\ UNCHANGED <<entries, creations, calls, orphaned, faults>>

\* The idle wrapper forgets the entry; creates that waited for the shutdown
\* share one new create.
EntryRemoved(l) ==
    LET k   == leases[l].key
        who == Waiting("stop", l)
    IN  /\ leases[l].phase = "released" /\ entries[k] = l
        /\ entries' = [entries EXCEPT ![k] = None]
        /\ \/ /\ who = {}
              /\ UNCHANGED <<permits, active, objects, waiters, leases, creations, calls>>
           \/ who # {} /\ StartCreate(k, who)
        /\ UNCHANGED <<box, orphaned, doubtful, faults>>

\* A stop that is reported as failed left the container as it was, or had
\* stopped it before the failure ("the previous compute may still be live").
FailedStopLeaves(k) ==
    \/ UNCHANGED <<box, doubtful>>
    \/ /\ box[k].state = "running"
       /\ box' = [box EXCEPT ![k].state = "stopped"]
       /\ doubtful' = doubtful \cup {k}

\* Mutant of StopFails: the failed shutdown gives the permit back.
StopFailsReleases(l) ==
    LET k == leases[l].key
    IN  /\ leases[l].phase = "stopping" /\ Fault
        /\ leases' = [leases EXCEPT ![l].phase = "live"]
        /\ calls' = Moved(Waiting("stop", l), [phase |-> "holds", lease |-> l])
        /\ FailedStopLeaves(k)
        /\ Release(k, leases[l].object)
        /\ UNCHANGED <<entries, creations, orphaned>>

\* A failed shutdown keeps the permit; waiting creates reattach, to a container
\* that may have been stopped: nothing starts it again before the next create.
StopFails(l) ==
    /\ leases[l].phase = "stopping" /\ Fault
    /\ leases' = [leases EXCEPT ![l].phase = "live"]
    /\ calls' = Moved(Waiting("stop", l), [phase |-> "holds", lease |-> l])
    /\ FailedStopLeaves(leases[l].key)
    /\ UNCHANGED <<permits, active, objects, waiters, entries, creations, orphaned>>

\* The process dies: its maps are gone, the containers are not.
ProcessRestarts ==
    /\ Fault
    /\ permits' = 0 /\ waiters' = <<>> /\ objects' = <<>> /\ leases' = <<>>
    /\ active' = [k \in Keys |-> None]
    /\ entries' = [k \in Keys |-> None]
    /\ creations' = [k \in Keys |-> None]
    /\ calls' = [c \in Callers |-> Idle]
    /\ orphaned' = {k \in Keys : box[k].state = "running"}
    /\ doubtful' = {}
    /\ UNCHANGED box

LeaseStep ==
    \E l \in DOMAIN leases :
        \/ AdmissionGranted(l) \/ AdmissionRefused(l) \/ BackendCreated(l)
        \/ IdleTimer(l) \/ StopSucceeds(l) \/ EntryRemoved(l) \/ StopFails(l)
        \/ \E left \in {"none", "stopped", "running"} : BackendFails(l, left)

=============================================================================
