--------------------------- MODULE SandboxCleanup ---------------------------
(***************************************************************************)
(* The life of a session's sandbox: the backend of the agent process       *)
(* (SandboxBackend), the retirement of a session, the table of deletions   *)
(* (server/data/sandbox-deletion-store.ts), and the cleanup workers and    *)
(* operator runs of the reaper (scripts/run-sandbox-cleanup-worker.mjs,    *)
(* scripts/reap-docker-sandboxes.mjs), which act on the same containers.   *)
(*                                                                         *)
(* A claim token is a fresh UUID: here the number of the attempt, which    *)
(* the claim increments.                                                   *)
(***************************************************************************)
EXTENDS SandboxBackend

CONSTANTS
    Workers,    \* reaper processes
    Ending,     \* bound: the sessions that may be retired
    MaxClaims   \* bound on the attempts of one deletion

VARIABLES
    deletions,  \* [Keys -> row of agent_sandbox_deletions]
    workers,    \* [Workers -> what the reaper is about to do]
    retired,    \* sessions that Eve has retired
    late        \* sessions whose container was made after their retirement

cleanupVars == <<deletions, workers, retired, late>>

vars == <<backendVars, cleanupVars>>

Resting == [phase |-> "idle"]

Init ==
    /\ BackendInit
    /\ deletions = [k \in Keys |-> [status |-> "none", attempt |-> 0, expired |-> FALSE]]
    /\ workers = [w \in Workers |-> Resting]
    /\ retired = {} /\ late = {}

-----------------------------------------------------------------------------
(* Steps of the agent process; a retired session starts no step.           *)

ProcessStep ==
    /\ \/ \E c \in Callers, k \in Keys \ retired : Create(c, k)
       \/ \E c \in Callers : CaptureState(c) \/ Shutdown(c)
       \/ \E o \in DOMAIN objects : AdmissionTimeout(o)
       \/ LeaseStep
       \/ ProcessRestarts
    /\ late' = late \cup {k \in retired : box'[k].id # box[k].id}
    /\ UNCHANGED <<deletions, workers, retired>>

-----------------------------------------------------------------------------
(* deleteAgentSession: retire the session, then authorize the deletion.     *)

RetireSession(k) ==
    /\ k \in Ending \ retired
    /\ retired' = retired \cup {k}
    /\ UNCHANGED <<backendVars, deletions, workers, late>>

\* request: a repeated request finds the row and changes nothing.
RequestDeletion(k) ==
    /\ k \in retired /\ deletions[k].status = "none"
    /\ deletions' = [deletions EXCEPT ![k].status = "authorized"]
    /\ UNCHANGED <<backendVars, workers, retired, late>>

\* Mutant of Ready: a session without a row counts as ready.
ReadyWithoutRequest(k) == deletions[k].status \in {"none", "authorized", "failed"}

\* not_before is the time of the request.
Ready(k) ==
    \/ deletions[k].status \in {"authorized", "failed"}
    \/ deletions[k].status = "claimed" /\ deletions[k].expired

LeaseExpires(k) ==
    /\ deletions[k].status = "claimed" /\ ~deletions[k].expired
    /\ deletions' = [deletions EXCEPT ![k].expired = TRUE]
    /\ UNCHANGED <<backendVars, workers, retired, late>>

-----------------------------------------------------------------------------
(* The reaper.                                                              *)

\* selectDockerSandboxRetentionCandidates: a running container only for the
\* exact session; the cleanup worker asks with no retention time.
Eligible(k, exact) == box[k].state = "stopped" \/ (box[k].state = "running" /\ exact)

\* The worker lists a ready deletion and starts the reaper for its session.
ListReady(w, k) ==
    /\ workers[w] = Resting /\ Ready(k)
    /\ workers' = [workers EXCEPT ![w] = [phase |-> "listed", key |-> k]]
    /\ UNCHANGED <<backendVars, deletions, retired, late>>

\* Mutant of NoContainer: any run of the reaper that removes nothing counts.
NothingRemoved(k) == TRUE

\* matchingSessionContainers is empty.
NoContainer(k) == box[k].state = "absent"

\* The reaper lists the containers.  One of the session may be passed over: its
\* session is protected, or its lifecycle times cannot be read; the worker then
\* reports container-not-eligible and leaves the row as it is.
SelectContainer(w) ==
    /\ workers[w].phase = "listed"
    /\ LET k == workers[w].key
       IN  \/ /\ Eligible(k, TRUE)
              /\ workers' = [workers EXCEPT ![w] =
                    [phase |-> "selected", key |-> k, id |-> box[k].id, exact |-> TRUE]]
           \/ /\ NoContainer(k)
              /\ workers' = [workers EXCEPT ![w] = [phase |-> "missing", key |-> k]]
           \/ /\ ~NoContainer(k)
              /\ workers' = [workers EXCEPT ![w] = Resting]
    /\ UNCHANGED <<backendVars, deletions, retired, late>>

\* An operator's run: any stopped container is a candidate.
OperatorSelects(w, k) ==
    /\ workers[w] = Resting /\ Eligible(k, FALSE)
    /\ workers' = [workers EXCEPT ![w] =
          [phase |-> "selected", key |-> k, id |-> box[k].id, exact |-> FALSE]]
    /\ UNCHANGED <<backendVars, deletions, retired, late>>

ClaimDeletion(w) ==
    /\ workers[w].phase = "selected"
    /\ LET k == workers[w].key
       IN  IF Ready(k)
           THEN /\ deletions[k].attempt < MaxClaims
                /\ deletions' = [deletions EXCEPT ![k] =
                      [status |-> "claimed", attempt |-> @.attempt + 1, expired |-> FALSE]]
                /\ workers' = [workers EXCEPT ![w] =
                      [phase |-> "claimed", key |-> k, id |-> @.id, exact |-> @.exact,
                       token |-> deletions[k].attempt + 1]]
           ELSE /\ workers' = [workers EXCEPT ![w] = Resting]
                /\ UNCHANGED deletions
    /\ UNCHANGED <<backendVars, retired, late>>

Owns(w) == /\ deletions[workers[w].key].status = "claimed"
           /\ deletions[workers[w].key].attempt = workers[w].token

\* The row after complete or fail with the worker's token.
Settled(w, status) ==
    IF Owns(w) THEN [deletions EXCEPT ![workers[w].key].status = status] ELSE deletions

\* The container is inspected again and removed by its id.
RemoveContainer(w) ==
    /\ workers[w].phase = "claimed"
    /\ LET k == workers[w].key
       IN  /\ box[k].id = workers[w].id /\ Eligible(k, workers[w].exact)
           /\ box' = [box EXCEPT ![k].state = "absent"]
           /\ orphaned' = orphaned \ {k}
    /\ workers' = [workers EXCEPT ![w].phase = "removed"]
    /\ UNCHANGED <<permits, active, objects, waiters, leases, entries, creations, calls,
                   doubtful, faults, deletions, retired, late>>

\* The container changed since it was selected, or Docker refuses.
RemovalFails(w) ==
    /\ workers[w].phase = "claimed"
    /\ LET k == workers[w].key
       IN  IF box[k].id = workers[w].id /\ Eligible(k, workers[w].exact)
           THEN Fault ELSE UNCHANGED faults
    /\ deletions' = Settled(w, "failed")
    /\ workers' = [workers EXCEPT ![w] = Resting]
    /\ UNCHANGED <<permits, active, objects, waiters, leases, entries, creations, calls,
                   box, orphaned, doubtful, retired, late>>

\* complete; when the claim is no longer the worker's, fail changes nothing either.
CompleteDeletion(w) ==
    /\ workers[w].phase = "removed"
    /\ deletions' = Settled(w, "completed")
    /\ workers' = [workers EXCEPT ![w] = Resting]
    /\ UNCHANGED <<backendVars, retired, late>>

\* completeMissing: the reaper found no container of the session.
CompleteMissing(w) ==
    /\ workers[w].phase = "missing"
    /\ LET k == workers[w].key
       IN  deletions' = IF Ready(k)
                        THEN [deletions EXCEPT ![k].status = "completed",
                                               ![k].attempt = @ + 1]
                        ELSE deletions
    /\ workers' = [workers EXCEPT ![w] = Resting]
    /\ UNCHANGED <<backendVars, retired, late>>

\* The reaper's time is over, or its host dies.
WorkerDies(w) ==
    /\ workers[w] # Resting /\ Fault
    /\ workers' = [workers EXCEPT ![w] = Resting]
    /\ UNCHANGED <<permits, active, objects, waiters, leases, entries, creations, calls,
                   box, orphaned, doubtful, deletions, retired, late>>

WorkerStep(w) ==
    \/ SelectContainer(w) \/ ClaimDeletion(w) \/ RemoveContainer(w) \/ RemovalFails(w)
    \/ CompleteDeletion(w) \/ CompleteMissing(w)

Next ==
    \/ ProcessStep
    \/ \E k \in Keys : RetireSession(k) \/ RequestDeletion(k) \/ LeaseExpires(k)
    \/ \E w \in Workers :
        \/ WorkerStep(w) \/ WorkerDies(w)
        \/ \E k \in Keys : ListReady(w, k) \/ OperatorSelects(w, k)

Spec == Init /\ [][Next]_vars

-----------------------------------------------------------------------------
(* Properties.                                                              *)

\* permitsInUse counts exactly the sessions that were granted a permit and
\* have not given it back, whatever timeouts, failures and shared creates did;
\* a session waits, and may time out, only while every permit is in use.
PermitsExact ==
    /\ permits = Cardinality({k \in Keys : active[k] # None
                                           /\ objects[active[k]].adm = "granted"})
    /\ permits <= Limit
    /\ waiters # <<>> => permits = Limit

\* The containers the process runs stay within the hard limit; only a failed
\* stop after refused resource limits, or a restart, leaves one uncounted.
ComputeWithinLimit ==
    Cardinality({k \in Keys : box[k].state = "running"} \ orphaned) <= Limit

\* "A per-session handoff prevents a new create racing an in-flight idle
\* shutdown": a step that gets a handle gets it of the session's lease, which no
\* shutdown is stopping; its container runs, unless the last stop of the lease
\* was reported as failed although it took effect, or a reaper took the
\* container of a retired session.
HandedOutLive ==
    [][\A c \in Callers :
        calls'[c].phase = "holds" /\ calls[c] # calls'[c]
          => LET l == calls'[c].lease
                 k == leases'[l].key
             IN  /\ leases'[l].phase = "live" /\ entries'[k] = l
                 /\ box'[k].state = "running" \/ k \in retired \cup doubtful']_vars

\* No reaper, not even one whose claim has expired or an operator's run over
\* every stopped container, removes the container of a session that was not
\* retired before its deletion was authorized.
RemovedAfterRetirement ==
    [][\A k \in Keys : box[k].state # "absent" /\ box'[k].state = "absent"
          => k \in retired /\ deletions[k].status # "none"]_vars

\* A completed deletion means that the container is gone, unless a create
\* that began before the retirement made it afterwards.
CompletedMeansGone ==
    \A k \in Keys : deletions[k].status = "completed"
                      => box[k].state = "absent" \/ k \in late
=============================================================================
