-------------------------- MODULE ThreadTranscript --------------------------
(***************************************************************************)
(* The operations on event arrays that the browser, the thread store and   *)
(* the repair route share (packages/agent-ui/.../thread-storage.ts and     *)
(* server/data/thread-collection-store.ts).                                *)
(*                                                                         *)
(* An event is its position in Eve's stream, so its identity (meta.id) and *)
(* its emission order (cursor, turn coordinates, timestamp) are the same   *)
(* number.  KeyOf gives the cumulative key (turn, step, call) of a         *)
(* snapshot event and NoKey for every other event; a retried step has a    *)
(* key of its own, as its repeated step.started separates the attempts.    *)
(***************************************************************************)
EXTENDS Naturals, Sequences, FiniteSets, FiniteSetsExt, SequencesExt

CONSTANTS
    Events,      \* the positions of Eve's stream, 1..n
    KeyOf,       \* [Events -> keys or NoKey]
    NoKey

ASSUME EventsAreAPrefix == Events = 1..Cardinality(Events)
ASSUME KeyOfIsTotal == DOMAIN KeyOf = Events

Supersedes(e, f) == KeyOf[e] # NoKey /\ KeyOf[e] = KeyOf[f] /\ e > f

\* What an event array says about f: f itself or a later snapshot of its key.
Represents(S, f) == f \in S \/ \E e \in S : Supersedes(e, f)

\* The last snapshot with the key of e, if that snapshot may be replaced.
ReplaceableAt(ev, e) ==
    LET same == {i \in DOMAIN ev : KeyOf[e] # NoKey /\ KeyOf[ev[i]] = KeyOf[e]}
    IN  IF same # {} /\ ev[Max(same)] < e THEN {Max(same)} ELSE {}

\* A cumulative snapshot takes the place of the one it continues.
AppendThreadEvent(ev, e) ==
    CASE e \in Range(ev) -> ev
      [] e \notin Range(ev) /\ ReplaceableAt(ev, e) # {} ->
            [ev EXCEPT ![Max(ReplaceableAt(ev, e))] = e]
      [] OTHER -> Append(ev, e)

CompactThreadEvents(ev) ==
    LET compacted[n \in 0..Len(ev)] ==
            IF n = 0 THEN <<>> ELSE AppendThreadEvent(compacted[n - 1], ev[n])
    IN  compacted[Len(ev)]

\* compareEventOrder: the order in which Eve emitted the events.
InEmissionOrder(S) == SetToSortSeq(S, <)

MergeThreadEventSnapshots(left, right) ==
    LET L == Range(left)
        R == Range(right)
    IN  CASE left = <<>> -> right
          [] right = <<>> -> left
          [] left # <<>> /\ right # <<>> /\ R \subseteq L
                /\ (Len(right) < Len(left) \/ left = right) -> left
          [] left # <<>> /\ right # <<>> /\ L \subseteq R
                /\ (Len(left) < Len(right) \/ left = right) -> right
          [] OTHER -> CompactThreadEvents(InEmissionOrder(L \cup R))

-----------------------------------------------------------------------------
(* The event table of one thread: a function from event_index to event.     *)

EmptyLog == <<>>

LogEvents(log) == {log[i] : i \in DOMAIN log}

\* max(event_index) + 1
LogTotal(log) == IF DOMAIN log = {} THEN 0 ELSE Max(DOMAIN log) + 1

\* insertThreadEvents: index and identity are unique, a clash inserts nothing.
InsertThreadEvents(log, first, events) ==
    LET fresh == {i \in DOMAIN events : /\ first + i - 1 \notin DOMAIN log
                                        /\ events[i] \notin LogEvents(log)}
    IN  [k \in DOMAIN log \cup {first + i - 1 : i \in fresh} |->
            IF k \in DOMAIN log THEN log[k] ELSE events[k - first + 1]]

Truncate(log, from) == [k \in {i \in DOMAIN log : i < from} |-> log[k]]

\* Mutant of AppendThreadEvents: the next index is read before the rows are
\* deleted.
AppendAtOldEnd(log, events, replaceFrom, replaces) ==
    LET kept  == IF replaces THEN Truncate(log, replaceFrom) ELSE log
        fresh == SelectSeq(events, LAMBDA e : e \notin LogEvents(kept))
    IN  InsertThreadEvents(kept, LogTotal(log), fresh)

\* appendThreadEvents: known identities are dropped before indexes are given.
AppendThreadEvents(log, events, replaceFrom, replaces) ==
    LET kept  == IF replaces THEN Truncate(log, replaceFrom) ELSE log
        first == IF replaces THEN replaceFrom ELSE LogTotal(log)
        fresh == SelectSeq(events, LAMBDA e : e \notin LogEvents(kept))
    IN  InsertThreadEvents(kept, first, fresh)

\* The rows with an index in first..last-1, in index order.
LogSlice(log, first, last) ==
    LET ixs == SetToSortSeq({i \in DOMAIN log : first <= i /\ i < last}, <)
    IN  [n \in DOMAIN ixs |-> log[ixs[n]]]

\* The bounds of loadThreadWindow: before = total gives the tail.
WindowStart(total, before, limit) ==
    LET end == IF before < total THEN before ELSE total
    IN  IF end > limit THEN end - limit ELSE 0

\* rebuildSettledThreadTranscript: the compaction of the finite Eve stream.
RebuiltTranscript(n) == CompactThreadEvents([i \in 1..n |-> i])
=============================================================================
