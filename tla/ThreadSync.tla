----------------------------- MODULE ThreadSync -----------------------------
(***************************************************************************)
(* Thread collections: one stored collection (metadata row, revision and   *)
(* the event table), and the browser tabs that read and write it through   *)
(* the HTTP thread storage.                                                *)
(*                                                                         *)
(* A tab has three copies of a thread: what it shows (view), what it will  *)
(* save at the next checkpoint (pend) and what it believes is stored       *)
(* (base, with the revision rev).  A save sends the difference between the *)
(* collection and base under If-Match; a 409 reloads, merges and retries.  *)
(*                                                                         *)
(* A thread is [ev, cur, upd, trev, sum, win, cov]: its events, its Eve    *)
(* cursor (session.streamIndex), updatedAt, revision, whether it is only a *)
(* summary (hydration), the startIndex of its transcript window (0 also    *)
(* when it has none) and whether it carries authoritative coverage.        *)
(***************************************************************************)
EXTENDS ThreadTranscript

CONSTANTS
    Tabs,          \* browser tabs of one principal
    Threads,       \* thread ids
    WindowLimit,   \* events in one window (256 in the code)
    SaveAttempts,  \* attempts of saveThreadCollectionWithConflictRecovery (3)
    MaxRevision,   \* bound on the collection revision
    MaxUpdates,    \* bound on the updatedAt of a thread
    MaxDisruptions \* bound on page reloads, deletions, lost requests and answers

VARIABLES
    eve,      \* [Threads -> [born, n]]: the stream of the thread's session
    srv,      \* [rev, meta, log]: the stored collection
    tab,      \* [Tabs -> [open, rev, base, view, pend, dirty, refreshes]]
    saving,   \* [Tabs -> the checkpoint in progress]
    disruptions

vars == <<eve, srv, tab, saving, disruptions>>

\* A step that spends one of the bounded disruptions.
Disrupts == disruptions < MaxDisruptions /\ disruptions' = disruptions + 1

\* A partial function without its value at k, and with the value v at k.
Without(f, k) == [x \in DOMAIN f \ {k} |-> f[x]]
With(f, k, v) == [x \in DOMAIN f \cup {k} |-> IF x = k THEN v ELSE f[x]]

NoThreads == <<>>

Idle == [phase |-> "idle"]

Init ==
    /\ eve = [h \in Threads |-> [born |-> FALSE, n |-> 0]]
    /\ srv = [rev |-> 0, meta |-> NoThreads,
              log |-> [h \in Threads |-> EmptyLog]]
    /\ tab = [t \in Tabs |-> [open |-> FALSE, rev |-> 0, base |-> NoThreads,
                              view |-> NoThreads, pend |-> NoThreads,
                              dirty |-> FALSE]]
    /\ saving = [t \in Tabs |-> Idle]
    /\ disruptions = 0

-----------------------------------------------------------------------------
(* Reads of the store.                                                      *)

\* loadIndex: metadata only, every thread a summary without events.
StoredIndex ==
    [h \in DOMAIN srv.meta |-> srv.meta[h] @@ [ev |-> <<>>, sum |-> TRUE, win |-> 0]]

\* load and loadThread: the whole event table of h.
StoredThread(h) == LogSlice(srv.log[h], 0, LogTotal(srv.log[h]))

\* loadThreadWindow: the page of log h that ends at before.
StoredPage(h, before) ==
    LET total == LogTotal(srv.log[h])
        first == WindowStart(total, before, WindowLimit)
        last  == IF before < total THEN before ELSE total
    IN  srv.meta[h] @@ [ev |-> LogSlice(srv.log[h], first, last),
                        sum |-> FALSE, win |-> first]

SameCoordinates(a, b) == a.upd = b.upd /\ a.trev = b.trev /\ a.cur = b.cur

\* An index keeps the events of a thread whose coordinates have not changed.
BaselineAfterIndex(prior, index) ==
    [h \in DOMAIN index |->
        IF /\ index[h].sum /\ h \in DOMAIN prior /\ ~prior[h].sum
           /\ SameCoordinates(prior[h], index[h])
        THEN [index[h] EXCEPT !.ev = prior[h].ev, !.sum = FALSE, !.win = prior[h].win]
        ELSE index[h]]

\* A page is merged into the events already fetched; its window replaces theirs.
BaselineAfterPage(prior, h, page) ==
    LET known == IF h \in DOMAIN prior THEN prior[h].ev ELSE <<>>
    IN  With(prior, h, [page EXCEPT !.ev = MergeThreadEventSnapshots(known, page.ev)])

-----------------------------------------------------------------------------
(* The difference a save sends.                                             *)

FirstDifference(old, new) ==
    LET D == {i \in DOMAIN old : old[i] # new[i]}
    IN  IF D = {} THEN Len(old) + 1 ELSE Min(D)

\* An append, or one snapshot replaced in place and then an append.
IsAppendOnly(old, new) ==
    /\ Len(new) >= Len(old)
    /\ Cardinality({i \in DOMAIN old : old[i] # new[i]}) <= 1

NoAppend == [events |-> <<>>, from |-> 0, replaces |-> FALSE]

\* Mutant: a replacement in place sends the new snapshot alone.
ReplacedAlone(old, new) ==
    LET d == FirstDifference(old.ev, new.ev)
    IN  IF IsAppendOnly(old.ev, new.ev) /\ d <= Len(old.ev)
        THEN [events |-> <<new.ev[d]>>, from |-> old.win + d - 1, replaces |-> TRUE]
        ELSE [NoAppend EXCEPT !.events = SubSeq(new.ev, d, Len(new.ev))]

\* The event delta of a thread the baseline knows.
EventAppend(old, new) ==
    IF IsAppendOnly(old.ev, new.ev)
    THEN LET d == FirstDifference(old.ev, new.ev)
         IN  [events   |-> SubSeq(new.ev, d, Len(new.ev)),
              from     |-> old.win + d - 1,
              replaces |-> d <= Len(old.ev)]
    ELSE [NoAppend EXCEPT !.events =
            SelectSeq(MergeThreadEventSnapshots(old.ev, new.ev),
                      LAMBDA e : e \notin Range(old.ev))]

\* createCollectionPatch: a thread the baseline lacks is sent whole.  So is one
\* marked as an explicit edit (clearing, resubmitting); only snapshots of older
\* browser versions are, as no code sets these states, and they are left out.
CollectionPatch(base, cand) ==
    [deleted |-> DOMAIN base \ DOMAIN cand,
     whole   |-> DOMAIN cand \ DOMAIN base,
     threads |-> cand,
     appends |-> [h \in DOMAIN cand \cap DOMAIN base |-> EventAppend(base[h], cand[h])]]

\* baselineAfterPatch: what the tab believes is stored after its patch.
BaselineAfterPatch(base, patch) ==
    [h \in DOMAIN patch.threads |->
        LET new == patch.threads[h]
        IN  IF h \in patch.whole THEN new
            ELSE LET sent == patch.appends[h]
                     old == base[h].ev
                 IN  IF sent.events = <<>> THEN [new EXCEPT !.ev = old]
                     ELSE IF ~sent.replaces
                     THEN [new EXCEPT !.ev = old \o SelectSeq(sent.events,
                                                 LAMBDA e : e \notin Range(old))]
                     ELSE new]

-----------------------------------------------------------------------------
(* The write of the store: patch.                                           *)

Meta(thread) == [cur |-> thread.cur, upd |-> thread.upd, trev |-> thread.trev,
                 cov |-> thread.cov]

\* mergeSummaryThread: a summary is authoritative for everything but coverage.
MergeSummaryThread(stored, thread) ==
    [Meta(thread) EXCEPT !.cov = stored.cov \/ thread.cov]

\* assertReplacementPrefix: a whole transcript must be the stored prefix.
SafeReplacement(log, ev) ==
    \/ LogTotal(log) = 0
    \/ /\ ev # <<>>
       /\ Len(ev) <= LogTotal(log)
       /\ \A i \in DOMAIN ev : i - 1 \in DOMAIN log /\ log[i - 1] = ev[i]

\* replaceThreadEvents, once assertReplacementPrefix has let it through.
ReplaceThreadEvents(ev) == InsertThreadEvents(EmptyLog, 0, ev)

\* parseThreadCollectionPatch: a thread is not both deleted and written.
WellFormedPatch(patch) == patch.deleted \cap DOMAIN patch.threads = {}

SafePatch(patch) ==
    \A h \in patch.whole : \/ patch.threads[h].ev = <<>>
                           \/ SafeReplacement(srv.log[h], patch.threads[h].ev)

PatchedMeta(patch) ==
    [h \in (DOMAIN srv.meta \ patch.deleted) \cup DOMAIN patch.threads |->
        IF h \notin DOMAIN patch.threads THEN srv.meta[h]
        ELSE IF h \in DOMAIN srv.meta /\ (h \notin patch.whole \/ patch.threads[h].sum)
        THEN MergeSummaryThread(srv.meta[h], patch.threads[h])
        ELSE Meta(patch.threads[h])]

PatchedLog(patch, h) ==
    CASE h \in patch.deleted -> EmptyLog
      [] h \in patch.whole /\ patch.threads[h].ev # <<>> ->
            ReplaceThreadEvents(patch.threads[h].ev)
      [] h \in DOMAIN patch.appends /\ patch.appends[h].events # <<>> ->
            AppendThreadEvents(srv.log[h], patch.appends[h].events,
                               patch.appends[h].from, patch.appends[h].replaces)
      [] OTHER -> srv.log[h]

Patched(patch) ==
    [rev |-> srv.rev + 1, meta |-> PatchedMeta(patch),
     log |-> [h \in Threads |-> PatchedLog(patch, h)]]

-----------------------------------------------------------------------------
(* What a tab shows, and when a change of it is due for a checkpoint.       *)

\* sameThreadCollection: the same threads with the same updatedAt.
SameCollection(a, b) ==
    DOMAIN a = DOMAIN b /\ \A h \in DOMAIN a : a[h].upd = b[h].upd

\* The tab record with another view, after the effect that schedules a save.
Shown(r, view) ==
    IF SameCollection(r.pend, view) THEN [r EXCEPT !.view = view]
    ELSE [r EXCEPT !.view = view, !.pend = view, !.dirty = TRUE]

\* A new updatedAt: later than every stamp the tab and the store have seen.
NextUpdate(h) ==
    1 + Max({0} \cup {tab[t].view[h].upd : t \in {u \in Tabs : h \in DOMAIN tab[u].view}}
              \cup (IF h \in DOMAIN srv.meta THEN {srv.meta[h].upd} ELSE {}))

\* Mutant of MergeForConflict: the newer thread wins with its events.
MergeTakesNewer(local, remote) ==
    [h \in DOMAIN local \cup DOMAIN remote |->
        IF h \notin DOMAIN remote \/ (h \in DOMAIN local /\ local[h].upd >= remote[h].upd)
        THEN local[h] ELSE remote[h]]

\* mergeThreadCollectionsForConflict, without the explicit edits (see above).
MergeForConflict(local, remote) ==
    [h \in DOMAIN local \cup DOMAIN remote |->
        IF h \notin DOMAIN remote THEN local[h]
        ELSE IF h \notin DOMAIN local THEN remote[h]
        ELSE LET l == local[h]
                 r == remote[h]
                 events == MergeThreadEventSnapshots(l.ev, r.ev)
                 chosen == IF l.upd >= r.upd THEN l ELSE r
             IN  [chosen EXCEPT !.ev = events,
                                !.sum = IF events # <<>> THEN FALSE ELSE chosen.sum,
                                !.cur = Max({l.cur, r.cur})]]

-----------------------------------------------------------------------------
(* Eve, and the actions of the user in a tab.                               *)

EveEmits(h) ==
    /\ eve[h].n + 1 \in Events
    /\ \E t \in Tabs : h \in DOMAIN tab[t].view
    /\ eve' = [eve EXCEPT ![h].n = @ + 1]
    /\ UNCHANGED <<srv, tab, saving, disruptions>>

\* The page is opened or reloaded: everything the tab held is gone.
OpenTab(t) ==
    /\ IF tab[t].open THEN Disrupts ELSE UNCHANGED disruptions
    /\ tab' = [tab EXCEPT ![t] =
                [open |-> TRUE, rev |-> srv.rev, base |-> StoredIndex,
                 view |-> StoredIndex, pend |-> StoredIndex, dirty |-> FALSE]]
    /\ saving' = [saving EXCEPT ![t] = Idle]
    /\ UNCHANGED <<eve, srv>>

\* The thread the repair route stores: complete, authoritative coverage.
RepairedMeta(meta, end) ==
    [meta EXCEPT !.cur = end, !.trev = @ + 1, !.cov = TRUE]

NewThread == [ev |-> <<>>, cur |-> 0, upd |-> 1, trev |-> 0, sum |-> FALSE,
              win |-> 0, cov |-> FALSE]

\* A thread the user starts: its id is new, and the first message makes it
\* part of the saved collection.
CreateThread(t, h) ==
    /\ tab[t].open /\ ~eve[h].born
    /\ eve' = [eve EXCEPT ![h].born = TRUE]
    /\ tab' = [tab EXCEPT ![t] = Shown(@, With(@.view, h, NewThread))]
    /\ UNCHANGED <<srv, saving, disruptions>>

\* The live stream of a shown thread delivers the events from its cursor up
\* to upto; they reach the collection in one update.
Ingest(t, h, upto) ==
    /\ h \in DOMAIN tab[t].view
    /\ LET th == tab[t].view[h]
       IN  /\ ~th.sum /\ th.cur < upto /\ upto <= eve[h].n
           /\ NextUpdate(h) <= MaxUpdates
           /\ tab' = [tab EXCEPT ![t] = Shown(@, With(@.view, h,
                        [th EXCEPT !.ev = FoldLeft(AppendThreadEvent, @,
                                            [i \in 1..(upto - th.cur) |-> th.cur + i]),
                                   !.cur = upto, !.upd = NextUpdate(h)]))]
    /\ UNCHANGED <<eve, srv, saving, disruptions>>

\* A change of metadata: a title, a preference, a queued turn.
EditMetadata(t, h) ==
    /\ h \in DOMAIN tab[t].view /\ NextUpdate(h) <= MaxUpdates
    /\ tab' = [tab EXCEPT ![t] = Shown(@, [@.view EXCEPT ![h].upd = NextUpdate(h)])]
    /\ UNCHANGED <<eve, srv, saving, disruptions>>

\* deleteThread, once the host has retired the session.
DeleteThread(t, h) ==
    /\ h \in DOMAIN tab[t].view /\ Disrupts
    /\ tab' = [tab EXCEPT ![t] = Shown(@, Without(@.view, h))]
    /\ UNCHANGED <<eve, srv, saving>>

\* hydrateThread: the tail window of a summary; a settled thread that may be
\* incomplete goes through RepairThread first.
HydrateThread(t, h) ==
    /\ h \in DOMAIN tab[t].view /\ tab[t].view[h].sum
    /\ h \in DOMAIN srv.meta
    /\ LET page  == StoredPage(h, LogTotal(srv.log[h]))
           shown == [page EXCEPT !.ev = CompactThreadEvents(page.ev),
                                 !.upd = Max({@, tab[t].view[h].upd})]
       IN  tab' = [tab EXCEPT ![t] =
                    Shown([@ EXCEPT !.rev = srv.rev,
                                    !.base = BaselineAfterPage(@, h, page)],
                          With(@.view, h, IF shown.ev = page.ev THEN page ELSE shown))]
    /\ UNCHANGED <<eve, srv, saving, disruptions>>

\* loadEarlierThreadEvents: the page before the window of the shown thread.
LoadEarlier(t, h) ==
    /\ h \in DOMAIN tab[t].view /\ tab[t].view[h].win > 0
    /\ h \in DOMAIN srv.meta
    /\ LET th   == tab[t].view[h]
           page == StoredPage(h, th.win)
           merged == CompactThreadEvents(page.ev \o th.ev)
       IN  tab' = [tab EXCEPT ![t] =
                    Shown([@ EXCEPT !.rev = srv.rev,
                                    !.base = BaselineAfterPage(@, h, page)],
                          With(@.view, h,
                            [th EXCEPT !.ev = MergeThreadEventSnapshots(th.ev, merged),
                                       !.win = page.win]))]
    /\ UNCHANGED <<eve, srv, saving, disruptions>>

\* repairThread of a tab: the repair route finds the session settled at end,
\* rebuilds the transcript from Eve's finite stream, verifies that the tail is
\* still end and writes under the revision it read.  Eve may move on before
\* the write; a collection that moved on answers 409 and nothing changes.
RepairThread(t, h, end) ==
    /\ h \in DOMAIN tab[t].view /\ tab[t].view[h].sum
    /\ h \in DOMAIN srv.meta /\ ~srv.meta[h].cov
    /\ end <= eve[h].n /\ LogEvents(srv.log[h]) \subseteq 1..end
    /\ srv.rev < MaxRevision
    /\ LET events == RebuiltTranscript(end)
           meta   == RepairedMeta(srv.meta[h], end)
           rev    == srv.rev + 1
           got    == [meta EXCEPT !.trev = rev] @@ [ev |-> events, sum |-> FALSE, win |-> 0]
       IN  /\ srv' = [rev |-> rev, meta |-> [srv.meta EXCEPT ![h] = meta],
                      log |-> [srv.log EXCEPT ![h] =
                                  AppendThreadEvents(@, events, 0, TRUE)]]
           /\ tab' = [tab EXCEPT ![t] =
                        Shown([@ EXCEPT !.rev = rev, !.base = With(@, h, got)],
                              With(@.view, h, got))]
    /\ UNCHANGED <<eve, saving, disruptions>>

\* PUT by a client that saves whole collections: it wrote what it had loaded
\* at the current revision, with new metadata for h.
PutSnapshot(h) ==
    /\ h \in DOMAIN srv.meta /\ srv.rev < MaxRevision /\ NextUpdate(h) <= MaxUpdates
    /\ Disrupts
    /\ srv' = [rev  |-> srv.rev + 1,
               meta |-> [srv.meta EXCEPT ![h].upd = NextUpdate(h)],
               log  |-> [k \in Threads |->
                            IF k \in DOMAIN srv.meta /\ StoredThread(k) # <<>>
                            THEN ReplaceThreadEvents(StoredThread(k)) ELSE srv.log[k]]]
    /\ UNCHANGED <<eve, tab, saving>>

-----------------------------------------------------------------------------
(* A checkpoint.                                                            *)

\* The PATCH of the candidate: the baseline and revision it was made from
\* travel with it.
Sent(t, cand, asked, attempt) ==
    [phase |-> "sent", cand |-> cand, asked |-> asked, attempt |-> attempt,
     base |-> tab[t].base, rev |-> tab[t].rev,
     patch |-> CollectionPatch(tab[t].base, cand)]

SaveCollection(t) ==
    /\ tab[t].dirty /\ saving[t] = Idle
    /\ saving' = [saving EXCEPT ![t] = Sent(t, tab[t].pend, tab[t].pend, 1)]
    /\ tab' = [tab EXCEPT ![t].dirty = FALSE]
    /\ UNCHANGED <<eve, srv, disruptions>>

\* The store decides under the revision of If-Match; the reply travels back.
StorePatches(t) ==
    /\ saving[t].phase = "sent"
    /\ LET s == saving[t]
           reply == IF s.rev # srv.rev THEN "conflict"
                    ELSE IF ~WellFormedPatch(s.patch) \/ ~SafePatch(s.patch) THEN "failed" ELSE "saved"
       IN  /\ reply = "saved" => srv.rev < MaxRevision
           /\ srv' = IF reply = "saved" THEN Patched(s.patch) ELSE srv
           /\ saving' = [saving EXCEPT ![t].phase = reply, ![t].rev = srv.rev + 1]
    /\ UNCHANGED <<eve, tab, disruptions>>

\* The answer 200: the baseline moves, a merged candidate becomes visible.
SaveReturns(t) ==
    /\ saving[t].phase = "saved"
    /\ LET s == saving[t]
           stored == [tab[t] EXCEPT !.rev = s.rev,
                                    !.base = BaselineAfterPatch(s.base, s.patch)]
       IN  tab' = [tab EXCEPT ![t] =
                    IF SameCollection(s.cand, s.asked) THEN stored
                    ELSE Shown(stored, MergeForConflict(stored.view, s.cand))]
    /\ saving' = [saving EXCEPT ![t] = Idle]
    /\ UNCHANGED <<eve, srv, disruptions>>

\* The request or its answer is lost, the patch is refused, or the third
\* attempt conflicts: the error is reported and the checkpoint abandoned.
SaveFails(t) ==
    /\ \/ saving[t].phase \in {"sent", "saved"} /\ Disrupts
       \/ saving[t].phase = "failed" /\ UNCHANGED disruptions
       \/ /\ saving[t].phase = "conflict" /\ saving[t].attempt >= SaveAttempts
          /\ UNCHANGED disruptions
    /\ saving' = [saving EXCEPT ![t] = Idle]
    /\ UNCHANGED <<eve, srv, tab>>

\* The reload after a 409; 304 answers with the baseline itself.
ReloadIndex(t) ==
    /\ saving[t].phase = "conflict" /\ saving[t].attempt < SaveAttempts
    /\ LET s      == saving[t]
           cached == tab[t].rev = srv.rev
           index  == IF cached THEN tab[t].base ELSE StoredIndex
           stale  == {h \in DOMAIN index \cap DOMAIN s.cand :
                        /\ index[h].sum /\ ~s.cand[h].sum
                        /\ ~SameCoordinates(index[h], s.cand[h])}
       IN  /\ tab' = [tab EXCEPT ![t].rev = srv.rev,
                                 ![t].base = IF cached THEN @
                                             ELSE BaselineAfterIndex(@, index)]
           /\ saving' = [saving EXCEPT ![t] =
                [phase |-> "reload", cand |-> s.cand, asked |-> s.asked,
                 attempt |-> s.attempt, remote |-> index, todo |-> stale]]
    /\ UNCHANGED <<eve, srv, disruptions>>

\* The remote window of one thread that may conflict; a read that fails
\* leaves the summary.
ReloadThread(t, h) ==
    /\ saving[t].phase = "reload" /\ h \in saving[t].todo
    /\ \/ /\ h \in DOMAIN srv.meta
          /\ LET page == StoredPage(h, LogTotal(srv.log[h]))
             IN  /\ tab' = [tab EXCEPT ![t].rev = srv.rev,
                                       ![t].base = BaselineAfterPage(@, h, page)]
                 /\ saving' = [saving EXCEPT ![t].todo = @ \ {h},
                                             ![t].remote = With(@, h, [page EXCEPT !.win = 0])]
       \/ /\ saving' = [saving EXCEPT ![t].todo = @ \ {h}]
          /\ UNCHANGED tab
    /\ UNCHANGED <<eve, srv, disruptions>>

RetrySave(t) ==
    /\ saving[t].phase = "reload" /\ saving[t].todo = {}
    /\ saving' = [saving EXCEPT ![t] =
                    Sent(t, MergeForConflict(@.cand, @.remote), @.asked, @.attempt + 1)]
    /\ UNCHANGED <<eve, srv, tab, disruptions>>

Next ==
    \/ \E h \in Threads : EveEmits(h) \/ PutSnapshot(h)
    \/ \E t \in Tabs :
        \/ OpenTab(t) \/ SaveCollection(t) \/ StorePatches(t) \/ SaveReturns(t)
        \/ SaveFails(t) \/ ReloadIndex(t) \/ RetrySave(t)
        \/ \E h \in Threads :
            \/ CreateThread(t, h) \/ EditMetadata(t, h)
            \/ DeleteThread(t, h) \/ HydrateThread(t, h) \/ LoadEarlier(t, h)
            \/ ReloadThread(t, h)
            \/ \E n \in Events : Ingest(t, h, n) \/ RepairThread(t, h, n)

Spec == Init /\ [][Next]_vars

-----------------------------------------------------------------------------
(* Properties.                                                              *)

\* The transcript of h fits in one window, so a tab that hydrates it has all
\* of it.
OneWindow(h) == LogTotal(srv.log[h]) <= WindowLimit

\* The indexes of a stored event log have no hole, and no event is at two.
Contiguous(log) == DOMAIN log = 0..(LogTotal(log) - 1) /\ IsInjective(log)

\* Whatever saves, merges, repairs and deletions of two tabs interleave, the
\* stored log of a one-window transcript is contiguous.
LogIsContiguous ==
    \A h \in Threads : OneWindow(h) => Contiguous(srv.log[h])

\* "A contiguous event log is required by absolute transcript pagination and
\* recovery cursors": the stored log of every transcript, however long, is
\* contiguous.  The code does not keep this promise: a tail page that a 409
\* reloads is merged into the whole baseline and leaves its own window start
\* there, which the next replacement adds to an index of the whole transcript.
EveryLogIsContiguous ==
    \A h \in Threads : Contiguous(srv.log[h])

\* "This prevents an older React snapshot from erasing persisted steps": a
\* stored step (an event that no snapshot supersedes) is never erased by a
\* write of either tab, except with its whole thread.  The code does not keep
\* this promise.
StepsKept ==
    [][\A h \in Threads : h \in DOMAIN srv.meta' /\ OneWindow(h) =>
        \A e \in LogEvents(srv.log[h]) :
            KeyOf[e] = NoKey => e \in LogEvents(srv.log[h]')]_vars

\* A save that was made from the stored log and carries the step e.
Knows(t, h, e) ==
    /\ h \in DOMAIN saving[t].base /\ saving[t].base[h].ev = StoredThread(h)
    /\ e \in Range(saving[t].cand[h].ev)

\* A stored step is erased only by a save of a tab that did not know it: no
\* delta made from the stored log, no append, repair or put takes away a step
\* of a thread that remains.
KnownStepsKept ==
    [][\A h \in Threads : h \in DOMAIN srv.meta' /\ OneWindow(h) =>
        \A e \in LogEvents(srv.log[h]) : KeyOf[e] = NoKey =>
            \/ e \in LogEvents(srv.log[h]')
            \/ \E t \in Tabs : /\ saving[t].phase = "sent" /\ saving'[t].phase = "saved"
                               /\ ~Knows(t, h, e)]_vars

\* What an open page shows of a thread stays shown, itself or superseded by a
\* later snapshot: no hydration, conflict merge or repair takes it away.
ShownStepsKept ==
    [][\A t \in Tabs : \A h \in DOMAIN tab[t].view \cap DOMAIN tab[t]'.view :
        \/ \A e \in Range(tab[t].view[h].ev) : Represents(Range(tab[t].view[h]'.ev), e)
        \/ OpenTab(t)]_vars
=============================================================================
