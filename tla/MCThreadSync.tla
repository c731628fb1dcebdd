---------------------------- MODULE MCThreadSync ----------------------------
(* Instances of ThreadSync for TLC: short streams with one cumulative key.  *)
EXTENDS ThreadSync, TLC

CONSTANTS a, b

ThreeEvents == 1..3
FourEvents == 1..4

\* A snapshot, a step, and the snapshot that continues the first one.
MixedSnapshots == <<1, 0, 1>>

\* Two steps, then two snapshots of one key.
StepsThenSnapshots == <<0, 0, 1, 1>>

TabSymmetry == Permutations(Tabs)

\* The page b is opened after the first save of a, a shows the first two
\* events only, Eve is one event ahead of the saves, metadata is edited once
\* and nothing is repaired.
LateSecondPage ==
    /\ tab[b].open => srv.rev > 0
    /\ \A h \in DOMAIN tab[a].view :
          LET th == tab[a].view[h]
          IN  th.cur <= 2 /\ th.upd <= th.cur + (IF th.cur < 2 THEN 1 ELSE 2)
    /\ \A h \in DOMAIN tab[b].view : tab[b].view[h].upd <= tab[b].view[h].cur + 2
    /\ \A h \in Threads : eve[h].n <= srv.rev + 1
    /\ \A h \in DOMAIN srv.meta : ~srv.meta[h].cov

\* Each page writes a thread of its own, and only the first thread streams:
\* page a shows three of its events at once and later the fourth.  Page b is
\* opened after the first save of a; nothing is repaired.
ThreadsApart ==
    /\ Cardinality({h \in Threads : eve[h].n > 0}) <= 1
    /\ \A t \in Tabs : Cardinality({h \in DOMAIN tab[t].view : ~tab[t].view[h].sum}) <= 1
    /\ tab[b].open => srv.rev > 0
    /\ \A h \in DOMAIN tab[a].view :
          LET th == tab[a].view[h]
          IN  th.sum \/ (th.cur \in {0, 3, 4} /\ th.upd <= IF th.cur = 4 THEN 3 ELSE 2)
    /\ \A h \in DOMAIN tab[b].view : tab[b].view[h].sum \/ eve[h].n = 0
    /\ \A h \in DOMAIN srv.meta : ~srv.meta[h].cov
=============================================================================
