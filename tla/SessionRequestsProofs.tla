------------------------- MODULE SessionRequestsProofs -------------------------
(***************************************************************************)
(* Theorems about the owner's requests on a session (SessionRequests), for  *)
(* any number of children, approvals, requests, events, turns and faults.   *)
(*                                                                         *)
(* The invariants are written as operators of the state, so that a lemma    *)
(* can compare the state before a step with the one after it.               *)
(***************************************************************************)
EXTENDS SessionRequests, DataInduction, SequenceTheorems

-----------------------------------------------------------------------------
(* Types.                                                                    *)

Events ==
         [type : {"called"}, child : Children]
    \cup [type : {"reported"}, child : Children, failed : BOOLEAN]
    \cup [type : {"started", "parked", "cancelled", "ended"}]
    \cup [type : {"asked"}, request : Approvals]
    \cup [type : {"answered"}, request : Approvals, option : {"approve", "reject"}]
    \cup [type : {"result"}, request : Approvals, status : {"rejected", "completed", "failed"}]

Sessions == [state : {"none", "running", "waiting", "completed", "failed"}, turn : Nat]

Rows == Statuses \cup {"none"}

IdleTasks    == [pc : {"idle", "spawn"}]
PageTasks    == [pc : {"page"}, from : Nat, to : Nat,
                 was : {"running", "waiting", "cancelled", "completed"}]
RefreshTasks == [pc : {"refresh"}, todo : SUBSET Children, seen : [Children -> Rows],
                 poll : BOOLEAN, live : SUBSET Children]
EventTasks   == [pc : {"events"}, from : Nat, to : Nat, at : Nat \ {0}, known : [Children -> Rows]]
StoreTasks   == [pc : {"store"}, from : Nat, to : Nat, at : Nat \ {0}, known : [Children -> Rows],
                 child : Children, status : Rows]
CascadeTasks == [pc : {"cascade"}, from : Nat, to : Nat, todo : SUBSET Children]
StampTasks   == [pc : {"stamp"}, from : Nat, to : Nat, todo : SUBSET Children,
                 child : Children, status : Rows]
ApprovalTasks == [pc : {"approvals"}, from : Nat, to : Nat, at : Nat \ {0}]
ProjectTasks == [pc : {"project"}, child : Children]
RetireTasks  == [pc : {"retire"}, child : Children, left : Nat \ {0}, close : BOOLEAN]
SendTasks    == [pc : {"recheck", "reconcile", "send", "enqueue"}, child : Children,
                 resume : BOOLEAN, status : Rows]
WriteTasks   == [pc : {"write"}, child : Children, status : Rows, turn : Nat]
InterruptTasks == [pc : {"interrupt"}, child : Children, turn : Nat]

Tasks == IdleTasks \cup PageTasks \cup RefreshTasks \cup EventTasks \cup StoreTasks
         \cup CascadeTasks \cup StampTasks \cup ApprovalTasks \cup ProjectTasks \cup RetireTasks
         \cup SendTasks \cup WriteTasks \cup InterruptTasks

DataOK ==
    /\ log \in Seq(Events)
    /\ child \in [Children -> Sessions]
    /\ detached \subseteq Children
    /\ mail \in [Children -> Nat]
    /\ opened \in Nat /\ faults \in Nat
    /\ record \in [Children -> Rows]
    /\ spawned \subseteq Children /\ reported \subseteq Children /\ lost \subseteq Children
    /\ shown \subseteq Children

TypeOK ==
    /\ DataOK
    /\ approval \in [Approvals -> {"none", "requested", "approved", "rejected"}]
    /\ req \in [Requests -> Tasks]

PageWork == {"page", "events", "store", "cascade", "stamp", "approvals"}

(* A request reads no further than the stream went when it read its page.   *)
PageRead(o, l) == o.pc \in PageWork => o.to <= Len(l)

Typed == TypeOK /\ \A p \in Requests : PageRead(req[p], log)

-----------------------------------------------------------------------------
(* Records.                                                                  *)

(* A failure that may be written down: the child is not detached, or its    *)
(* session or its result says so.                                           *)
FailureKnown(c, l, ch, det) ==
    \/ c \notin det
    \/ ch[c].state = "failed"
    \/ \E i \in DOMAIN l : l[i].type = "reported" /\ l[i].child = c /\ l[i].failed

Believed(c, status, l, ch, det) == status = "failed" => FailureKnown(c, l, ch, det)

(* A row is of a child that was started, and so is a called child.          *)
RowInv(c, row, l, ch, det) ==
    (row # "none" => ch[c].state # "none") /\ Believed(c, row, l, ch, det)

CalledInv(l, ch) == \A i \in DOMAIN l : l[i].type = "called" => ch[l[i].child].state # "none"

Cancels(o, l) == \E i \in o.from + 1..o.to : l[i].type = "cancelled"

StatusTasks == {"store", "stamp", "recheck", "reconcile", "send", "enqueue", "write"}

(* What a request has in hand: children it found recorded, and statuses     *)
(* that may be written down.                                                *)
TaskInv(o, l, ch, det, rec) ==
    /\ o.pc = "refresh" =>
        \A c \in o.todo : rec[c] # "none" /\ Believed(c, o.seen[c], l, ch, det)
    /\ o.pc \in {"events", "store"} => \A c \in Children : o.known[c] # "none" => rec[c] # "none"
    /\ o.pc \in {"cascade", "stamp"} =>
        \A c \in o.todo : rec[c] # "none" /\ (Cancels(o, l) \/ c \notin det)
    /\ o.pc \in StatusTasks =>
        /\ rec[o.child] # "none" /\ o.status # "none"
        /\ Believed(o.child, o.status, l, ch, det)
    /\ o.pc = "project" => ch[o.child].state # "none"
    /\ o.pc = "retire" /\ o.close => rec[o.child] # "none"
    /\ o.pc = "interrupt" => rec[o.child] # "none" /\ ch[o.child].turn >= o.turn
    /\ o.pc = "write" /\ o.status = "interrupted" =>
        /\ ch[o.child].turn >= o.turn
        /\ ch[o.child].turn > o.turn \/ ch[o.child].state # "running"

RecordInv ==
    /\ \A c \in Children : RowInv(c, record[c], log, child, detached)
    /\ CalledInv(log, child)
    /\ \A p \in Requests : TaskInv(req[p], log, child, detached, record)

(* A spawned child without a record has ended, was reported or lost, or is  *)
(* in the hands of its request.                                             *)
InHand(o, c) == o.pc \in {"project", "retire"} /\ o.child = c /\ (o.pc = "retire" => ~o.close)

OrphanInv ==
    \A c \in spawned :
        \/ record[c] # "none" \/ child[c].state \in {"completed", "failed"}
        \/ c \in reported \cup lost
        \/ \E p \in Requests : InHand(req[p], c)

-----------------------------------------------------------------------------
(* Approvals.                                                                *)

Tells(e, type, r) == e.type = type /\ e.request = r

(* An approval is asked, then answered once, and its result agrees.         *)
HistoryInv(l) ==
    /\ \A i \in DOMAIN l : l[i].type = "answered" =>
        \E j \in DOMAIN l : j < i /\ Tells(l[j], "asked", l[i].request)
    /\ \A i, j \in DOMAIN l : l[i].type = "answered" /\ Tells(l[j], "answered", l[i].request) => i = j
    /\ \A i \in DOMAIN l : l[i].type = "result" =>
        \E j \in DOMAIN l : j < i /\ Tells(l[j], "answered", l[i].request)
                            /\ (l[i].status = "rejected" <=> l[j].option = "reject")

Resolved == {"approved", "rejected"}

AnswerInv(l, a) ==
    \A r \in Approvals : a[r] \in Resolved =>
        \E i \in DOMAIN l : /\ Tells(l[i], "answered", r)
                            /\ a[r] = IF l[i].option = "approve" THEN "approved" ELSE "rejected"

(* The part of a history from its start that a request has projected.       *)
Projected(o, l, a) ==
    o.pc = "approvals" /\ o.from = 0 =>
        \A i \in 1..o.to : i < o.at =>
            /\ l[i].type = "asked" => a[l[i].request] # "none"
            /\ l[i].type = "answered" => a[l[i].request] \in Resolved

ApprovalInv ==
    /\ HistoryInv(log) /\ AnswerInv(log, approval)
    /\ \A p \in Requests : Projected(req[p], log, approval)

-----------------------------------------------------------------------------
(* Pages.                                                                    *)

KnownStatus(s) == IF s = "unknown" THEN "running" ELSE s

(* The boundary a short page remembers is that of the stream it read.       *)
PageInv(o, l) ==
    o.pc = "page" /\ o.to - o.from < PageLimit =>
        o.was = KnownStatus(ProjectSnapshot(SubSeq(l, 1, o.to)))

Pages == \A p \in Requests : PageInv(req[p], log)

-----------------------------------------------------------------------------
(* Facts about the data.                                                     *)

(* A request's place in the code tells the fields it carries.               *)
LEMMA TaskKinds ==
    ASSUME NEW o \in Tasks
    PROVE  /\ o.pc \in {"idle", "spawn"} => o \in IdleTasks
           /\ o.pc = "page" => o \in PageTasks
           /\ o.pc = "refresh" => o \in RefreshTasks
           /\ o.pc = "events" => o \in EventTasks
           /\ o.pc = "store" => o \in StoreTasks
           /\ o.pc = "cascade" => o \in CascadeTasks
           /\ o.pc = "stamp" => o \in StampTasks
           /\ o.pc = "approvals" => o \in ApprovalTasks
           /\ o.pc = "project" => o \in ProjectTasks
           /\ o.pc = "retire" => o \in RetireTasks
           /\ o.pc \in {"recheck", "reconcile", "send", "enqueue"} => o \in SendTasks
           /\ o.pc = "write" => o \in WriteTasks
           /\ o.pc = "interrupt" => o \in InterruptTasks
BY DEF Tasks, IdleTasks, PageTasks, RefreshTasks, EventTasks, StoreTasks, CascadeTasks, StampTasks,
       ApprovalTasks, ProjectTasks, RetireTasks, SendTasks, WriteTasks, InterruptTasks

(* So does the type of an event.                                            *)
LEMMA EventKinds ==
    ASSUME NEW e \in Events
    PROVE  /\ e.type \in {"called", "reported"} => e.child \in Children
           /\ e.type = "reported" => e.failed \in BOOLEAN
           /\ e.type \in {"asked", "answered", "result"} => e.request \in Approvals
           /\ e.type = "answered" => e.option \in {"approve", "reject"}
           /\ e.type = "result" => e.status \in {"rejected", "completed", "failed"}
           /\ e.type \in {"called", "reported", "started", "parked", "cancelled", "ended",
                          "asked", "answered", "result"}
BY DEF Events

(* The least of a nonempty set of positions is one of them and below the    *)
(* others.                                                                  *)
LEMMA MinFacts ==
    ASSUME NEW S, S \subseteq Nat, S # {}
    PROVE  Min(S) \in S /\ \A y \in S : Min(S) <= y
<1>1. PICK x \in S : \A y \in S : x <= y
  BY LeastNatural
<1>2. (CHOOSE z \in S : \A y \in S : z <= y) \in S
      /\ \A y \in S : (CHOOSE z \in S : \A w \in S : z <= w) <= y
  BY <1>1
<1> QED BY <1>2 DEF Min

(* The greatest of a nonempty set of bounded positions likewise.            *)
LEMMA MaxFacts ==
    ASSUME NEW n \in Nat, NEW S, S \subseteq 0..n, S # {}
    PROVE  Max(S) \in S /\ \A y \in S : y <= Max(S)
<1> DEFINE T == {n - x : x \in S}
<1>1. T \subseteq Nat /\ T # {}
  OBVIOUS
<1>2. PICK t \in T : \A u \in T : t <= u
  <2> HIDE DEF T
  <2> QED BY <1>1, LeastNatural
<1>3. PICK x \in S : t = n - x
  BY <1>2
<1>4. ASSUME NEW y \in S PROVE x >= y
  <2>1. n - y \in T OBVIOUS
  <2>2. t <= n - y BY <1>2, <2>1
  <2>3. x \in 0..n /\ y \in 0..n OBVIOUS
  <2> QED BY <1>3, <2>2, <2>3
<1>5. (CHOOSE z \in S : \A y \in S : z >= y) \in S
      /\ \A y \in S : (CHOOSE z \in S : \A w \in S : z >= w) >= y
  BY <1>4
<1>6. Max(S) \in S /\ \A y \in S : Max(S) >= y
  BY <1>5 DEF Max
<1>7. \A y \in S : y \in 0..n
  OBVIOUS
<1> QED BY <1>6, <1>7

(* The next event about a subagent is 0 or the first such event of the rest *)
(* of the page.                                                             *)
LEMMA ChildEventFacts ==
    ASSUME NEW from \in Nat \ {0}, NEW to \in Nat, NextChildEvent(from, to) # 0
    PROVE  /\ NextChildEvent(from, to) \in from..to
           /\ NextChildEvent(from, to) + 1 \in Nat \ {0}
<1> DEFINE About == {i \in from..to : log[i].type \in {"called", "reported"}}
<1>1. About # {} /\ NextChildEvent(from, to) = Min(About)
  BY DEF NextChildEvent
<1>2. About \subseteq Nat
  OBVIOUS
<1>3. Min(About) \in About
  <2> HIDE DEF About
  <2> QED BY <1>1, <1>2, MinFacts
<1> QED BY <1>1, <1>3

(* So is the next event about an approval, and the events before it are not *)
(* about approvals.                                                         *)
LEMMA ApprovalEventFacts ==
    ASSUME NEW from \in Nat \ {0}, NEW to \in Nat
    PROVE  LET i == NextApprovalEvent(from, to)
               about == {"asked", "answered", "result"} IN
           /\ i = 0 => \A j \in from..to : log[j].type \notin about
           /\ i # 0 => /\ i \in from..to /\ i + 1 \in Nat \ {0} /\ log[i].type \in about
                       /\ \A j \in from..to : j < i => log[j].type \notin about
<1> DEFINE about == {"asked", "answered", "result"}
           About == {i \in from..to : log[i].type \in about}
<1>1. CASE About = {}
  <2>1. NextApprovalEvent(from, to) = 0 BY <1>1 DEF NextApprovalEvent
  <2> QED BY <2>1, <1>1
<1>2. CASE About # {}
  <2>1. NextApprovalEvent(from, to) = Min(About) BY <1>2 DEF NextApprovalEvent
  <2>2. About \subseteq Nat OBVIOUS
  <2>3. Min(About) \in About /\ \A y \in About : Min(About) <= y
    <3> HIDE DEF About
    <3> QED BY <1>2, <2>2, MinFacts
  <2>4. Min(About) # 0 BY <2>3
  <2>5. ASSUME NEW j \in from..to, j < Min(About) PROVE log[j].type \notin about
    <3>1. SUFFICES ASSUME j \in About PROVE FALSE OBVIOUS
    <3>2. Min(About) <= j BY <2>3, <3>1
    <3>3. Min(About) \in Nat BY <2>3
    <3> HIDE DEF About
    <3> QED BY <2>5, <3>2, <3>3
  <2> QED BY <2>1, <2>3, <2>4, <2>5
<1> QED BY <1>1, <1>2

-----------------------------------------------------------------------------
(* What one step of a request may leave it doing.                            *)

(* A task a step moves a request to: any but the page just read, and a      *)
(* projection of approvals starts at the first event of its page.           *)
Fresh(x, l) ==
    /\ x \in Tasks /\ PageRead(x, l) /\ x.pc # "page"
    /\ x.pc = "approvals" => x.at = x.from + 1

(* A request that reads and writes no events and continues its work.        *)
Moves(p) == log' = log /\ \E x : Fresh(x, log) /\ Go(p, x)

LEMMA IdleFresh ==
    ASSUME NEW l
    PROVE  Fresh(Idle, l)
BY DEF Idle, Fresh, PageRead, PageWork, Tasks, IdleTasks

(* A page that tells of approvals is handed on to their projection.         *)
LEMMA ToApprovalsFresh ==
    ASSUME NEW from \in Nat, NEW to \in Nat, to <= Len(log)
    PROVE  Fresh(ToApprovals(from, to), log)
<1> DEFINE x == [pc |-> "approvals", from |-> from, to |-> to, at |-> from + 1]
<1>1. x \in ApprovalTasks
  BY DEF ApprovalTasks
<1>2. x \in Tasks
  BY <1>1 DEF Tasks
<1>3. Fresh(x, log)
  <2>1. x.pc # "page" /\ x.at = x.from + 1 /\ x.to = to OBVIOUS
  <2> HIDE DEF x
  <2> QED BY <1>2, <2>1 DEF Fresh, PageRead
<1> QED BY <1>3, IdleFresh DEF ToApprovals

(* So is a page whose cascade has no child left.                            *)
LEMMA CascadeOnFresh ==
    ASSUME NEW o, o.from \in Nat, o.to \in Nat, o.to <= Len(log), NEW todo \in SUBSET Children
    PROVE  Fresh(CascadeOn(o, todo), log)
<1> DEFINE x == [pc |-> "cascade", from |-> o.from, to |-> o.to, todo |-> todo]
<1>1. x \in CascadeTasks
  BY DEF CascadeTasks
<1>2. x \in Tasks
  BY <1>1 DEF Tasks
<1>3. Fresh(x, log)
  <2>1. x.pc = "cascade" /\ x.to = o.to OBVIOUS
  <2> HIDE DEF x
  <2> QED BY <1>2, <2>1 DEF Fresh, PageRead
<1> QED BY <1>3, ToApprovalsFresh DEF CascadeOn

(* Going on in a page stays within it.                                      *)
LEMMA GoOnFresh ==
    ASSUME NEW o, o.from \in Nat, o.to \in Nat, o.to <= Len(log),
           NEW at \in Nat \ {0}, NEW known \in [Children -> Rows]
    PROVE  Fresh(GoOn(o, at, known), log)
<1> DEFINE x == [pc |-> "events", from |-> o.from, to |-> o.to, at |-> at, known |-> known]
<1>1. x \in EventTasks
  BY DEF EventTasks
<1>2. x \in Tasks
  BY <1>1 DEF Tasks
<1>3. Fresh(x, log)
  <2>1. x.pc = "events" /\ x.to = o.to OBVIOUS
  <2> HIDE DEF x
  <2> QED BY <1>2, <2>1 DEF Fresh, PageRead
<1>4. Cascade(o, known) \in SUBSET Children
  BY DEF Cascade
<1> QED BY <1>3, <1>4, CascadeOnFresh DEF GoOn

(* A task that reads no page is fresh once it has its type.                 *)
LEMMA OtherFresh ==
    ASSUME NEW x, NEW l,
           x \in RefreshTasks \cup ProjectTasks \cup RetireTasks \cup SendTasks
                \cup WriteTasks \cup InterruptTasks \cup IdleTasks
    PROVE  Fresh(x, l)
<1>1. x.pc \notin PageWork
  BY DEF RefreshTasks, ProjectTasks, RetireTasks, SendTasks, WriteTasks, InterruptTasks, IdleTasks,
         PageWork
<1>2. x \in Tasks
  BY DEF Tasks
<1> QED BY <1>1, <1>2 DEF Fresh, PageRead, PageWork

(* A step of a request keeps the requests typed.                            *)
LEMMA MovesTyped ==
    ASSUME Typed, NEW p \in Requests, Moves(p)
    PROVE  req' \in [Requests -> Tasks] /\ \A q \in Requests : PageRead(req'[q], log')
<1>1. PICK x : Fresh(x, log) /\ Go(p, x)
  BY DEF Moves
<1>2. req' = [req EXCEPT ![p] = x] /\ x \in Tasks /\ PageRead(x, log) /\ log' = log
  BY <1>1 DEF Go, Fresh, Moves
<1>3. req \in [Requests -> Tasks] /\ \A q \in Requests : PageRead(req[q], log)
  BY DEF Typed, TypeOK
<1>4. ASSUME NEW q \in Requests PROVE PageRead(req'[q], log')
  <2>1. CASE q = p BY <2>1, <1>2, <1>3
  <2>2. CASE q # p BY <2>2, <1>2, <1>3
  <2> QED BY <2>1, <2>2
<1> QED BY <1>2, <1>3, <1>4

-----------------------------------------------------------------------------
(* The steps of requests keep the types.                                     *)

(* A row that is created or updated is a row.                               *)
LEMMA CreateTyped ==
    ASSUME Typed, NEW c \in Children, NEW status \in Rows, Create(c, status)
    PROVE  record' \in [Children -> Rows]
<1>1. record \in [Children -> Rows] /\ "running" \in Rows
  BY DEF Typed, TypeOK, DataOK, Rows, Statuses
<1> QED BY <1>1 DEF Create

LEMMA UpdateTyped ==
    ASSUME Typed, NEW c \in Children, NEW status \in Rows, UpdateOwned(c, status)
    PROVE  record' \in [Children -> Rows]
BY DEF Typed, TypeOK, DataOK, UpdateOwned

(* An inspection returns a status.                                          *)
LEMMA InspectedTyped ==
    ASSUME Typed, NEW c \in Children
    PROVE  Inspected(c) \in Rows /\ Inspected(c) # "interrupted" /\ child[c].turn \in Nat
<1>1. child[c] \in Sessions
  BY DEF Typed, TypeOK, DataOK
<1> QED BY <1>1 DEF Sessions, Inspected, Rows, Statuses

(* Reads.                                                                   *)
LEMMA InspectChildrenTyped ==
    ASSUME Typed, NEW p \in Requests, NEW cs \in SUBSET Children, InspectChildren(p, cs)
    PROVE  DataOK' /\ Moves(p)
<1>1. Fresh(Refreshing(cs, FALSE), log)
  <2>1. Refreshing(cs, FALSE) \in RefreshTasks
    BY DEF Refreshing, RefreshTasks, Rows
  <2> QED BY <2>1, OtherFresh
<1>2. DataOK'
  BY DEF Typed, TypeOK, DataOK, InspectChildren, Open, runtime, records
<1> QED BY <1>1, <1>2 DEF InspectChildren, Open, Moves, runtime

LEMMA PollTyped ==
    ASSUME Typed, NEW p \in Requests, PollChildren(p)
    PROVE  DataOK' /\ Moves(p)
<1>1. Fresh(Refreshing({c \in Children : record[c] # "none"}, TRUE), log)
  <2>1. Refreshing({c \in Children : record[c] # "none"}, TRUE) \in RefreshTasks
    BY DEF Refreshing, RefreshTasks, Rows
  <2> QED BY <2>1, OtherFresh
<1>2. DataOK'
  BY DEF Typed, TypeOK, DataOK, PollChildren, Poll, runtime, records
<1> QED BY <1>1, <1>2 DEF PollChildren, Poll, Moves, runtime

(* A refreshed child is taken off the list, or the answer ends the request. *)
LEMMA RefreshedMoves ==
    ASSUME Typed, NEW p \in Requests, NEW c \in Children, NEW status,
           req[p] \in RefreshTasks, Refreshed(p, c, status)
    PROVE  /\ shown' \subseteq Children
           /\ \/ Go(p, Idle)
              \/ \E y \in RefreshTasks :
                    /\ Go(p, y) /\ y.todo = req[p].todo \ {c}
                    /\ \A d \in Children : y.seen[d] = IF d = c THEN "none" ELSE req[p].seen[d]
<1> DEFINE o == req[p]
           live == IF Active(status) THEN o.live \cup {c} ELSE o.live
           y == [o EXCEPT !.todo = @ \ {c}, !.seen[c] = "none", !.live = live]
<1>1. live \subseteq Children /\ shown \subseteq Children /\ "none" \in Rows
  BY DEF RefreshTasks, Typed, TypeOK, DataOK, Rows
<1>2. \/ shown' = shown /\ Go(p, y)
      \/ Go(p, Idle) /\ (shown' = shown \/ shown' = live)
  BY DEF Refreshed
<1> HIDE DEF live
<1>3. y \in RefreshTasks /\ y.todo = o.todo \ {c}
      /\ \A d \in Children : y.seen[d] = IF d = c THEN "none" ELSE o.seen[d]
  BY <1>1 DEF RefreshTasks
<1> HIDE DEF y
<1> QED BY <1>1, <1>2, <1>3

LEMMA RefreshInspectTyped ==
    ASSUME Typed, NEW p \in Requests, NEW c \in Children, RefreshInspect(p, c)
    PROVE  DataOK' /\ Moves(p)
<1> DEFINE o == req[p]
           x == [o EXCEPT !.seen[c] = Inspected(c)]
<1>1. o \in RefreshTasks
  BY TaskKinds DEF Typed, TypeOK, RefreshInspect
<1>2. x \in RefreshTasks
  BY <1>1, InspectedTyped DEF RefreshTasks
<1>3. log' = log /\ (Refreshed(p, c, record[c]) \/ (shown' = shown /\ Go(p, x)))
  BY DEF RefreshInspect, runtime
<1> HIDE DEF o, x
<1>4. shown' \subseteq Children /\ (Go(p, Idle) \/ \E y \in RefreshTasks : Go(p, y))
  BY <1>1, <1>2, <1>3, RefreshedMoves DEF o, Typed, TypeOK, DataOK
<1>5. DataOK'
  BY <1>4 DEF Typed, TypeOK, DataOK, RefreshInspect, Fault, runtime
<1> QED BY <1>3, <1>4, <1>5, OtherFresh, IdleFresh DEF Moves

LEMMA RefreshWriteTyped ==
    ASSUME Typed, NEW p \in Requests, NEW c \in Children, RefreshWrite(p, c)
    PROVE  DataOK' /\ Moves(p)
<1>1. req[p] \in RefreshTasks
  BY TaskKinds DEF Typed, TypeOK, RefreshWrite
<1>2. req[p].seen[c] \in Rows
  BY <1>1 DEF RefreshTasks
<1>3. record' \in [Children -> Rows]
  BY <1>2, UpdateTyped DEF RefreshWrite
<1>4. log' = log /\ Refreshed(p, c, req[p].seen[c])
  BY DEF RefreshWrite, runtime
<1>5. shown' \subseteq Children /\ (Go(p, Idle) \/ \E y \in RefreshTasks : Go(p, y))
  BY <1>1, <1>4, RefreshedMoves
<1>6. DataOK'
  BY <1>3, <1>5 DEF Typed, TypeOK, DataOK, RefreshWrite, runtime
<1> QED BY <1>4, <1>5, <1>6, OtherFresh, IdleFresh DEF Moves

(* Pages of events.                                                         *)
LEMMA SyncStartTyped ==
    ASSUME Typed, NEW p \in Requests, SyncStart(p)
    PROVE  DataOK' /\ Moves(p)
<1>1. req[p] \in PageTasks /\ PageRead(req[p], log)
  BY TaskKinds DEF Typed, TypeOK, SyncStart
<1>2. req[p].from \in Nat /\ req[p].to \in Nat /\ req[p].to <= Len(log) /\ req[p].from + 1 \in Nat \ {0}
  BY <1>1 DEF PageTasks, PageRead, PageWork
<1>3. Fresh(GoOn(req[p], req[p].from + 1, record), log)
  BY <1>2, GoOnFresh DEF Typed, TypeOK, DataOK
<1>4. DataOK'
  BY DEF Typed, TypeOK, DataOK, SyncStart, runtime, records
<1> QED BY <1>3, <1>4 DEF SyncStart, Moves, runtime

(* The next event of a request's page is one of the stream.                 *)
LEMMA NextChildTyped ==
    ASSUME Typed, NEW p \in Requests, req[p].pc = "events", NextChildEvent(req[p].at, req[p].to) # 0
    PROVE  LET i == NextChildEvent(req[p].at, req[p].to) IN
           /\ req[p] \in EventTasks /\ req[p].to <= Len(log)
           /\ i \in DOMAIN log /\ log[i] \in Events /\ i + 1 \in Nat \ {0}
<1>1. req[p] \in EventTasks /\ PageRead(req[p], log)
  BY TaskKinds DEF Typed, TypeOK
<1>2. req[p].at \in Nat \ {0} /\ req[p].to \in Nat /\ req[p].to <= Len(log)
  BY <1>1 DEF EventTasks, PageRead, PageWork
<1> DEFINE i == NextChildEvent(req[p].at, req[p].to)
<1>3. i \in req[p].at..req[p].to /\ i + 1 \in Nat \ {0}
  BY <1>2, ChildEventFacts
<1> HIDE DEF i
<1>4. log \in Seq(Events)
  BY DEF Typed, TypeOK, DataOK
<1>5. i \in 1..Len(log) /\ DOMAIN log = 1..Len(log) /\ Len(log) \in Nat
  BY <1>2, <1>3, <1>4
<1>6. log[i] \in Events
  BY <1>4, <1>5
<1> QED BY <1>1, <1>2, <1>3, <1>5, <1>6 DEF i

LEMMA SyncCalledTyped ==
    ASSUME Typed, NEW p \in Requests, SyncCalled(p)
    PROVE  DataOK' /\ Moves(p)
<1> DEFINE o == req[p]
           i == NextChildEvent(o.at, o.to)
           c == log[i].child
<1>1. o.pc = "events" /\ i # 0 /\ log[i].type = "called" /\ Create(c, "running")
      /\ Go(p, GoOn(o, i + 1, [o.known EXCEPT ![c] = record'[c]]))
      /\ UNCHANGED <<log, child, detached, mail, opened, faults, spawned, reported, lost, shown>>
  BY DEF SyncCalled, runtime
<1>2. o \in EventTasks /\ o.to <= Len(log) /\ log[i] \in Events /\ i + 1 \in Nat \ {0}
  BY <1>1, NextChildTyped
<1>3. c \in Children
  BY <1>1, <1>2, EventKinds
<1>4. record' \in [Children -> Rows]
  BY <1>1, <1>3, CreateTyped DEF Rows, Statuses
<1> HIDE DEF i, o, c
<1>5. [o.known EXCEPT ![c] = record'[c]] \in [Children -> Rows]
  BY <1>2, <1>3, <1>4 DEF EventTasks
<1>6. Fresh(GoOn(o, i + 1, [o.known EXCEPT ![c] = record'[c]]), log)
  BY <1>2, <1>5, GoOnFresh DEF EventTasks
<1>7. DataOK'
  BY <1>1, <1>4 DEF Typed, TypeOK, DataOK
<1> QED BY <1>1, <1>6, <1>7 DEF Moves

LEMMA SyncReportedTyped ==
    ASSUME Typed, NEW p \in Requests, SyncReported(p)
    PROVE  DataOK' /\ Moves(p)
<1> DEFINE o == req[p]
           i == NextChildEvent(o.at, o.to)
           c == log[i].child
           See(status) == [pc |-> "store", from |-> o.from, to |-> o.to, at |-> i + 1,
                           known |-> o.known, child |-> c, status |-> status]
<1>1. /\ o.pc = "events" /\ i # 0 /\ log[i].type = "reported" /\ log' = log
      /\ \/ Go(p, GoOn(o, i + 1, o.known))
         \/ \E status \in {"failed", Inspected(c), "waiting", "completed"} : Go(p, See(status))
  BY DEF SyncReported, runtime
<1>2. o \in EventTasks /\ o.to <= Len(log) /\ log[i] \in Events /\ i + 1 \in Nat \ {0}
  BY <1>1, NextChildTyped
<1>3. c \in Children
  BY <1>1, <1>2, EventKinds
<1>4. DataOK'
  BY DEF Typed, TypeOK, DataOK, SyncReported, Fault, runtime, records
<1>5. {"failed", Inspected(c), "waiting", "completed"} \subseteq Rows
  BY <1>3, InspectedTyped DEF Rows, Statuses
<1> HIDE DEF i, o, c
<1>6. Fresh(GoOn(o, i + 1, o.known), log)
  BY <1>2, GoOnFresh DEF EventTasks
<1>7. ASSUME NEW status \in Rows PROVE Fresh(See(status), log)
  <2>1. See(status) \in StoreTasks
    BY <1>2, <1>3 DEF EventTasks, StoreTasks
  <2>2. See(status) \in Tasks /\ See(status).pc = "store" /\ See(status).to = o.to
    BY <2>1 DEF Tasks
  <2> QED BY <2>2, <1>2 DEF Fresh, PageRead
<1> HIDE DEF See
<1> QED BY <1>1, <1>4, <1>5, <1>6, <1>7 DEF Moves

LEMMA SyncStoreTyped ==
    ASSUME Typed, NEW p \in Requests, SyncStore(p)
    PROVE  DataOK' /\ Moves(p)
<1> DEFINE o == req[p]
<1>1. /\ o.pc \in {"store", "stamp"} /\ UpdateOwned(o.child, o.status) /\ log' = log
      /\ Go(p, IF o.pc = "store" THEN GoOn(o, o.at, [o.known EXCEPT ![o.child] = o.status])
               ELSE CascadeOn(o, o.todo))
  BY DEF SyncStore, runtime
<1>2. o \in Tasks /\ PageRead(o, log)
  BY DEF Typed, TypeOK
<1>3. (o.pc = "store" => o \in StoreTasks) /\ (o.pc = "stamp" => o \in StampTasks)
      /\ o.to <= Len(log)
  BY <1>1, <1>2, TaskKinds DEF PageRead, PageWork
<1>4. record' \in [Children -> Rows]
  BY <1>1, <1>3, UpdateTyped DEF StoreTasks, StampTasks
<1>5. DataOK'
  BY <1>4 DEF Typed, TypeOK, DataOK, SyncStore, runtime
<1> HIDE DEF o
<1>6. CASE o.pc = "store"
  <2>1. [o.known EXCEPT ![o.child] = o.status] \in [Children -> Rows]
        /\ o.from \in Nat /\ o.to \in Nat /\ o.at \in Nat \ {0}
    BY <1>3, <1>6 DEF StoreTasks
  <2>2. Fresh(GoOn(o, o.at, [o.known EXCEPT ![o.child] = o.status]), log)
    BY <2>1, <1>3, GoOnFresh
  <2> QED BY <2>2, <1>1, <1>5, <1>6 DEF Moves
<1>7. CASE o.pc = "stamp"
  <2>1. o.from \in Nat /\ o.to \in Nat /\ o.todo \in SUBSET Children
    BY <1>3, <1>7 DEF StampTasks
  <2>2. Fresh(CascadeOn(o, o.todo), log)
    BY <2>1, <1>3, CascadeOnFresh
  <2> QED BY <2>2, <1>1, <1>5, <1>7 DEF Moves
<1> QED BY <1>1, <1>6, <1>7

LEMMA CascadeStepTyped ==
    ASSUME Typed, NEW p \in Requests, NEW c \in Children, CascadeStep(p, c)
    PROVE  DataOK' /\ Moves(p)
<1> DEFINE o == req[p]
           Stamp(status) == [pc |-> "stamp", from |-> o.from, to |-> o.to,
                             todo |-> o.todo \ {c}, child |-> c, status |-> status]
<1>1. /\ o.pc = "cascade" /\ log' = log
      /\ \/ \E status \in {"interrupted", Inspected(c), "failed"} : Go(p, Stamp(status))
         \/ Go(p, CascadeOn(o, o.todo \ {c}))
  BY DEF CascadeStep, runtime
<1>2. o \in CascadeTasks /\ o.to <= Len(log)
  BY <1>1, TaskKinds DEF Typed, TypeOK, PageRead, PageWork
<1>3. DataOK'
  BY DEF Typed, TypeOK, DataOK, CascadeStep, Fault, runtime, records
<1>4. {"interrupted", Inspected(c), "failed"} \subseteq Rows
  BY InspectedTyped DEF Rows, Statuses
<1> HIDE DEF o
<1>5. Fresh(CascadeOn(o, o.todo \ {c}), log)
  BY <1>2, CascadeOnFresh DEF CascadeTasks
<1>6. ASSUME NEW status \in Rows PROVE Fresh(Stamp(status), log)
  <2>1. Stamp(status) \in StampTasks
    BY <1>2 DEF CascadeTasks, StampTasks
  <2>2. Stamp(status) \in Tasks /\ Stamp(status).pc = "stamp" /\ Stamp(status).to = o.to
    BY <2>1 DEF Tasks
  <2> QED BY <2>2, <1>2 DEF Fresh, PageRead
<1> HIDE DEF Stamp
<1> QED BY <1>1, <1>3, <1>4, <1>5, <1>6 DEF Moves

(* Spawn and retirement.                                                    *)
LEMMA SpawnTyped ==
    ASSUME Typed, NEW p \in Requests, Spawn(p)
    PROVE  DataOK' /\ Moves(p)
<1>1. Fresh([pc |-> "spawn"], log)
  <2>1. [pc |-> "spawn"] \in IdleTasks BY DEF IdleTasks
  <2> QED BY <2>1, OtherFresh
<1>2. DataOK'
  BY DEF Typed, TypeOK, DataOK, Spawn, Open, runtime, records
<1> QED BY <1>1, <1>2 DEF Spawn, Open, Moves, runtime

LEMMA SpawnChildTyped ==
    ASSUME Typed, NEW p \in Requests, NEW c \in Children, SpawnChild(p, c)
    PROVE  DataOK' /\ Moves(p)
<1>1. Fresh([pc |-> "project", child |-> c], log)
  <2>1. [pc |-> "project", child |-> c] \in ProjectTasks BY DEF ProjectTasks
  <2> QED BY <2>1, OtherFresh
<1>2. [state |-> "running", turn |-> 1] \in Sessions
  BY DEF Sessions
<1>3. child' \in [Children -> Sessions] /\ detached' \subseteq Children
  BY <1>2 DEF Typed, TypeOK, DataOK, SpawnChild, StartChild
<1>4. DataOK'
  BY <1>3 DEF Typed, TypeOK, DataOK, SpawnChild
<1> QED BY <1>1, <1>4 DEF SpawnChild, Moves

LEMMA SpawnRefusedTyped ==
    ASSUME Typed, NEW p \in Requests, SpawnRefused(p)
    PROVE  DataOK' /\ Moves(p)
<1>1. DataOK'
  BY DEF Typed, TypeOK, DataOK, SpawnRefused, runtime, records
<1> QED BY <1>1, IdleFresh DEF SpawnRefused, Moves, runtime

LEMMA SpawnUnansweredTyped ==
    ASSUME Typed, NEW p \in Requests, NEW c \in Children, SpawnUnanswered(p, c)
    PROVE  DataOK' /\ Moves(p)
<1>1. [state |-> "running", turn |-> 1] \in Sessions
  BY DEF Sessions
<1>2. child' \in [Children -> Sessions] /\ detached' \subseteq Children
  BY <1>1 DEF Typed, TypeOK, DataOK, SpawnUnanswered, StartChild
<1>3. DataOK'
  BY <1>2 DEF Typed, TypeOK, DataOK, SpawnUnanswered, Fault
<1> QED BY <1>3, IdleFresh DEF SpawnUnanswered, Moves

LEMMA SpawnProjectTyped ==
    ASSUME Typed, NEW p \in Requests, SpawnProject(p)
    PROVE  DataOK' /\ Moves(p)
<1> DEFINE c == req[p].child
           x == [pc |-> "retire", child |-> c, left |-> Attempts, close |-> FALSE]
<1>1. /\ req[p].pc = "project" /\ log' = log
      /\ Create(c, "starting") \/ record' = record
      /\ Go(p, Idle) \/ Go(p, x)
  BY DEF SpawnProject, runtime
<1>2. c \in Children
  BY <1>1, TaskKinds DEF Typed, TypeOK, ProjectTasks
<1>3. record' \in [Children -> Rows]
  BY <1>1, <1>2, CreateTyped DEF Rows, Statuses, Typed, TypeOK, DataOK
<1>4. Fresh(x, log)
  <2>1. x \in RetireTasks BY <1>2, SupervisorConstants DEF RetireTasks
  <2> QED BY <2>1, OtherFresh
<1>5. DataOK'
  BY <1>3 DEF Typed, TypeOK, DataOK, SpawnProject, Fault, runtime
<1> QED BY <1>1, <1>4, <1>5, IdleFresh DEF Moves

LEMMA CloseTyped ==
    ASSUME Typed, NEW p \in Requests, NEW c \in Children, Close(p, c)
    PROVE  DataOK' /\ Moves(p)
<1> DEFINE x == [pc |-> "retire", child |-> c, left |-> Attempts, close |-> TRUE]
<1>1. Fresh(x, log)
  <2>1. x \in RetireTasks BY SupervisorConstants DEF RetireTasks
  <2> QED BY <2>1, OtherFresh
<1>2. DataOK'
  BY DEF Typed, TypeOK, DataOK, Close, Open, runtime, records
<1> QED BY <1>1, <1>2 DEF Close, Open, Moves, runtime

(* A reset keeps the turn of the child.                                     *)
LEMMA ResetTyped ==
    ASSUME Typed, NEW c \in Children, ResetChild(c)
    PROVE  child' \in [Children -> Sessions]
<1>1. child \in [Children -> Sessions] /\ child[c] \in Sessions
  BY DEF Typed, TypeOK, DataOK
<1>2. [child[c] EXCEPT !.state =
         IF child[c].state \in {"completed", "failed"} THEN child[c].state ELSE "completed"] \in Sessions
  BY <1>1 DEF Sessions
<1> QED BY <1>1, <1>2 DEF ResetChild

LEMMA RetireTyped ==
    ASSUME Typed, NEW p \in Requests, Retire(p)
    PROVE  DataOK' /\ Moves(p)
<1> DEFINE o == req[p]
<1>1. /\ o.pc = "retire" /\ log' = log
      /\ ResetChild(o.child) \/ child' = child
      /\ reported' \in {reported, reported \cup {o.child}}
      /\ \/ Go(p, Idle) \/ Go(p, ToWrite(o.child, "closed", 0))
         \/ o.left # 1 /\ Go(p, [o EXCEPT !.left = @ - 1])
  BY DEF Retire
<1>2. o \in RetireTasks
  BY <1>1, TaskKinds DEF Typed, TypeOK
<1>3. child' \in [Children -> Sessions]
  BY <1>1, <1>2, ResetTyped DEF Typed, TypeOK, DataOK, RetireTasks
<1>4. DataOK'
  BY <1>1, <1>2, <1>3 DEF Typed, TypeOK, DataOK, Retire, RetireTasks
<1> HIDE DEF o
<1>5. Fresh(ToWrite(o.child, "closed", 0), log)
  <2>1. ToWrite(o.child, "closed", 0) \in WriteTasks
    BY <1>2 DEF ToWrite, WriteTasks, RetireTasks, Rows, Statuses
  <2> QED BY <2>1, OtherFresh
<1>6. o.left # 1 => Fresh([o EXCEPT !.left = @ - 1], log)
  <2>1. o.left # 1 => [o EXCEPT !.left = @ - 1] \in RetireTasks
    BY <1>2 DEF RetireTasks
  <2> QED BY <2>1, OtherFresh
<1> QED BY <1>1, <1>4, <1>5, <1>6, IdleFresh DEF Moves

(* Messages and cancellations.                                              *)
LEMMA SendTyped ==
    ASSUME Typed, NEW p \in Requests, NEW c \in Children, NEW resume \in BOOLEAN, Send(p, c, resume)
    PROVE  DataOK' /\ Moves(p)
<1> DEFINE x == [pc |-> IF resume /\ record[c] \in {"completed", "interrupted"} THEN "recheck" ELSE "send",
                 child |-> c, resume |-> resume, status |-> record[c]]
<1>1. Fresh(x, log)
  <2>1. x \in SendTasks BY DEF Typed, TypeOK, DataOK, SendTasks
  <2> QED BY <2>1, OtherFresh
<1>2. DataOK'
  BY DEF Typed, TypeOK, DataOK, Send, Open, runtime, records
<1> QED BY <1>1, <1>2 DEF Send, Open, Moves, runtime

LEMMA RecheckTyped ==
    ASSUME Typed, NEW p \in Requests, Recheck(p)
    PROVE  DataOK' /\ Moves(p)
<1> DEFINE o == req[p]
<1>1. o \in SendTasks
  BY TaskKinds DEF Typed, TypeOK, Recheck
<1>2. DataOK'
  BY DEF Typed, TypeOK, DataOK, Recheck, Fault, runtime, records
<1>3. /\ log' = log
      /\ \/ Go(p, [o EXCEPT !.pc = "reconcile", !.status = Inspected(o.child)])
         \/ Go(p, [o EXCEPT !.pc = "send"])
  BY DEF Recheck, runtime
<1>4. o.child \in Children
  BY <1>1 DEF SendTasks
<1>5. Inspected(o.child) \in Rows
  BY <1>4, InspectedTyped
<1> HIDE DEF o
<1>6. Fresh([o EXCEPT !.pc = "reconcile", !.status = Inspected(o.child)], log)
      /\ Fresh([o EXCEPT !.pc = "send"], log)
  <2>1. [o EXCEPT !.pc = "reconcile", !.status = Inspected(o.child)] \in SendTasks
        /\ [o EXCEPT !.pc = "send"] \in SendTasks
    BY <1>1, <1>5 DEF SendTasks
  <2> QED BY <2>1, OtherFresh
<1> QED BY <1>2, <1>3, <1>6 DEF Moves

LEMMA ReconcileTyped ==
    ASSUME Typed, NEW p \in Requests, Reconcile(p)
    PROVE  DataOK' /\ Moves(p)
<1> DEFINE o == req[p]
<1>1. o \in SendTasks
  BY TaskKinds DEF Typed, TypeOK, Reconcile
<1>2. record' \in [Children -> Rows]
  BY <1>1, UpdateTyped DEF Reconcile, SendTasks
<1>3. DataOK'
  BY <1>2 DEF Typed, TypeOK, DataOK, Reconcile, runtime
<1>4. log' = log /\ Go(p, [o EXCEPT !.pc = "send"])
  BY DEF Reconcile, runtime
<1> HIDE DEF o
<1>5. Fresh([o EXCEPT !.pc = "send"], log)
  <2>1. [o EXCEPT !.pc = "send"] \in SendTasks
    BY <1>1 DEF SendTasks
  <2> QED BY <2>1, OtherFresh
<1> QED BY <1>3, <1>4, <1>5 DEF Moves

LEMMA SteerInspectTyped ==
    ASSUME Typed, NEW p \in Requests, SteerInspect(p)
    PROVE  DataOK' /\ Moves(p)
<1> DEFINE o == req[p]
<1>1. o \in SendTasks
  BY TaskKinds DEF Typed, TypeOK, SteerInspect
<1>2. DataOK'
  BY DEF Typed, TypeOK, DataOK, SteerInspect, runtime, records
<1>3. log' = log /\ (Go(p, [o EXCEPT !.pc = "enqueue"]) \/ Go(p, Idle))
  BY DEF SteerInspect, runtime
<1> HIDE DEF o
<1>4. Fresh([o EXCEPT !.pc = "enqueue"], log)
  <2>1. [o EXCEPT !.pc = "enqueue"] \in SendTasks
    BY <1>1 DEF SendTasks
  <2> QED BY <2>1, OtherFresh
<1> QED BY <1>2, <1>3, <1>4, IdleFresh DEF Moves

LEMMA EnqueueTyped ==
    ASSUME Typed, NEW p \in Requests, Enqueue(p)
    PROVE  DataOK' /\ Moves(p)
<1> DEFINE o == req[p]
<1>1. o \in SendTasks
  BY TaskKinds DEF Typed, TypeOK, Enqueue
<1>2. mail' \in [Children -> Nat]
  <2>1. mail' = [mail EXCEPT ![o.child] = 1] \/ mail' = mail BY DEF Enqueue
  <2>2. mail \in [Children -> Nat] BY DEF Typed, TypeOK, DataOK
  <2> QED BY <2>1, <2>2
<1>3. DataOK'
  BY <1>2 DEF Typed, TypeOK, DataOK, Enqueue, records
<1>4. log' = log /\ (Go(p, ToWrite(o.child, "running", 0)) \/ Go(p, Idle))
  BY DEF Enqueue
<1>5. Fresh(ToWrite(o.child, "running", 0), log)
  <2>1. ToWrite(o.child, "running", 0) \in WriteTasks
    BY <1>1 DEF ToWrite, WriteTasks, SendTasks, Rows, Statuses
  <2> QED BY <2>1, OtherFresh
<1> QED BY <1>3, <1>4, <1>5, IdleFresh DEF Moves

LEMMA InterruptTyped ==
    ASSUME Typed, NEW p \in Requests, NEW c \in Children, Interrupt(p, c)
    PROVE  DataOK' /\ Moves(p)
<1> DEFINE x == [pc |-> "interrupt", child |-> c,
                 turn |-> IF child[c].state = "running" THEN child[c].turn ELSE 0]
<1>1. Fresh(x, log)
  <2>1. x \in InterruptTasks BY InspectedTyped DEF InterruptTasks
  <2> QED BY <2>1, OtherFresh
<1>2. DataOK'
  BY DEF Typed, TypeOK, DataOK, Interrupt, Open, runtime, records
<1> QED BY <1>1, <1>2 DEF Interrupt, Open, Moves, runtime

LEMMA InterruptInspectTyped ==
    ASSUME Typed, NEW p \in Requests, InterruptInspect(p)
    PROVE  DataOK' /\ Moves(p)
<1> DEFINE o == req[p]
<1>1. o \in InterruptTasks
  BY TaskKinds DEF Typed, TypeOK, InterruptInspect
<1>2. DataOK'
  BY DEF Typed, TypeOK, DataOK, InterruptInspect, Fault, runtime, records
<1>3. /\ log' = log
      /\ \/ \E s \in {"interrupted", Inspected(o.child)} : Go(p, ToWrite(o.child, s, o.turn))
         \/ Go(p, Idle)
  BY DEF InterruptInspect, runtime
<1>4. o.child \in Children
  BY <1>1 DEF InterruptTasks
<1>5. {"interrupted", Inspected(o.child)} \subseteq Rows
  BY <1>4, InspectedTyped DEF Rows, Statuses
<1>6. ASSUME NEW s \in Rows PROVE Fresh(ToWrite(o.child, s, o.turn), log)
  <2>1. ToWrite(o.child, s, o.turn) \in WriteTasks
    BY <1>1 DEF ToWrite, WriteTasks, InterruptTasks
  <2> QED BY <2>1, OtherFresh
<1> QED BY <1>2, <1>3, <1>5, <1>6, IdleFresh DEF Moves

LEMMA WriteTyped ==
    ASSUME Typed, NEW p \in Requests, Write(p)
    PROVE  DataOK' /\ Moves(p)
<1>1. req[p] \in WriteTasks
  BY TaskKinds DEF Typed, TypeOK, Write
<1>2. record' \in [Children -> Rows]
  BY <1>1, UpdateTyped DEF Write, WriteTasks
<1>3. DataOK'
  BY <1>2 DEF Typed, TypeOK, DataOK, Write, runtime
<1> QED BY <1>3, IdleFresh DEF Write, Moves, runtime

(* Approvals, and a request that dies.                                      *)
LEMMA ReadApprovalsTyped ==
    ASSUME Typed, NEW p \in Requests, ReadApprovals(p), UNCHANGED records
    PROVE  DataOK' /\ Moves(p)
<1> DEFINE x == [pc |-> "approvals", from |-> 0, to |-> Len(log), at |-> 1]
<1>1. Len(log) \in Nat
  BY DEF Typed, TypeOK, DataOK
<1>2. x \in Tasks /\ x.pc = "approvals" /\ x.to = Len(log) /\ x.at = x.from + 1
  <2>1. x \in ApprovalTasks BY <1>1 DEF ApprovalTasks
  <2> QED BY <2>1 DEF Tasks
<1>3. Fresh(x, log)
  BY <1>1, <1>2 DEF Fresh, PageRead
<1>4. DataOK'
  BY DEF Typed, TypeOK, DataOK, ReadApprovals, Open, runtime, records
<1> QED BY <1>3, <1>4 DEF ReadApprovals, Open, Moves, runtime

LEMMA ListPendingTyped ==
    ASSUME Typed, NEW p \in Requests, ListPending(p), UNCHANGED records
    PROVE  DataOK' /\ Moves(p)
<1>1. DataOK'
  BY DEF Typed, TypeOK, DataOK, ListPending, runtime, records
<1> QED BY <1>1, IdleFresh DEF ListPending, Moves, runtime

LEMMA DiesTyped ==
    ASSUME Typed, NEW p \in Requests, Dies(p)
    PROVE  DataOK' /\ Moves(p)
<1>1. lost' \subseteq Children
  <2>1. req[p].pc \in {"project", "retire"} => req[p].child \in Children
    BY TaskKinds DEF Typed, TypeOK, ProjectTasks, RetireTasks
  <2> QED BY <2>1 DEF Typed, TypeOK, DataOK, Dies
<1>2. DataOK'
  BY <1>1 DEF Typed, TypeOK, DataOK, Dies, Fault, runtime
<1> QED BY <1>2, IdleFresh DEF Dies, Moves, runtime

(* The two steps that leave a request elsewhere: a page just read, and the  *)
(* next event of a projection.                                              *)
ReadsPage(p) ==
    /\ log' = log
    /\ \E x \in PageTasks : Go(p, x) /\ PageRead(x, log) /\ PageInv(x, log)

LEMMA StatusTyped ==
    /\ Status \in {"running", "waiting", "cancelled", "completed"}
    /\ Status = KnownStatus(ProjectSnapshot(log))
BY DEF Status, KnownStatus, ProjectSnapshot, StatusOf

LEMMA ReadPageTyped ==
    ASSUME Typed, NEW p \in Requests, NEW from \in 0..MaxEvents, ReadPage(p, from), UNCHANGED records
    PROVE  DataOK' /\ ReadsPage(p)
<1> DEFINE x == [pc |-> "page", from |-> from, to |-> PageEnd(from), was |-> Status]
<1>1. Len(log) \in Nat /\ from \in Nat /\ from <= Len(log) /\ log' = log /\ Go(p, x)
  BY DEF Typed, TypeOK, DataOK, ReadPage, Open, runtime
<1>2. PageEnd(from) \in Nat /\ PageEnd(from) <= Len(log)
      /\ (PageEnd(from) - from < PageLimit => PageEnd(from) = Len(log))
  BY <1>1, HistoryConstants DEF PageEnd
<1>3. x \in PageTasks /\ x.to = PageEnd(from) /\ x.from = from /\ x.was = Status /\ x.pc = "page"
  BY <1>1, <1>2, StatusTyped DEF PageTasks
<1>4. PageRead(x, log)
  BY <1>2, <1>3 DEF PageRead
<1>5. PageInv(x, log)
  <2>1. SUFFICES ASSUME PageEnd(from) - from < PageLimit
                 PROVE  Status = KnownStatus(ProjectSnapshot(SubSeq(log, 1, PageEnd(from))))
    BY <1>3 DEF PageInv
  <2>2. SubSeq(log, 1, Len(log)) = log
    BY DEF Typed, TypeOK, DataOK
  <2> QED BY <1>2, <2>1, <2>2, StatusTyped
<1>6. DataOK'
  BY DEF Typed, TypeOK, DataOK, ReadPage, Open, runtime, records
<1> HIDE DEF x
<1> QED BY <1>1, <1>3, <1>4, <1>5, <1>6 DEF ReadsPage

LEMMA NextApprovalTyped ==
    ASSUME Typed, NEW p \in Requests, req[p].pc = "approvals"
    PROVE  LET o == req[p]
               i == NextApprovalEvent(o.at, o.to)
               about == {"asked", "answered", "result"} IN
           /\ o \in ApprovalTasks /\ o.to <= Len(log)
           /\ i = 0 => \A j \in o.at..o.to : log[j].type \notin about
           /\ i # 0 => /\ i \in o.at..o.to /\ i \in DOMAIN log /\ i + 1 \in Nat \ {0}
                       /\ log[i] \in Events /\ log[i].type \in about
                       /\ log[i].request \in Approvals
                       /\ \A j \in o.at..o.to : j < i => log[j].type \notin about
<1> DEFINE o == req[p]
           i == NextApprovalEvent(o.at, o.to)
<1>1. o \in ApprovalTasks /\ PageRead(o, log)
  BY TaskKinds DEF Typed, TypeOK
<1>2. o.at \in Nat \ {0} /\ o.to \in Nat /\ o.to <= Len(log)
  BY <1>1 DEF ApprovalTasks, PageRead, PageWork
<1>3. log \in Seq(Events)
  BY DEF Typed, TypeOK, DataOK
<1>4. i # 0 => i \in DOMAIN log /\ log[i] \in Events
  <2>1. i # 0 => i \in o.at..o.to BY <1>2, ApprovalEventFacts
  <2>2. i # 0 => i \in 1..Len(log) BY <2>1, <1>2, <1>3
  <2> QED BY <2>2, <1>3
<1> QED BY <1>1, <1>2, <1>4, ApprovalEventFacts, EventKinds

LEMMA SyncApprovalTyped ==
    ASSUME Typed, NEW p \in Requests, SyncApproval(p), UNCHANGED records
    PROVE  /\ DataOK' /\ log' = log
           /\ approval' \in [Approvals -> {"none", "requested", "approved", "rejected"}]
           /\ req' \in [Requests -> Tasks] /\ \A q \in Requests : PageRead(req'[q], log')
<1> DEFINE o == req[p]
           i == NextApprovalEvent(o.at, o.to)
           x == [o EXCEPT !.at = i + 1]
<1>1. o.pc = "approvals" /\ i # 0 /\ Go(p, x) /\ log' = log
  BY DEF SyncApproval, runtime
<1>2. o \in ApprovalTasks /\ o.to <= Len(log) /\ i + 1 \in Nat \ {0} /\ log[i] \in Events
      /\ log[i].type \in {"asked", "answered", "result"} /\ log[i].request \in Approvals
  BY <1>1, NextApprovalTyped
<1>3. approval' \in [Approvals -> {"none", "requested", "approved", "rejected"}]
  BY <1>2 DEF SyncApproval, Put, Resolve, Typed, TypeOK
<1>4. DataOK'
  BY DEF Typed, TypeOK, DataOK, SyncApproval, runtime, records
<1> HIDE DEF o, i
<1>5. x \in ApprovalTasks /\ x.to = o.to
  BY <1>2 DEF ApprovalTasks
<1> HIDE DEF x
<1>6. x \in Tasks /\ PageRead(x, log)
  BY <1>2, <1>5 DEF Tasks, PageRead
<1>7. req' = [req EXCEPT ![p] = x] /\ req \in [Requests -> Tasks]
      /\ \A q \in Requests : PageRead(req[q], log)
  BY <1>1 DEF Go, Typed, TypeOK
<1>8. ASSUME NEW q \in Requests PROVE PageRead(req'[q], log')
  <2>1. CASE q = p BY <2>1, <1>1, <1>6, <1>7
  <2>2. CASE q # p BY <2>2, <1>1, <1>7
  <2> QED BY <2>1, <2>2
<1> QED BY <1>1, <1>3, <1>4, <1>6, <1>7, <1>8

LEMMA ReadsPageTyped ==
    ASSUME Typed, NEW p \in Requests, ReadsPage(p)
    PROVE  req' \in [Requests -> Tasks] /\ \A q \in Requests : PageRead(req'[q], log')
<1>1. PICK x \in PageTasks : Go(p, x) /\ PageRead(x, log)
  BY DEF ReadsPage
<1>2. req' = [req EXCEPT ![p] = x] /\ x \in Tasks /\ log' = log
  BY <1>1 DEF Go, Tasks, ReadsPage
<1>3. req \in [Requests -> Tasks] /\ \A q \in Requests : PageRead(req[q], log)
  BY DEF Typed, TypeOK
<1>4. ASSUME NEW q \in Requests PROVE PageRead(req'[q], log')
  <2>1. CASE q = p BY <2>1, <1>1, <1>2, <1>3
  <2>2. CASE q # p BY <2>2, <1>2, <1>3
  <2> QED BY <2>1, <2>2
<1> QED BY <1>2, <1>3, <1>4

(* The runtime appends an event, or changes a child only.                   *)
Legal(e) ==
    /\ e.type = "called" => child'[e.child].state # "none"
    /\ e.type = "answered" =>
        /\ \E j \in DOMAIN log : Tells(log[j], "asked", e.request)
        /\ ~ \E j \in DOMAIN log : Tells(log[j], "answered", e.request)
    /\ e.type = "result" =>
        /\ \E j \in DOMAIN log : Tells(log[j], "answered", e.request)
        /\ e.status = "rejected" <=> Answer(e.request) = "reject"

Emits == \E e \in Events : log' = Append(log, e) /\ Legal(e)

LEMMA StartTyped ==
    ASSUME Typed, NEW c \in Children, StartChild(c)
    PROVE  /\ child' \in [Children -> Sessions] /\ detached' \subseteq Children
           /\ child'[c].state = "running"
<1>1. [state |-> "running", turn |-> 1] \in Sessions
  BY DEF Sessions
<1> QED BY <1>1 DEF Typed, TypeOK, DataOK, StartChild

LEMMA EmittedTyped ==
    ASSUME Typed, Emits
    PROVE  log' \in Seq(Events) /\ Len(log') = Len(log) + 1
BY DEF Emits, Typed, TypeOK, DataOK

LEMMA RuntimeTyped ==
    ASSUME Typed, RuntimeNext, UNCHANGED records
    PROVE  DataOK' /\ req' = req /\ (log' = log \/ Emits)
<1>1. ASSUME NEW c \in Children, CallChild(c)
      PROVE  DataOK' /\ req' = req /\ (log' = log \/ Emits)
  <2>1. [type |-> "called", child |-> c] \in Events
    BY DEF Events
  <2>2. Emits
    BY <2>1, <1>1, StartTyped DEF Emits, Legal, CallChild, Append1
  <2> QED BY <2>2, <1>1, StartTyped, EmittedTyped DEF CallChild, Typed, TypeOK, DataOK, records
<1>2. ASSUME NEW c \in Children, StartChildTurn(c)
      PROVE  DataOK' /\ req' = req /\ (log' = log \/ Emits)
  <2>1. [state |-> "running", turn |-> child[c].turn + 1] \in Sessions
    BY InspectedTyped DEF Sessions
  <2>2. child' \in [Children -> Sessions]
    BY <2>1, <1>2 DEF StartChildTurn, Typed, TypeOK, DataOK
  <2>3. mail' \in [Children -> Nat]
    <3>1. mail' = [mail EXCEPT ![c] = mail[c] - 1] /\ mail[c] > 0 BY <1>2 DEF StartChildTurn
    <3>2. mail \in [Children -> Nat] BY DEF Typed, TypeOK, DataOK
    <3> QED BY <3>1, <3>2
  <2> QED BY <2>2, <2>3, <1>2 DEF StartChildTurn, Typed, TypeOK, DataOK, records
<1>3. ASSUME NEW c \in Children, NEW state \in {"waiting", "completed", "failed"}, EndChildTurn(c, state)
      PROVE  DataOK' /\ req' = req /\ (log' = log \/ Emits)
  <2>1. child[c] \in Sessions
    BY DEF Typed, TypeOK, DataOK
  <2>2. [child[c] EXCEPT !.state = state] \in Sessions
    BY <2>1 DEF Sessions
  <2>3. child' \in [Children -> Sessions]
    BY <2>2, <1>3 DEF EndChildTurn, Typed, TypeOK, DataOK
  <2> QED BY <2>3, <1>3 DEF EndChildTurn, Typed, TypeOK, DataOK, records
<1>4. ASSUME NEW c \in Children, NEW failed \in BOOLEAN, ReportChild(c, failed)
      PROVE  DataOK' /\ req' = req /\ (log' = log \/ Emits)
  <2>1. [type |-> "reported", child |-> c, failed |-> failed] \in Events
    BY DEF Events
  <2>2. Emits
    BY <2>1, <1>4 DEF Emits, Legal, ReportChild, Append1
  <2> QED BY <2>2, <1>4, EmittedTyped DEF ReportChild, Typed, TypeOK, DataOK, records
<1>5. ASSUME NEW type \in {"started", "parked", "cancelled", "ended"}, MoveParent(type)
      PROVE  DataOK' /\ req' = req /\ (log' = log \/ Emits)
  <2>1. [type |-> type] \in Events
    BY DEF Events
  <2>2. Emits
    BY <2>1, <1>5 DEF Emits, Legal, MoveParent, Append1
  <2> QED BY <2>2, <1>5, EmittedTyped DEF MoveParent, Typed, TypeOK, DataOK, records
<1>6. ASSUME NEW r \in Approvals, AskApproval(r)
      PROVE  DataOK' /\ req' = req /\ (log' = log \/ Emits)
  <2>1. [type |-> "asked", request |-> r] \in Events
    BY DEF Events
  <2>2. Emits
    BY <2>1, <1>6 DEF Emits, Legal, AskApproval, Append1
  <2> QED BY <2>2, <1>6, EmittedTyped DEF AskApproval, Typed, TypeOK, DataOK, records
<1>7. ASSUME NEW r \in Approvals, NEW option \in {"approve", "reject"}, AnswerApproval(r, option)
      PROVE  DataOK' /\ req' = req /\ (log' = log \/ Emits)
  <2> DEFINE e == [type |-> "answered", request |-> r, option |-> option]
  <2>1. e \in Events
    BY DEF Events
  <2>2. log' = Append(log, e) /\ Legal(e)
    BY <1>7 DEF Legal, AnswerApproval, Append1, Mentioned, Tells
  <2>3. Emits
    BY <2>1, <2>2 DEF Emits
  <2> QED BY <2>3, <1>7, EmittedTyped DEF AnswerApproval, Typed, TypeOK, DataOK, records
<1>8. ASSUME NEW r \in Approvals, NEW status \in {"rejected", "completed", "failed"}, ReportTool(r, status)
      PROVE  DataOK' /\ req' = req /\ (log' = log \/ Emits)
  <2> DEFINE e == [type |-> "result", request |-> r, status |-> status]
  <2>1. e \in Events
    BY DEF Events
  <2>2. log' = Append(log, e) /\ Legal(e)
    BY <1>8 DEF Legal, ReportTool, Append1, Mentioned, Tells
  <2>3. Emits
    BY <2>1, <2>2 DEF Emits
  <2> QED BY <2>3, <1>8, EmittedTyped DEF ReportTool, Typed, TypeOK, DataOK, records
<1> QED BY <1>1, <1>2, <1>3, <1>4, <1>5, <1>6, <1>7, <1>8 DEF RuntimeNext

(* The steps of requests, seen from outside.                                *)
SupervisorStep(p) == StartSupervisor(p) \/ StepSupervisor(p) \/ Dies(p)

LEMMA SupervisorTyped ==
    ASSUME Typed, NEW p \in Requests, SupervisorStep(p)
    PROVE  DataOK' /\ Moves(p)
<1>1. CASE StartSupervisor(p)
  <2>1. {c \in Children : record[c] # "none"} \in SUBSET Children /\ \A c \in Children : {c} \in SUBSET Children
    OBVIOUS
  <2> QED BY <1>1, <2>1, PollTyped, SpawnTyped, InspectChildrenTyped, CloseTyped, InterruptTyped, SendTyped
       DEF StartSupervisor
<1>2. CASE StepSupervisor(p)
  BY <1>2, WriteTyped, SyncStartTyped, SyncCalledTyped, SyncReportedTyped, SyncStoreTyped, SpawnRefusedTyped,
     SpawnProjectTyped, RetireTyped, RecheckTyped, ReconcileTyped, SteerInspectTyped, EnqueueTyped,
     InterruptInspectTyped, RefreshInspectTyped, RefreshWriteTyped, CascadeStepTyped, SpawnChildTyped,
     SpawnUnansweredTyped
     DEF StepSupervisor
<1> QED BY <1>1, <1>2, DiesTyped DEF SupervisorStep

(* Every step is one of the runtime, of the approval projection, or one of  *)
(* the other steps of a request.                                            *)
LEMMA StepKinds ==
    ASSUME Next
    PROVE  \/ RuntimeNext /\ UNCHANGED <<records, approval>>
           \/ \E p \in Requests :
                \/ SupervisorStep(p) /\ UNCHANGED approval
                \/ \E from \in 0..MaxEvents : ReadPage(p, from) /\ UNCHANGED <<records, approval>>
                \/ (ReadApprovals(p) \/ ListPending(p)) /\ UNCHANGED <<records, approval>>
                \/ SyncApproval(p) /\ UNCHANGED records
BY DEF Next, Continue, SupervisorStep, ReadApprovals, ListPending

LEMMA TypedStep == Typed /\ [Next]_vars => Typed'
<1> SUFFICES ASSUME Typed, [Next]_vars PROVE Typed'
  OBVIOUS
<1>1. CASE UNCHANGED vars
  BY <1>1 DEF vars, Typed, TypeOK, DataOK
<1>2. CASE RuntimeNext /\ UNCHANGED <<records, approval>>
  <2>1. DataOK' /\ req' = req /\ (log' = log \/ Emits)
    BY <1>2, RuntimeTyped
  <2>2. Len(log) \in Nat /\ (log' = log \/ Len(log') = Len(log) + 1)
    BY <2>1, EmittedTyped DEF Typed, TypeOK, DataOK
  <2>3. \A p \in Requests : req[p] \in Tasks /\ PageRead(req[p], log)
    BY DEF Typed, TypeOK
  <2>4. ASSUME NEW p \in Requests PROVE PageRead(req[p], log')
    <3>1. req[p].pc \in PageWork => req[p].to \in Nat
      BY <2>3, TaskKinds DEF PageWork, PageTasks, EventTasks, StoreTasks, CascadeTasks, StampTasks, ApprovalTasks
    <3> QED BY <2>2, <2>3, <3>1 DEF PageRead
  <2> QED BY <2>1, <2>4, <1>2 DEF Typed, TypeOK
<1>3. ASSUME NEW p \in Requests, SupervisorStep(p) /\ UNCHANGED approval PROVE Typed'
  BY <1>3, SupervisorTyped, MovesTyped DEF Typed, TypeOK
<1>4. ASSUME NEW p \in Requests, NEW from \in 0..MaxEvents, ReadPage(p, from) /\ UNCHANGED <<records, approval>>
      PROVE  Typed'
  BY <1>4, ReadPageTyped, ReadsPageTyped DEF Typed, TypeOK
<1>5. ASSUME NEW p \in Requests, (ReadApprovals(p) \/ ListPending(p)) /\ UNCHANGED <<records, approval>>
      PROVE  Typed'
  BY <1>5, ReadApprovalsTyped, ListPendingTyped, MovesTyped DEF Typed, TypeOK
<1>6. ASSUME NEW p \in Requests, SyncApproval(p) /\ UNCHANGED records PROVE Typed'
  BY <1>6, SyncApprovalTyped DEF Typed, TypeOK
<1> QED BY <1>1, <1>2, <1>3, <1>4, <1>5, <1>6, StepKinds

LEMMA TypedInit == Init => Typed
<1> SUFFICES ASSUME Init PROVE Typed
  OBVIOUS
<1>1. Idle \in Tasks /\ Idle.pc \notin PageWork
  BY DEF Idle, Tasks, IdleTasks, PageWork
<1>2. [state |-> "none", turn |-> 0] \in Sessions
  BY DEF Sessions
<1>3. log \in Seq(Events)
  BY DEF Init, InitHistory
<1>4. DataOK
  BY <1>2, <1>3 DEF Init, InitHistory, InitRecords, DataOK, Rows
<1>5. approval \in [Approvals -> {"none", "requested", "approved", "rejected"}]
  BY DEF Init, InitApprovals
<1> QED BY <1>1, <1>4, <1>5 DEF Init, InitHistory, Typed, TypeOK, PageRead

(* The session's state keeps its types, and no request works on events the  *)
(* stream does not have yet.                                                *)
THEOREM SessionTyped == Spec => []Typed
<1>1. Init => Typed
  BY TypedInit
<1>2. Typed /\ [Next]_vars => Typed'
  BY TypedStep
<1> QED BY <1>1, <1>2, PTL DEF Spec

-----------------------------------------------------------------------------
(* Approvals.                                                                *)

(* The stream only grows.                                                   *)
LEMMA LogGrows ==
    ASSUME Typed, log' = log \/ Emits
    PROVE  /\ Len(log) \in Nat /\ Len(log') \in Nat /\ Len(log) <= Len(log')
           /\ DOMAIN log = 1..Len(log) /\ DOMAIN log' = 1..Len(log')
           /\ \A i \in DOMAIN log : i \in DOMAIN log' /\ log'[i] = log[i] /\ log[i] \in Events
<1>1. log \in Seq(Events)
  BY DEF Typed, TypeOK, DataOK
<1> QED BY <1>1 DEF Emits

(* The answer of a request is the option of its only answered event.        *)
LEMMA AnswerOption ==
    ASSUME Typed, HistoryInv(log), NEW r, NEW j \in DOMAIN log, Tells(log[j], "answered", r)
    PROVE  Answer(r) = log[j].option
<1> DEFINE P(e) == e \in ToSet(log) /\ e.type = "answered" /\ e.request = r
<1>1. ASSUME NEW e, P(e) PROVE e = log[j]
  <2>1. PICK k \in DOMAIN log : e = log[k]
    BY <1>1 DEF ToSet
  <2>2. k = j
    BY <1>1, <2>1 DEF HistoryInv, Tells
  <2> QED BY <2>1, <2>2
<1>2. P(log[j])
  BY DEF ToSet, Tells
<1>3. (CHOOSE e \in ToSet(log) : e.type = "answered" /\ e.request = r) = log[j]
  BY <1>1, <1>2
<1> QED BY <1>3 DEF Answer

LEMMA HistoryStep ==
    ASSUME Typed, HistoryInv(log), log' = log \/ Emits
    PROVE  HistoryInv(log')
<1>1. CASE log' = log
  BY <1>1
<1>2. ASSUME NEW e \in Events, log' = Append(log, e), Legal(e)
      PROVE  HistoryInv(log')
  <2> DEFINE n == Len(log) + 1
  <2>1. /\ n \in Nat /\ DOMAIN log = 1..Len(log) /\ DOMAIN log' = 1..n /\ log'[n] = e
        /\ \A i \in DOMAIN log : log'[i] = log[i] /\ i \in DOMAIN log' /\ i < n
        /\ \A i \in DOMAIN log' : i = n \/ i \in DOMAIN log
    BY <1>2 DEF Typed, TypeOK, DataOK
  <2> HIDE DEF n
  <2>2. \A i \in DOMAIN log' : log'[i].type = "answered" =>
          \E j \in DOMAIN log' : j < i /\ Tells(log'[j], "asked", log'[i].request)
    <3> TAKE i \in DOMAIN log'
    <3> HAVE log'[i].type = "answered"
    <3>1. CASE i = n
      <4>1. PICK j \in DOMAIN log : Tells(log[j], "asked", e.request) BY <3>1, <2>1, <1>2 DEF Legal
      <4> QED BY <4>1, <3>1, <2>1
    <3>2. CASE i \in DOMAIN log
      <4>1. PICK j \in DOMAIN log : j < i /\ Tells(log[j], "asked", log[i].request)
        BY <3>2, <2>1 DEF HistoryInv
      <4> QED BY <4>1, <3>2, <2>1
    <3> QED BY <3>1, <3>2, <2>1
  <2>3. \A i, j \in DOMAIN log' :
          log'[i].type = "answered" /\ Tells(log'[j], "answered", log'[i].request) => i = j
    <3> TAKE i, j \in DOMAIN log'
    <3> HAVE log'[i].type = "answered" /\ Tells(log'[j], "answered", log'[i].request)
    <3>0. Tells(log'[i], "answered", log'[j].request) /\ log'[i].request = log'[j].request
      BY DEF Tells
    <3>1. CASE i \in DOMAIN log /\ j \in DOMAIN log
      BY <3>1, <2>1 DEF HistoryInv
    <3>2. CASE i = n /\ j \in DOMAIN log
      <4>1. e.type = "answered" /\ Tells(log[j], "answered", e.request) BY <3>2, <2>1
      <4> QED BY <4>1, <3>2, <1>2 DEF Legal
    <3>3. CASE j = n /\ i \in DOMAIN log
      <4>1. e.type = "answered" /\ Tells(log[i], "answered", e.request) BY <3>0, <3>3, <2>1 DEF Tells
      <4> QED BY <4>1, <3>3, <1>2 DEF Legal
    <3> QED BY <3>1, <3>2, <3>3, <2>1
  <2>4. \A i \in DOMAIN log' : log'[i].type = "result" =>
          \E j \in DOMAIN log' : j < i /\ Tells(log'[j], "answered", log'[i].request)
                               /\ (log'[i].status = "rejected" <=> log'[j].option = "reject")
    <3> TAKE i \in DOMAIN log'
    <3> HAVE log'[i].type = "result"
    <3>1. CASE i = n
      <4>1. PICK j \in DOMAIN log : Tells(log[j], "answered", e.request)
        BY <3>1, <2>1, <1>2 DEF Legal
      <4>2. Answer(e.request) = log[j].option
        BY <4>1, AnswerOption
      <4>3. e.status = "rejected" <=> Answer(e.request) = "reject"
        BY <3>1, <2>1, <1>2 DEF Legal
      <4> QED BY <4>1, <4>2, <4>3, <3>1, <2>1
    <3>2. CASE i \in DOMAIN log
      <4>1. PICK j \in DOMAIN log : j < i /\ Tells(log[j], "answered", log[i].request)
                                    /\ (log[i].status = "rejected" <=> log[j].option = "reject")
        BY <3>2, <2>1 DEF HistoryInv
      <4> QED BY <4>1, <3>2, <2>1
    <3> QED BY <3>1, <3>2, <2>1
  <2> QED BY <2>2, <2>3, <2>4 DEF HistoryInv
<1> QED BY <1>1, <1>2 DEF Emits

(* What was projected stays projected when the stream grows.                *)
LEMMA ProjectedKept ==
    ASSUME Typed, log' = log \/ Emits, NEW o \in Tasks, PageRead(o, log), NEW a, Projected(o, log, a)
    PROVE  Projected(o, log', a)
<1> SUFFICES ASSUME o.pc = "approvals", o.from = 0, NEW i \in 1..o.to, i < o.at
             PROVE  /\ log'[i].type = "asked" => a[log'[i].request] # "none"
                    /\ log'[i].type = "answered" => a[log'[i].request] \in Resolved
  BY DEF Projected
<1>1. o.to \in Nat /\ o.to <= Len(log)
  BY TaskKinds DEF ApprovalTasks, PageRead, PageWork
<1>2. i \in DOMAIN log /\ log'[i] = log[i]
  BY <1>1, LogGrows
<1> QED BY <1>2 DEF Projected

(* An event of a projection moves one row forwards.                         *)
LEMMA RowsMoveForwards ==
    ASSUME Typed, NEW p \in Requests, SyncApproval(p)
    PROVE  LET i == NextApprovalEvent(req[p].at, req[p].to)
               e == log[i] IN
           /\ \A r \in Approvals :
                /\ approval[r] # "none" => approval'[r] # "none"
                /\ approval[r] \in Resolved => approval'[r] = approval[r]
                /\ r # e.request => approval'[r] = approval[r]
           /\ e.type = "asked" => approval'[e.request] \in {approval[e.request], "requested"}
                                   /\ approval'[e.request] # "none"
           /\ e.type # "asked" => approval'[e.request] =
                IF approval[e.request] = "requested"
                THEN (IF Resolution(e) = "approve" THEN "approved" ELSE "rejected")
                ELSE approval[e.request]
<1> DEFINE i == NextApprovalEvent(req[p].at, req[p].to)
           e == log[i]
<1>1. e.request \in Approvals
  BY NextApprovalTyped DEF SyncApproval
<1>2. approval \in [Approvals -> {"none", "requested", "approved", "rejected"}]
  BY DEF Typed, TypeOK
<1>3. IF e.type = "asked" THEN Put(e.request) ELSE Resolve(e.request, Resolution(e))
  BY DEF SyncApproval
<1> HIDE DEF e
<1> QED BY <1>1, <1>2, <1>3 DEF Put, Resolve, Resolved, e

LEMMA SyncApprovalStep ==
    ASSUME Typed, ApprovalInv, NEW p \in Requests, SyncApproval(p)
    PROVE  ApprovalInv'
<1> DEFINE o == req[p]
           i == NextApprovalEvent(o.at, o.to)
           e == log[i]
           x == [o EXCEPT !.at = i + 1]
           about == {"asked", "answered", "result"}
<1>1. o.pc = "approvals" /\ i # 0 /\ Go(p, x) /\ log' = log
  BY DEF SyncApproval, runtime
<1>2. /\ o \in ApprovalTasks /\ o.to <= Len(log) /\ i \in o.at..o.to /\ i \in DOMAIN log
      /\ e.type \in about /\ e.request \in Approvals
      /\ \A j \in o.at..o.to : j < i => log[j].type \notin about
  BY <1>1, NextApprovalTyped
<1>3. /\ \A r \in Approvals :
            /\ approval[r] # "none" => approval'[r] # "none"
            /\ approval[r] \in Resolved => approval'[r] = approval[r]
            /\ r # e.request => approval'[r] = approval[r]
      /\ e.type = "asked" => approval'[e.request] \in {approval[e.request], "requested"}
                              /\ approval'[e.request] # "none"
      /\ e.type # "asked" => approval'[e.request] =
           IF approval[e.request] = "requested"
           THEN (IF Resolution(e) = "approve" THEN "approved" ELSE "rejected")
           ELSE approval[e.request]
  BY RowsMoveForwards
<1>4. approval \in [Approvals -> {"none", "requested", "approved", "rejected"}]
      /\ DOMAIN log = 1..Len(log) /\ Len(log) \in Nat /\ log[i] \in Events
  BY <1>2 DEF Typed, TypeOK, DataOK
<1>5. req' = [req EXCEPT ![p] = x] /\ req \in [Requests -> Tasks]
  BY <1>1 DEF Go, Typed, TypeOK
<1>6. x.at = i + 1 /\ x.from = o.from /\ x.to = o.to /\ x.pc = "approvals"
  BY <1>2, <1>1 DEF ApprovalTasks
<1>7. HistoryInv(log) /\ AnswerInv(log, approval) /\ \A q \in Requests : Projected(req[q], log, approval)
  BY DEF ApprovalInv
<1> HIDE DEF i, x, o, e
<1>8. AnswerInv(log, approval')
  <2>1. SUFFICES ASSUME NEW r \in Approvals, approval'[r] \in Resolved
                 PROVE  \E k \in DOMAIN log :
                          /\ Tells(log[k], "answered", r)
                          /\ approval'[r] = IF log[k].option = "approve" THEN "approved" ELSE "rejected"
    BY DEF AnswerInv
  <2>2. CASE approval'[r] = approval[r]
    BY <2>1, <2>2, <1>7 DEF AnswerInv
  <2>3. CASE approval'[r] # approval[r]
    <3>1. r = e.request /\ e.type # "asked"
      BY <2>1, <2>3, <1>3 DEF Resolved
    <3>2. approval'[r] = IF Resolution(e) = "approve" THEN "approved" ELSE "rejected"
      BY <3>1, <2>3, <1>3
    <3>3. CASE e.type = "answered"
      <4>1. Tells(log[i], "answered", r) BY <3>1, <3>3 DEF Tells, e
      <4>2. Resolution(e) = log[i].option BY <3>3 DEF Resolution, e
      <4> QED BY <4>1, <4>2, <3>2, <1>2
    <3>4. CASE e.type = "result"
      <4>1. PICK k \in DOMAIN log : /\ Tells(log[k], "answered", r)
                                    /\ e.status = "rejected" <=> log[k].option = "reject"
        BY <3>1, <3>4, <1>2, <1>7 DEF HistoryInv, e
      <4>2. log[k].option \in {"approve", "reject"}
        <5>1. log[k] \in Events BY <4>1 DEF Typed, TypeOK, DataOK
        <5> QED BY <5>1, <4>1, EventKinds DEF Tells
      <4>3. Resolution(e) = log[k].option
        BY <4>1, <4>2, <3>4 DEF Resolution
      <4> QED BY <4>1, <4>3, <3>2
    <3> QED BY <3>1, <3>3, <3>4, <1>2
  <2> QED BY <2>2, <2>3
<1>9. ASSUME NEW q \in Requests PROVE Projected(req'[q], log, approval')
  <2>1. CASE q # p
    <3>1. req'[q] = req[q] /\ req[q] \in Tasks /\ PageRead(req[q], log) /\ Projected(req[q], log, approval)
      BY <2>1, <1>5, <1>7 DEF Typed
    <3>2. SUFFICES ASSUME req[q].pc = "approvals", req[q].from = 0,
                          NEW j \in 1..req[q].to, j < req[q].at
                   PROVE  /\ log[j].type = "asked" => approval'[log[j].request] # "none"
                          /\ log[j].type = "answered" => approval'[log[j].request] \in Resolved
      BY <3>1 DEF Projected
    <3>3. req[q].to \in Nat /\ req[q].to <= Len(log)
      BY <3>1, <3>2, TaskKinds DEF ApprovalTasks, PageRead, PageWork
    <3>4. j \in DOMAIN log /\ log[j] \in Events
      BY <3>2, <3>3, <1>4 DEF Typed, TypeOK, DataOK
    <3>5. log[j].type \in {"asked", "answered"} => log[j].request \in Approvals
      BY <3>4, EventKinds
    <3>6. /\ log[j].type = "asked" => approval[log[j].request] # "none"
          /\ log[j].type = "answered" => approval[log[j].request] \in Resolved
      BY <3>1, <3>2 DEF Projected
    <3> QED BY <3>5, <3>6, <1>3
  <2>2. CASE q = p
    <3>1. SUFFICES ASSUME o.from = 0, NEW j \in 1..o.to, j < i + 1
                   PROVE  /\ log[j].type = "asked" => approval'[log[j].request] # "none"
                          /\ log[j].type = "answered" => approval'[log[j].request] \in Resolved
      BY <2>2, <1>5, <1>6 DEF Projected
    <3>2. o.to \in Nat /\ o.at \in Nat /\ i \in Nat /\ Projected(o, log, approval)
      BY <1>2, <1>7 DEF ApprovalTasks, o
    <3>3. j \in DOMAIN log /\ log[j] \in Events
      BY <3>1, <3>2, <1>2, <1>4 DEF Typed, TypeOK, DataOK
    <3>4. log[j].type \in {"asked", "answered"} => log[j].request \in Approvals
      BY <3>3, EventKinds
    <3>5. CASE j < o.at
      <4>1. /\ log[j].type = "asked" => approval[log[j].request] # "none"
            /\ log[j].type = "answered" => approval[log[j].request] \in Resolved
        BY <3>1, <3>2, <3>5, <1>1 DEF Projected
      <4> QED BY <4>1, <3>4, <1>3
    <3>6. CASE j >= o.at /\ j < i
      <4>1. log[j].type \notin about
        BY <3>1, <3>2, <3>6, <1>2
      <4> QED BY <4>1
    <3>7. CASE j = i
      <4>1. log[j].type = "asked" => approval'[log[j].request] # "none"
        BY <3>7, <1>3 DEF e
      <4>2. ASSUME log[j].type = "answered" PROVE approval'[log[j].request] \in Resolved
        <5>1. PICK k \in DOMAIN log : k < i /\ Tells(log[k], "asked", e.request)
          BY <4>2, <3>7, <1>2, <1>7 DEF HistoryInv, e
        <5>2. k < o.at
          BY <5>1, <3>2, <1>2, <1>4 DEF Tells
        <5>3. approval[e.request] # "none"
          BY <5>1, <5>2, <3>1, <3>2, <1>1, <1>2, <1>4 DEF Projected, Tells
        <5> QED BY <5>3, <4>2, <3>7, <1>2, <1>3, <1>4 DEF Resolved, e
      <4> QED BY <4>1, <4>2
    <3>8. j < o.at \/ (j >= o.at /\ j < i) \/ j = i
      BY <3>1, <3>2
    <3> QED BY <3>5, <3>6, <3>7, <3>8
  <2> QED BY <2>1, <2>2
<1> QED BY <1>1, <1>7, <1>8, <1>9 DEF ApprovalInv

LEMMA ApprovalInvStep == Typed /\ ApprovalInv /\ [Next]_vars => ApprovalInv'
<1> SUFFICES ASSUME Typed, ApprovalInv, [Next]_vars PROVE ApprovalInv'
  OBVIOUS
<1>1. CASE UNCHANGED vars
  BY <1>1 DEF vars, ApprovalInv
<1>2. CASE RuntimeNext /\ UNCHANGED <<records, approval>>
  <2>1. req' = req /\ approval' = approval /\ (log' = log \/ Emits)
    BY <1>2, RuntimeTyped
  <2>2. HistoryInv(log') /\ \A q \in Requests : Projected(req[q], log', approval)
    BY <2>1, HistoryStep, ProjectedKept DEF ApprovalInv, Typed, TypeOK
  <2>3. AnswerInv(log', approval)
    BY <2>1, LogGrows DEF ApprovalInv, AnswerInv
  <2> QED BY <2>1, <2>2, <2>3 DEF ApprovalInv
<1>3. ASSUME NEW p \in Requests, NEW x, x \in Tasks, Go(p, x), log' = log, approval' = approval,
             x.pc = "approvals" => x.at = x.from + 1
      PROVE  ApprovalInv'
  <2>1. Projected(x, log, approval)
    <3>1. SUFFICES ASSUME x.pc = "approvals", x.from = 0, NEW j \in 1..x.to, j < 1 PROVE FALSE
      BY <1>3 DEF Projected
    <3>2. x.to \in Nat BY <3>1, <1>3, TaskKinds DEF ApprovalTasks
    <3> QED BY <3>1, <3>2
  <2>2. req' = [req EXCEPT ![p] = x] /\ req \in [Requests -> Tasks]
    BY <1>3 DEF Go, Typed, TypeOK
  <2>3. \A q \in Requests : Projected(req'[q], log, approval)
    BY <2>1, <2>2 DEF ApprovalInv
  <2> QED BY <2>3, <1>3 DEF ApprovalInv
<1>4. ASSUME NEW p \in Requests, Moves(p), approval' = approval PROVE ApprovalInv'
  BY <1>3, <1>4 DEF Moves, Fresh
<1>5. ASSUME NEW p \in Requests, ReadsPage(p), approval' = approval PROVE ApprovalInv'
  <2>1. PICK x \in PageTasks : Go(p, x)
    BY <1>5 DEF ReadsPage
  <2>2. x \in Tasks /\ x.pc # "approvals"
    BY DEF PageTasks, Tasks
  <2> QED BY <2>1, <2>2, <1>3, <1>5 DEF ReadsPage
<1>6. ASSUME NEW p \in Requests, SupervisorStep(p) /\ UNCHANGED approval PROVE ApprovalInv'
  BY <1>4, <1>6, SupervisorTyped
<1>7. ASSUME NEW p \in Requests, NEW from \in 0..MaxEvents, ReadPage(p, from) /\ UNCHANGED <<records, approval>>
      PROVE  ApprovalInv'
  BY <1>5, <1>7, ReadPageTyped
<1>8. ASSUME NEW p \in Requests, (ReadApprovals(p) \/ ListPending(p)) /\ UNCHANGED <<records, approval>>
      PROVE  ApprovalInv'
  BY <1>4, <1>8, ReadApprovalsTyped, ListPendingTyped
<1>9. ASSUME NEW p \in Requests, SyncApproval(p) PROVE ApprovalInv'
  BY <1>9, SyncApprovalStep
<1> QED BY <1>1, <1>2, <1>6, <1>7, <1>8, <1>9, StepKinds

LEMMA ApprovalInvInit == Init => ApprovalInv
<1> SUFFICES ASSUME Init PROVE ApprovalInv
  OBVIOUS
<1>1. HistoryInv(log)
  BY DEF Init, InitHistory, HistoryInv
<1>2. AnswerInv(log, approval)
  BY DEF Init, InitApprovals, AnswerInv, Resolved
<1>3. \A p \in Requests : Projected(req[p], log, approval)
  BY DEF Init, InitHistory, Idle, Projected
<1> QED BY <1>1, <1>2, <1>3 DEF ApprovalInv

LEMMA AgreesFromInv ==
    ASSUME Typed, ApprovalInv
    PROVE  ApprovalAgrees
<1>1. HistoryInv(log) /\ AnswerInv(log, approval)
      /\ approval \in [Approvals -> {"none", "requested", "approved", "rejected"}]
  BY DEF ApprovalInv, Typed, TypeOK
<1>2. ASSUME NEW r \in Approvals, approval[r] \in Resolved
      PROVE  /\ Mentioned("answered", "request", r)
             /\ approval[r] = (IF Answer(r) = "approve" THEN "approved" ELSE "rejected")
  <2>1. PICK i \in DOMAIN log : /\ Tells(log[i], "answered", r)
                                /\ approval[r] = IF log[i].option = "approve" THEN "approved" ELSE "rejected"
    BY <1>1, <1>2 DEF AnswerInv
  <2>2. Mentioned("answered", "request", r)
    BY <2>1 DEF Mentioned, Tells
  <2>3. Answer(r) = log[i].option
    BY <2>1, <1>1, AnswerOption
  <2> QED BY <2>1, <2>2, <2>3
<1>3. ASSUME NEW p \in Requests, req[p].pc = "approvals", req[p].from = 0,
             NextApprovalEvent(req[p].at, req[p].to) = 0,
             NEW r \in Approvals, NEW i \in 1..req[p].to, log[i].request = r,
             log[i].type \in {"asked", "answered"}
      PROVE  /\ approval[r] # "none"
             /\ log[i].type = "answered" => approval[r] \in Resolved
  <2>1. req[p] \in ApprovalTasks
        /\ \A j \in req[p].at..req[p].to : log[j].type \notin {"asked", "answered", "result"}
    BY <1>3, NextApprovalTyped
  <2>2. i < req[p].at
    BY <2>1, <1>3 DEF ApprovalTasks
  <2> QED BY <2>2, <1>3 DEF ApprovalInv, Projected, Resolved
<1>4. \A p \in Requests :
        LET o == req[p]
            Said(type, r) == \E i \in 1..o.to : log[i].type = type /\ log[i].request = r IN
        (o.pc = "approvals" /\ o.from = 0 /\ NextApprovalEvent(o.at, o.to) = 0) =>
            \A r \in Approvals :
                /\ Said("answered", r) => approval[r] # "requested"
                /\ Said("asked", r) /\ ~Mentioned("answered", "request", r) => approval[r] = "requested"
  BY <1>1, <1>2, <1>3 DEF Resolved
<1>5. \A r \in Approvals : approval[r] \in {"approved", "rejected"} =>
        /\ Mentioned("answered", "request", r)
        /\ approval[r] = (IF Answer(r) = "approve" THEN "approved" ELSE "rejected")
  BY <1>2 DEF Resolved
<1> QED BY <1>4, <1>5 DEF ApprovalAgrees

(* A resolved approval says what the user answered, in whatever order and   *)
(* however often its pages were projected (syncAgentSessionApprovalsFrom-   *)
(* Events), for any number of requests at one time.                         *)
THEOREM SessionApprovalAgrees == Spec => []ApprovalAgrees
<1>1. Init => Typed /\ ApprovalInv
  BY TypedInit, ApprovalInvInit
<1>2. Typed /\ ApprovalInv /\ [Next]_vars => Typed' /\ ApprovalInv'
  BY TypedStep, ApprovalInvStep
<1>3. Typed /\ ApprovalInv => ApprovalAgrees
  BY AgreesFromInv
<1> QED BY <1>1, <1>2, <1>3, PTL DEF Spec

-----------------------------------------------------------------------------
(* Pages.                                                                    *)

(* The last event that says something, for a sequence that has one.         *)
LEMMA LastSaid ==
    ASSUME NEW s \in Seq(Events), NEW k \in DOMAIN s, StatusOf(s[k]) # "unknown",
           \A j \in DOMAIN s : j > k => StatusOf(s[j]) = "unknown"
    PROVE  ProjectSnapshot(s) = StatusOf(s[k])
<1> DEFINE said == {i \in DOMAIN s : StatusOf(s[i]) # "unknown"}
<1>1. said \subseteq 0..Len(s) /\ said # {} /\ Len(s) \in Nat
  OBVIOUS
<1> HIDE DEF said
<1>2. Max(said) \in said /\ \A y \in said : y <= Max(said)
  BY <1>1, MaxFacts
<1>3. k \in said /\ Max(said) \in DOMAIN s /\ StatusOf(s[Max(said)]) # "unknown"
  BY <1>2 DEF said
<1>4. ~ (Max(said) > k)
  BY <1>3
<1>5. Max(said) = k
  BY <1>1, <1>2, <1>3, <1>4
<1> QED BY <1>1, <1>5 DEF ProjectSnapshot, said

(* What a page says is what the whole stream up to its end says, or nothing. *)
LEMMA SuffixSnapshot ==
    ASSUME NEW l \in Seq(Events), NEW from \in Nat, NEW to \in Nat, to <= Len(l)
    PROVE  ProjectSnapshot(SubSeq(l, from + 1, to)) \in {"unknown", ProjectSnapshot(SubSeq(l, 1, to))}
<1> DEFINE s == SubSeq(l, from + 1, to)
           w == SubSeq(l, 1, to)
           said == {i \in DOMAIN s : StatusOf(s[i]) # "unknown"}
<1>1. CASE said = {}
  BY <1>1 DEF ProjectSnapshot
<1>2. CASE said # {}
  <2>1. /\ s \in Seq(Events) /\ Len(s) = IF from + 1 <= to THEN to - from ELSE 0
        /\ DOMAIN s = 1..Len(s) /\ \A i \in DOMAIN s : s[i] = l[from + i]
    OBVIOUS
  <2>2. /\ w \in Seq(Events) /\ Len(w) = to
        /\ DOMAIN w = 1..to /\ \A i \in DOMAIN w : w[i] = l[i]
    OBVIOUS
  <2>3. said \subseteq 0..Len(s) /\ Len(s) \in Nat
    BY <2>1
  <2> HIDE DEF s, w
  <2>4. Max(said) \in said /\ \A y \in said : y <= Max(said)
    <3> HIDE DEF said
    <3> QED BY <1>2, <2>3, MaxFacts
  <2> DEFINE k == Max(said)
  <2>5. k \in DOMAIN s /\ StatusOf(s[k]) # "unknown" /\ k \in Nat
    BY <2>4, <2>1
  <2>6. ASSUME NEW j \in DOMAIN s, j > k PROVE StatusOf(s[j]) = "unknown"
    <3>1. SUFFICES ASSUME j \in said PROVE FALSE OBVIOUS
    <3>2. j <= k /\ j \in Nat BY <2>4, <2>1, <3>1
    <3> HIDE DEF k
    <3> QED BY <2>5, <2>6, <3>2
  <2> HIDE DEF k
  <2>7. ProjectSnapshot(s) = StatusOf(s[k])
    BY <2>1, <2>5, <2>6, LastSaid
  <2>8. from + k \in DOMAIN w /\ w[from + k] = s[k]
    BY <2>1, <2>2, <2>5
  <2>9. ASSUME NEW j \in DOMAIN w, j > from + k PROVE StatusOf(w[j]) = "unknown"
    <3>1. j - from \in DOMAIN s /\ j - from > k /\ s[j - from] = l[from + (j - from)]
      BY <2>1, <2>2, <2>5, <2>9
    <3>2. from + (j - from) = j BY <2>2
    <3>3. s[j - from] = w[j] BY <3>1, <3>2, <2>2
    <3> QED BY <3>1, <3>3, <2>6
  <2>10. ProjectSnapshot(w) = StatusOf(w[from + k])
    BY <2>2, <2>5, <2>8, <2>9, LastSaid
  <2> QED BY <2>7, <2>8, <2>10 DEF s, w
<1> QED BY <1>1, <1>2

LEMMA PrefixKept ==
    ASSUME Typed, log' = log \/ Emits, NEW n \in Nat, n <= Len(log)
    PROVE  SubSeq(log', 1, n) = SubSeq(log, 1, n)
<1>1. CASE log' = log
  BY <1>1
<1>2. ASSUME NEW e \in Events, log' = Append(log, e) PROVE SubSeq(log', 1, n) = SubSeq(log, 1, n)
  <2>1. log \in Seq(Events) /\ log' \in Seq(Events) /\ n <= Len(log')
        /\ \A i \in 1..n : log'[i] = log[i]
    BY <1>2 DEF Typed, TypeOK, DataOK
  <2>2. SubSeq(log, 1, n) \in Seq(Events) /\ SubSeq(log', 1, n) \in Seq(Events)
        /\ Len(SubSeq(log, 1, n)) = n /\ Len(SubSeq(log', 1, n)) = n
        /\ \A i \in 1..n : SubSeq(log, 1, n)[i] = log[i] /\ SubSeq(log', 1, n)[i] = log'[i]
    BY <2>1
  <2> QED BY <2>1, <2>2, SeqEqual
<1> QED BY <1>1, <1>2 DEF Emits

LEMMA PagesStep == Typed /\ Pages /\ [Next]_vars => Pages'
<1> SUFFICES ASSUME Typed, Pages, [Next]_vars PROVE Pages'
  OBVIOUS
<1>1. CASE UNCHANGED vars
  BY <1>1 DEF vars, Pages
<1>2. CASE RuntimeNext /\ UNCHANGED <<records, approval>>
  <2>1. req' = req /\ (log' = log \/ Emits)
    BY <1>2, RuntimeTyped
  <2>2. ASSUME NEW q \in Requests PROVE PageInv(req[q], log')
    <3>1. SUFFICES ASSUME req[q].pc = "page", req[q].to - req[q].from < PageLimit
                   PROVE  req[q].was = KnownStatus(ProjectSnapshot(SubSeq(log', 1, req[q].to)))
      BY DEF PageInv
    <3>2. req[q].to \in Nat /\ req[q].to <= Len(log) /\ PageInv(req[q], log)
      BY <3>1, TaskKinds DEF PageTasks, Typed, TypeOK, PageRead, PageWork, Pages
    <3>3. SubSeq(log', 1, req[q].to) = SubSeq(log, 1, req[q].to)
      BY <2>1, <3>2, PrefixKept
    <3> QED BY <3>1, <3>2, <3>3 DEF PageInv
  <2> QED BY <2>1, <2>2 DEF Pages
<1>3. ASSUME NEW p \in Requests, NEW x, Go(p, x), log' = log, PageInv(x, log) PROVE Pages'
  <2>1. req' = [req EXCEPT ![p] = x] /\ req \in [Requests -> Tasks]
    BY <1>3 DEF Go, Typed, TypeOK
  <2>2. \A q \in Requests : PageInv(req'[q], log)
    BY <2>1, <1>3 DEF Pages
  <2> QED BY <2>2, <1>3 DEF Pages
<1>4. ASSUME NEW p \in Requests, Moves(p) PROVE Pages'
  BY <1>3, <1>4 DEF Moves, Fresh, PageInv
<1>5. ASSUME NEW p \in Requests, ReadsPage(p) PROVE Pages'
  BY <1>3, <1>5 DEF ReadsPage
<1>6. ASSUME NEW p \in Requests, SyncApproval(p) PROVE Pages'
  <2> DEFINE x == [req[p] EXCEPT !.at = NextApprovalEvent(req[p].at, req[p].to) + 1]
  <2>1. req[p] \in ApprovalTasks /\ Go(p, x) /\ log' = log
    BY <1>6, NextApprovalTyped DEF SyncApproval, runtime
  <2>2. x.pc = "approvals"
    BY <2>1 DEF ApprovalTasks
  <2> HIDE DEF x
  <2> QED BY <2>1, <2>2, <1>3 DEF PageInv
<1> QED BY <1>1, <1>2, <1>4, <1>5, <1>6, StepKinds, SupervisorTyped, ReadPageTyped, ReadApprovalsTyped,
       ListPendingTyped

LEMMA PageTrueFromInv ==
    ASSUME Typed, Pages
    PROVE  PageStatusTrue
<1> SUFFICES ASSUME NEW p \in Requests, req[p].pc = "page", req[p].to - req[p].from < PageLimit
             PROVE  ShownStatuses(req[p].from, req[p].to) \subseteq {req[p].was, Boundary, "unknown"}
  BY DEF PageStatusTrue
<1>1. req[p].from \in Nat /\ req[p].to \in Nat /\ req[p].to <= Len(log) /\ log \in Seq(Events)
  BY TaskKinds DEF PageTasks, Typed, TypeOK, DataOK, PageRead, PageWork
<1>2. req[p].was = KnownStatus(ProjectSnapshot(SubSeq(log, 1, req[p].to)))
  BY DEF Pages, PageInv
<1>3. ProjectSnapshot(SubSeq(log, req[p].from + 1, req[p].to))
        \in {"unknown", ProjectSnapshot(SubSeq(log, 1, req[p].to))}
  BY <1>1, SuffixSnapshot
<1> QED BY <1>2, <1>3 DEF ShownStatuses, Page, KnownStatus

(* The status a short page shows is what the session's boundary was when    *)
(* the page was read or is now, or unknown (readAgentSession), whatever the *)
(* size of a page and the cursor.                                           *)
THEOREM SessionPageStatusTrue == Spec => []PageStatusTrue
<1>1. Init => Typed /\ Pages
  <2>1. Init => Pages
    BY DEF Init, InitHistory, Idle, Pages, PageInv
  <2> QED BY <2>1, TypedInit
<1>2. Typed /\ Pages /\ [Next]_vars => Typed' /\ Pages'
  BY TypedStep, PagesStep
<1>3. Typed /\ Pages => PageStatusTrue
  BY PageTrueFromInv
<1> QED BY <1>1, <1>2, <1>3, PTL DEF Spec

-----------------------------------------------------------------------------
(* Records.                                                                  *)

BaseInv ==
    /\ \A c \in Children : RowInv(c, record[c], log, child, detached)
    /\ CalledInv(log, child)

(* What no step takes back: children started, detached, failed or settled,  *)
(* turns, and rows.                                                         *)
Advance ==
    /\ log' = log \/ Emits
    /\ \A c \in Children :
        /\ child[c].state # "none" => child'[c].state # "none" /\ (c \in detached' <=> c \in detached)
        /\ child'[c].turn \in Nat /\ (child[c].state # "none" => child'[c].turn >= child[c].turn)
        /\ child[c].state = "failed" => child'[c].state = "failed"
        /\ child[c].state \in {"completed", "failed"} => child'[c].state \in {"completed", "failed"}
        /\ child[c].state \notin {"none", "running"} =>
              child'[c].turn > child[c].turn \/ child'[c].state # "running"
        /\ record[c] # "none" => record'[c] # "none"

LEMMA FailureKept ==
    ASSUME Typed, Advance, NEW c \in Children, child[c].state # "none",
           NEW s, Believed(c, s, log, child, detached)
    PROVE  Believed(c, s, log', child', detached')
<1> SUFFICES ASSUME s = "failed" PROVE FailureKnown(c, log', child', detached')
  BY DEF Believed
<1>1. FailureKnown(c, log, child, detached)
  BY DEF Believed
<1>2. CASE c \notin detached
  BY <1>2 DEF Advance, FailureKnown
<1>3. CASE child[c].state = "failed"
  BY <1>3 DEF Advance, FailureKnown
<1>4. CASE \E i \in DOMAIN log : log[i].type = "reported" /\ log[i].child = c /\ log[i].failed
  BY <1>4, LogGrows DEF Advance, FailureKnown
<1> QED BY <1>1, <1>2, <1>3, <1>4 DEF FailureKnown

(* What a request has in hand stays good whatever another one does.         *)
LEMMA TaskKept ==
    ASSUME Typed, BaseInv, Advance, NEW o \in Tasks, PageRead(o, log),
           TaskInv(o, log, child, detached, record)
    PROVE  TaskInv(o, log', child', detached', record')
<1>1. \A c \in Children : record[c] # "none" =>
        child[c].state # "none" /\ child'[c].state # "none" /\ record'[c] # "none"
        /\ (c \in detached' <=> c \in detached)
  BY DEF BaseInv, RowInv, Advance
<1>2. \A c \in Children : child[c].turn \in Nat
  BY InspectedTyped
<1>3. ASSUME o.pc = "refresh"
      PROVE  \A c \in o.todo : record'[c] # "none" /\ Believed(c, o.seen[c], log', child', detached')
  <2>1. o.todo \subseteq Children BY <1>3, TaskKinds DEF RefreshTasks
  <2> QED BY <1>1, <1>3, <2>1, FailureKept DEF TaskInv
<1>4. o.pc \in {"events", "store"} => \A c \in Children : o.known[c] # "none" => record'[c] # "none"
  BY <1>1 DEF TaskInv
<1>5. ASSUME o.pc \in {"cascade", "stamp"}
      PROVE  \A c \in o.todo : record'[c] # "none" /\ (Cancels(o, log') \/ c \notin detached')
  <2>1. o.todo \subseteq Children /\ o.from \in Nat /\ o.to \in Nat /\ o.to <= Len(log)
    BY <1>5, TaskKinds DEF CascadeTasks, StampTasks, PageRead, PageWork
  <2>2. o.from + 1..o.to \subseteq DOMAIN log
    BY <2>1, LogGrows DEF Advance
  <2>3. Cancels(o, log) => Cancels(o, log')
    BY <2>2, LogGrows DEF Cancels, Advance
  <2> QED BY <1>1, <1>5, <2>1, <2>3 DEF TaskInv
<1>6. ASSUME o.pc \in StatusTasks
      PROVE  /\ record'[o.child] # "none" /\ o.status # "none"
             /\ Believed(o.child, o.status, log', child', detached')
  <2>1. o.child \in Children BY <1>6, TaskKinds DEF StatusTasks, StoreTasks, StampTasks, SendTasks, WriteTasks
  <2> QED BY <1>1, <1>6, <2>1, FailureKept DEF TaskInv
<1>7. o.pc = "project" => child'[o.child].state # "none"
  <2>1. o.pc = "project" => o.child \in Children BY TaskKinds DEF ProjectTasks
  <2> QED BY <2>1 DEF TaskInv, Advance
<1>8. o.pc = "retire" /\ o.close => record'[o.child] # "none"
  <2>1. o.pc = "retire" => o.child \in Children BY TaskKinds DEF RetireTasks
  <2> QED BY <2>1, <1>1 DEF TaskInv
<1>9. ASSUME o.pc = "interrupt" PROVE record'[o.child] # "none" /\ child'[o.child].turn >= o.turn
  <2>1. o.child \in Children /\ o.turn \in Nat BY <1>9, TaskKinds DEF InterruptTasks
  <2>2. record[o.child] # "none" /\ child[o.child].turn >= o.turn
    BY <1>9 DEF TaskInv
  <2>3. child'[o.child].turn \in Nat /\ child'[o.child].turn >= child[o.child].turn
    BY <1>1, <2>1, <2>2 DEF Advance
  <2> QED BY <1>1, <1>2, <2>1, <2>2, <2>3
<1>10. ASSUME o.pc = "write", o.status = "interrupted"
       PROVE  /\ child'[o.child].turn >= o.turn
              /\ child'[o.child].turn > o.turn \/ child'[o.child].state # "running"
  <2>1. o.child \in Children /\ o.turn \in Nat BY <1>10, TaskKinds DEF WriteTasks
  <2>2. /\ child[o.child].turn >= o.turn /\ record[o.child] # "none"
        /\ child[o.child].turn > o.turn \/ child[o.child].state # "running"
    BY <1>10 DEF TaskInv, StatusTasks
  <2>3. /\ child'[o.child].turn \in Nat /\ child'[o.child].turn >= child[o.child].turn
        /\ child[o.child].state \notin {"none", "running"} =>
              child'[o.child].turn > child[o.child].turn \/ child'[o.child].state # "running"
    BY <1>1, <2>1, <2>2 DEF Advance
  <2> QED BY <1>1, <1>2, <2>1, <2>2, <2>3
<1> QED BY <1>3, <1>4, <1>5, <1>6, <1>7, <1>8, <1>9, <1>10 DEF TaskInv

(* A request that changes no durable state advances it.                     *)
LEMMA StillAdvances ==
    ASSUME Typed, BaseInv, UNCHANGED <<log, child, detached, record>>
    PROVE  Advance /\ BaseInv'
<1>1. \A c \in Children : child[c].turn \in Nat
  BY InspectedTyped
<1> QED BY <1>1 DEF Advance, BaseInv

(* So does one that writes a status it may believe on a started child.      *)
LEMMA WriteAdvances ==
    ASSUME Typed, BaseInv, UNCHANGED <<log, child, detached>>,
           NEW c \in Children, child[c].state # "none", NEW s, s # "none",
           Believed(c, s, log, child, detached), record' = [record EXCEPT ![c] = s]
    PROVE  Advance /\ BaseInv'
<1>1. \A d \in Children : child[d].turn \in Nat
  BY InspectedTyped
<1>2. record \in [Children -> Rows]
  BY DEF Typed, TypeOK, DataOK
<1>3. \A d \in Children : record'[d] = IF d = c THEN s ELSE record[d]
  BY <1>2
<1>4. Advance
  BY <1>1, <1>3 DEF Advance
<1>5. \A d \in Children : RowInv(d, record'[d], log, child, detached)
  BY <1>3 DEF BaseInv, RowInv
<1> QED BY <1>4, <1>5 DEF BaseInv

(* Creating a row writes the given status or what the row says already.     *)
LEMMA CreateAdvances ==
    ASSUME Typed, BaseInv, UNCHANGED <<log, child, detached>>,
           NEW c \in Children, child[c].state # "none",
           NEW s \in {"starting", "running"}, Create(c, s)
    PROVE  Advance /\ BaseInv' /\ record'[c] # "none" /\ \A d \in Children : d # c => record'[d] = record[d]
<1>1. record \in [Children -> Rows]
  BY DEF Typed, TypeOK, DataOK
<1>2. PICK v \in {"starting", "running", record[c]} : record' = [record EXCEPT ![c] = v] /\ v # "none"
  BY DEF Create
<1>3. Believed(c, v, log, child, detached)
  BY <1>2 DEF BaseInv, RowInv, Believed
<1> QED BY <1>1, <1>2, <1>3, WriteAdvances

(* A step of a request that advances the state and leaves the request with  *)
(* good things in hand.                                                     *)
Gains(p) ==
    /\ Advance /\ BaseInv'
    /\ \E x : Go(p, x) /\ TaskInv(x, log', child', detached', record')

LEMMA GainsKeepsRecords ==
    ASSUME Typed, RecordInv, NEW p \in Requests, Gains(p)
    PROVE  RecordInv'
<1>1. PICK x : Go(p, x) /\ TaskInv(x, log', child', detached', record')
  BY DEF Gains
<1>2. req' = [req EXCEPT ![p] = x] /\ req \in [Requests -> Tasks]
  BY <1>1 DEF Go, Typed, TypeOK
<1>3. ASSUME NEW q \in Requests PROVE TaskInv(req'[q], log', child', detached', record')
  <2>1. CASE q = p BY <2>1, <1>1, <1>2
  <2>2. CASE q # p
    <3>1. req'[q] = req[q] /\ req[q] \in Tasks /\ PageRead(req[q], log)
          /\ TaskInv(req[q], log, child, detached, record) /\ BaseInv /\ Advance
      BY <2>2, <1>2 DEF Typed, RecordInv, BaseInv, Gains
    <3> QED BY <3>1, TaskKept
  <2> QED BY <2>1, <2>2
<1> QED BY <1>3 DEF RecordInv, BaseInv, Gains

LEMMA IdleGood ==
    ASSUME NEW l, NEW ch, NEW det, NEW rec
    PROVE  TaskInv(Idle, l, ch, det, rec)
BY DEF Idle, TaskInv, StatusTasks

LEMMA ToApprovalsGood ==
    ASSUME NEW from, NEW to, NEW l, NEW ch, NEW det, NEW rec
    PROVE  TaskInv(ToApprovals(from, to), l, ch, det, rec)
<1> DEFINE x == [pc |-> "approvals", from |-> from, to |-> to, at |-> from + 1]
<1>1. x.pc = "approvals" OBVIOUS
<1> HIDE DEF x
<1>2. TaskInv(x, l, ch, det, rec)
  BY <1>1 DEF TaskInv, StatusTasks
<1> QED BY <1>2, IdleGood DEF ToApprovals, x

LEMMA CascadeOnGood ==
    ASSUME NEW o, NEW todo, NEW ch, NEW rec,
           \A c \in todo : rec[c] # "none" /\ (Cancels(o, log) \/ c \notin detached)
    PROVE  TaskInv(CascadeOn(o, todo), log, ch, detached, rec)
<1> DEFINE x == [pc |-> "cascade", from |-> o.from, to |-> o.to, todo |-> todo]
<1>1. x.pc = "cascade" /\ x.todo = todo /\ (Cancels(x, log) <=> Cancels(o, log))
  BY DEF Cancels
<1> HIDE DEF x
<1>2. TaskInv(x, log, ch, detached, rec)
  BY <1>1 DEF TaskInv, StatusTasks
<1> QED BY <1>2, ToApprovalsGood DEF CascadeOn, x

LEMMA GoOnGood ==
    ASSUME NEW o, NEW at, NEW known, NEW ch, NEW rec,
           \A c \in Children : known[c] # "none" => rec[c] # "none"
    PROVE  TaskInv(GoOn(o, at, known), log, ch, detached, rec)
<1> DEFINE x == [pc |-> "events", from |-> o.from, to |-> o.to, at |-> at, known |-> known]
<1>1. TaskInv(x, log, ch, detached, rec)
  <2>1. x.pc = "events" /\ x.known = known OBVIOUS
  <2> HIDE DEF x
  <2> QED BY <2>1 DEF TaskInv, StatusTasks
<1>2. ASSUME NEW c \in Cascade(o, known) PROVE rec[c] # "none" /\ (Cancels(o, log) \/ c \notin detached)
  <2>1. c \in Children /\ known[c] # "none"
    BY <1>2 DEF Cascade, Active
  <2> QED BY <1>2, <2>1 DEF Cascade, PageHas, Cancels
<1> QED BY <1>1, <1>2, CascadeOnGood DEF GoOn

(* Refreshes.                                                               *)
LEMMA RefreshingGood ==
    ASSUME NEW cs \in SUBSET Children, NEW poll \in BOOLEAN, \A c \in cs : record[c] # "none"
    PROVE  TaskInv(Refreshing(cs, poll), log, child, detached, record)
<1>1. Refreshing(cs, poll).pc = "refresh" /\ Refreshing(cs, poll).todo = cs
      /\ \A c \in Children : Refreshing(cs, poll).seen[c] = "none"
  BY DEF Refreshing
<1> QED BY <1>1 DEF TaskInv, StatusTasks, Believed

LEMMA InspectChildrenGains ==
    ASSUME Typed, RecordInv, NEW p \in Requests, NEW cs \in SUBSET Children, InspectChildren(p, cs)
    PROVE  Gains(p)
<1>1. UNCHANGED <<log, child, detached, record>> /\ Go(p, Refreshing(cs, FALSE)) /\ \A c \in cs : record[c] # "none"
  BY DEF InspectChildren, Open, runtime, records
<1>2. TaskInv(Refreshing(cs, FALSE), log', child', detached', record')
  BY <1>1, RefreshingGood
<1> QED BY <1>1, <1>2, StillAdvances DEF Gains, RecordInv, BaseInv

LEMMA PollGains ==
    ASSUME Typed, RecordInv, NEW p \in Requests, PollChildren(p)
    PROVE  Gains(p)
<1> DEFINE cs == {c \in Children : record[c] # "none"}
<1>1. UNCHANGED <<log, child, detached, record>> /\ Go(p, Refreshing(cs, TRUE))
  BY DEF PollChildren, Poll, runtime, records
<1>2. cs \in SUBSET Children /\ \A c \in cs : record[c] # "none"
  OBVIOUS
<1> HIDE DEF cs
<1>3. TaskInv(Refreshing(cs, TRUE), log', child', detached', record')
  BY <1>1, <1>2, RefreshingGood
<1> QED BY <1>1, <1>3, StillAdvances DEF Gains, RecordInv, BaseInv

LEMMA InspectedGood ==
    ASSUME Typed, RecordInv, NEW c \in Children, record[c] # "none" \/ child[c].state # "none"
    PROVE  /\ child[c].state # "none" /\ Inspected(c) # "none"
           /\ Believed(c, Inspected(c), log, child, detached)
BY DEF RecordInv, RowInv, Inspected, Believed, FailureKnown

(* What a refresh still has to do stays good when a child is taken off it.   *)
LEMMA RefreshedGood ==
    ASSUME Typed, NEW p \in Requests, NEW c \in Children, NEW status,
           req[p] \in RefreshTasks, Refreshed(p, c, status),
           \A d \in req[p].todo : record'[d] # "none" /\ Believed(d, req[p].seen[d], log', child', detached')
    PROVE  \/ Go(p, Idle)
           \/ \E y : Go(p, y) /\ TaskInv(y, log', child', detached', record')
<1>1. req[p].todo \subseteq Children
  BY DEF RefreshTasks
<1>2. CASE Go(p, Idle)
  BY <1>2
<1>3. ASSUME NEW y \in RefreshTasks, Go(p, y), y.todo = req[p].todo \ {c},
             \A d \in Children : y.seen[d] = IF d = c THEN "none" ELSE req[p].seen[d]
      PROVE  TaskInv(y, log', child', detached', record')
  <2>1. y.pc = "refresh"
    BY DEF RefreshTasks
  <2> QED BY <1>1, <1>3, <2>1 DEF TaskInv, StatusTasks
<1> QED BY <1>2, <1>3, RefreshedMoves

LEMMA RefreshInspectGains ==
    ASSUME Typed, RecordInv, NEW p \in Requests, NEW c \in Children, RefreshInspect(p, c)
    PROVE  Gains(p)
<1> DEFINE o == req[p]
           x == [o EXCEPT !.seen[c] = Inspected(c)]
<1>1. /\ o.pc = "refresh" /\ c \in o.todo
      /\ UNCHANGED <<log, child, detached, record>>
      /\ Go(p, x) \/ Refreshed(p, c, record[c])
  BY DEF RefreshInspect, runtime
<1>2. o \in RefreshTasks /\ TaskInv(o, log, child, detached, record)
  BY <1>1, TaskKinds DEF Typed, TypeOK, RecordInv
<1> HIDE DEF o
<1>3. \A d \in o.todo : record[d] # "none" /\ Believed(d, o.seen[d], log, child, detached)
  BY <1>1, <1>2 DEF TaskInv
<1>4. Believed(c, Inspected(c), log, child, detached)
  BY <1>1, <1>3, InspectedGood
<1>5. x.pc = "refresh" /\ x.todo = o.todo /\ \A d \in Children : x.seen[d] = IF d = c THEN Inspected(c) ELSE o.seen[d]
  BY <1>1, <1>2 DEF RefreshTasks
<1>6. o.todo \subseteq Children
  BY <1>2 DEF RefreshTasks
<1> HIDE DEF x
<1>7. TaskInv(x, log, child, detached, record)
  BY <1>3, <1>4, <1>5, <1>6 DEF TaskInv, StatusTasks
<1>8. Advance /\ BaseInv'
  BY <1>1, StillAdvances DEF RecordInv, BaseInv
<1>9. CASE Refreshed(p, c, record[c])
  <2>1. Go(p, Idle) \/ \E y : Go(p, y) /\ TaskInv(y, log', child', detached', record')
    BY <1>1, <1>2, <1>3, <1>9, RefreshedGood DEF o
  <2> QED BY <1>8, <2>1, IdleGood DEF Gains
<1>10. CASE Go(p, x)
  BY <1>1, <1>7, <1>8, <1>10 DEF Gains
<1> QED BY <1>1, <1>9, <1>10

LEMMA RefreshWriteGains ==
    ASSUME Typed, RecordInv, NEW p \in Requests, NEW c \in Children, RefreshWrite(p, c)
    PROVE  Gains(p)
<1> DEFINE o == req[p]
<1>1. /\ o.pc = "refresh" /\ c \in o.todo /\ o.seen[c] # "none"
      /\ record' = [record EXCEPT ![c] = o.seen[c]]
      /\ UNCHANGED <<log, child, detached>> /\ Refreshed(p, c, o.seen[c])
  BY DEF RefreshWrite, runtime, UpdateOwned
<1>2. o \in RefreshTasks /\ TaskInv(o, log, child, detached, record)
  BY <1>1, TaskKinds DEF Typed, TypeOK, RecordInv
<1> HIDE DEF o
<1>3. \A d \in o.todo : record[d] # "none" /\ Believed(d, o.seen[d], log, child, detached)
  BY <1>1, <1>2 DEF TaskInv
<1>4. child[c].state # "none"
  BY <1>1, <1>3, InspectedGood
<1>5. Advance /\ BaseInv'
  BY <1>1, <1>3, <1>4, WriteAdvances DEF RecordInv, BaseInv
<1>6. o.todo \subseteq Children
  BY <1>2 DEF RefreshTasks
<1>7. \A d \in o.todo : record'[d] # "none" /\ Believed(d, o.seen[d], log', child', detached')
  BY <1>1, <1>3, <1>5, <1>6 DEF Advance
<1>8. Go(p, Idle) \/ \E y : Go(p, y) /\ TaskInv(y, log', child', detached', record')
  BY <1>1, <1>2, <1>7, RefreshedGood DEF o
<1> QED BY <1>5, <1>8, IdleGood DEF Gains

(* Pages of events.                                                         *)
LEMMA SyncStartGains ==
    ASSUME Typed, RecordInv, NEW p \in Requests, SyncStart(p)
    PROVE  Gains(p)
<1>1. UNCHANGED <<log, child, detached, record>> /\ Go(p, GoOn(req[p], req[p].from + 1, record))
  BY DEF SyncStart, runtime, records
<1>2. TaskInv(GoOn(req[p], req[p].from + 1, record), log, child, detached, record)
  BY GoOnGood
<1> QED BY <1>1, <1>2, StillAdvances DEF Gains, RecordInv, BaseInv

LEMMA SyncCalledGains ==
    ASSUME Typed, RecordInv, NEW p \in Requests, SyncCalled(p)
    PROVE  Gains(p)
<1> DEFINE o == req[p]
           i == NextChildEvent(o.at, o.to)
           c == log[i].child
           known == [o.known EXCEPT ![c] = record'[c]]
<1>1. /\ o.pc = "events" /\ i # 0 /\ log[i].type = "called" /\ Create(c, "running")
      /\ Go(p, GoOn(o, i + 1, known)) /\ UNCHANGED <<log, child, detached>>
  BY DEF SyncCalled, runtime
<1>2. o \in EventTasks /\ i \in DOMAIN log /\ log[i] \in Events /\ TaskInv(o, log, child, detached, record)
  BY <1>1, NextChildTyped DEF RecordInv
<1>3. c \in Children /\ child[c].state # "none"
  BY <1>1, <1>2, EventKinds DEF RecordInv, CalledInv
<1> HIDE DEF i, o, c
<1>4. Advance /\ BaseInv' /\ record'[c] # "none" /\ \A d \in Children : d # c => record'[d] = record[d]
  BY <1>1, <1>3, CreateAdvances DEF RecordInv, BaseInv
<1>5. \A d \in Children : known[d] # "none" => record'[d] # "none"
  BY <1>1, <1>2, <1>3, <1>4 DEF TaskInv, EventTasks
<1> HIDE DEF known
<1>6. TaskInv(GoOn(o, i + 1, known), log, child, detached, record')
  BY <1>5, GoOnGood
<1> QED BY <1>1, <1>4, <1>6 DEF Gains

LEMMA SyncReportedGains ==
    ASSUME Typed, RecordInv, NEW p \in Requests, SyncReported(p)
    PROVE  Gains(p)
<1> DEFINE o == req[p]
           i == NextChildEvent(o.at, o.to)
           c == log[i].child
           See(status) == [pc |-> "store", from |-> o.from, to |-> o.to, at |-> i + 1,
                           known |-> o.known, child |-> c, status |-> status]
<1>1. /\ o.pc = "events" /\ i # 0 /\ log[i].type = "reported" /\ UNCHANGED <<log, child, detached, record>>
      /\ \/ Go(p, GoOn(o, i + 1, o.known))
         \/ \E status \in {"failed", Inspected(c), "waiting", "completed"} :
              /\ Go(p, See(status)) /\ o.known[c] # "none"
              /\ status = "failed" => log[i].failed \/ status = Inspected(c)
  BY DEF SyncReported, runtime, records
<1>2. o \in EventTasks /\ i \in DOMAIN log /\ log[i] \in Events /\ TaskInv(o, log, child, detached, record)
  BY <1>1, NextChildTyped DEF RecordInv
<1>3. c \in Children
  BY <1>1, <1>2, EventKinds
<1>4. \A d \in Children : o.known[d] # "none" => record[d] # "none"
  BY <1>1, <1>2 DEF TaskInv
<1>5. TaskInv(GoOn(o, i + 1, o.known), log, child, detached, record)
  BY <1>4, GoOnGood
<1>6. ASSUME NEW status \in {"failed", Inspected(c), "waiting", "completed"}, o.known[c] # "none",
             status = "failed" => log[i].failed \/ status = Inspected(c)
      PROVE  TaskInv(See(status), log, child, detached, record)
  <2>1. record[c] # "none" /\ Inspected(c) # "none" /\ Believed(c, Inspected(c), log, child, detached)
    BY <1>3, <1>4, <1>6, InspectedGood
  <2>2. status # "none" /\ Believed(c, status, log, child, detached)
    BY <2>1, <1>1, <1>2, <1>6 DEF Believed, FailureKnown
  <2>3. See(status).pc = "store" /\ See(status).child = c /\ See(status).status = status
        /\ See(status).known = o.known
    OBVIOUS
  <2> HIDE DEF See, o, c, i
  <2> QED BY <2>1, <2>2, <2>3, <1>4 DEF TaskInv, StatusTasks
<1>7. Advance /\ BaseInv'
  BY <1>1, StillAdvances DEF RecordInv, BaseInv
<1> HIDE DEF See, o, c, i
<1> QED BY <1>1, <1>5, <1>6, <1>7 DEF Gains

LEMMA SyncStoreGains ==
    ASSUME Typed, RecordInv, NEW p \in Requests, SyncStore(p)
    PROVE  Gains(p)
<1> DEFINE o == req[p]
<1>1. /\ o.pc \in {"store", "stamp"} /\ record' = [record EXCEPT ![o.child] = o.status]
      /\ UNCHANGED <<log, child, detached>>
      /\ Go(p, IF o.pc = "store" THEN GoOn(o, o.at, [o.known EXCEPT ![o.child] = o.status])
               ELSE CascadeOn(o, o.todo))
  BY DEF SyncStore, runtime, UpdateOwned
<1>2. /\ o.pc = "store" => o \in StoreTasks
      /\ o.pc = "stamp" => o \in StampTasks
      /\ TaskInv(o, log, child, detached, record)
  BY TaskKinds DEF Typed, TypeOK, RecordInv
<1> HIDE DEF o
<1>3. /\ o.child \in Children /\ record[o.child] # "none" /\ o.status # "none"
      /\ Believed(o.child, o.status, log, child, detached)
  BY <1>1, <1>2 DEF TaskInv, StatusTasks, StoreTasks, StampTasks
<1>4. child[o.child].state # "none"
  BY <1>3, InspectedGood
<1>5. Advance /\ BaseInv'
  BY <1>1, <1>3, <1>4, WriteAdvances DEF RecordInv, BaseInv
<1>6. CASE o.pc = "store"
  <2> DEFINE known == [o.known EXCEPT ![o.child] = o.status]
  <2>1. \A d \in Children : known[d] = IF d = o.child THEN o.status ELSE o.known[d]
    BY <1>2, <1>6 DEF StoreTasks
  <2>2. \A d \in Children : record[d] # "none" => record'[d] # "none"
    BY <1>5 DEF Advance
  <2>3. \A d \in Children : known[d] # "none" => record'[d] # "none"
    BY <2>1, <2>2, <1>2, <1>3, <1>6 DEF TaskInv
  <2> HIDE DEF known
  <2>4. TaskInv(GoOn(o, o.at, known), log, child, detached, record')
    BY <2>3, GoOnGood
  <2> QED BY <2>4, <1>1, <1>5, <1>6 DEF Gains, known
<1>7. CASE o.pc = "stamp"
  <2>1. \A d \in o.todo : record'[d] # "none" /\ (Cancels(o, log) \/ d \notin detached)
    BY <1>2, <1>5, <1>7 DEF TaskInv, StampTasks, Advance
  <2>2. TaskInv(CascadeOn(o, o.todo), log, child, detached, record')
    BY <2>1, CascadeOnGood
  <2> QED BY <2>2, <1>1, <1>5, <1>7 DEF Gains
<1> QED BY <1>1, <1>6, <1>7

LEMMA CascadeStepGains ==
    ASSUME Typed, RecordInv, NEW p \in Requests, NEW c \in Children, CascadeStep(p, c)
    PROVE  Gains(p)
<1> DEFINE o == req[p]
           Stamp(status) == [pc |-> "stamp", from |-> o.from, to |-> o.to,
                             todo |-> o.todo \ {c}, child |-> c, status |-> status]
<1>1. /\ o.pc = "cascade" /\ c \in o.todo /\ UNCHANGED <<log, child, detached, record>>
      /\ \/ \E status \in {"interrupted", Inspected(c), "failed"} :
              Go(p, Stamp(status)) /\ (status = "failed" => status = Inspected(c) \/ ~ Cancels(o, log))
         \/ Go(p, CascadeOn(o, o.todo \ {c}))
  BY DEF CascadeStep, runtime, records, PageHas, Cancels
<1>2. TaskInv(o, log, child, detached, record)
  BY DEF RecordInv
<1> HIDE DEF o
<1>3. \A d \in o.todo : record[d] # "none" /\ (Cancels(o, log) \/ d \notin detached)
  BY <1>1, <1>2 DEF TaskInv
<1>4. TaskInv(CascadeOn(o, o.todo \ {c}), log, child, detached, record)
  BY <1>3, CascadeOnGood
<1>5. ASSUME NEW status \in {"interrupted", Inspected(c), "failed"},
             status = "failed" => status = Inspected(c) \/ ~ Cancels(o, log)
      PROVE  TaskInv(Stamp(status), log, child, detached, record)
  <2>1. Inspected(c) # "none" /\ Believed(c, Inspected(c), log, child, detached)
    BY <1>1, <1>3, InspectedGood
  <2>2. status # "none" /\ Believed(c, status, log, child, detached)
    BY <2>1, <1>1, <1>3, <1>5 DEF Believed, FailureKnown
  <2>3. /\ Stamp(status).pc = "stamp" /\ Stamp(status).child = c /\ Stamp(status).status = status
        /\ Stamp(status).todo = o.todo \ {c} /\ (Cancels(Stamp(status), log) <=> Cancels(o, log))
    BY DEF Cancels
  <2> HIDE DEF Stamp
  <2> QED BY <2>2, <2>3, <1>1, <1>3 DEF TaskInv, StatusTasks
<1>6. Advance /\ BaseInv'
  BY <1>1, StillAdvances DEF RecordInv, BaseInv
<1> HIDE DEF Stamp
<1> QED BY <1>1, <1>4, <1>5, <1>6 DEF Gains

(* As long as the rows are left alone, an advance keeps what they say.      *)
LEMMA AdvanceKeepsBase ==
    ASSUME Typed, BaseInv, Advance, record' = record
    PROVE  BaseInv'
<1>1. ASSUME NEW c \in Children PROVE RowInv(c, record'[c], log', child', detached')
  <2>1. RowInv(c, record[c], log, child, detached)
    BY DEF BaseInv
  <2>2. CASE record[c] = "none"
    BY <2>2 DEF RowInv, Believed
  <2>3. CASE record[c] # "none"
    BY <2>1, <2>3, FailureKept DEF RowInv, Advance
  <2> QED BY <2>2, <2>3
<1>2. ASSUME NEW i \in DOMAIN log', log'[i].type = "called" PROVE child'[log'[i].child].state # "none"
  <2>1. CASE i \in DOMAIN log
    <3>1. log'[i] = log[i] /\ log[i] \in Events
      BY <2>1, LogGrows DEF Advance
    <3>2. log[i].child \in Children /\ child[log[i].child].state # "none"
      BY <1>2, <2>1, <3>1, EventKinds DEF BaseInv, CalledInv
    <3> QED BY <3>1, <3>2 DEF Advance
  <2>2. CASE i \notin DOMAIN log
    <3>1. PICK e \in Events : log' = Append(log, e) /\ Legal(e)
      BY <1>2, <2>2 DEF Advance, Emits
    <3>2. log'[i] = e
      BY <1>2, <2>2, <3>1 DEF Typed, TypeOK, DataOK
    <3> QED BY <1>2, <3>1, <3>2 DEF Legal
  <2> QED BY <2>1, <2>2
<1> QED BY <1>1, <1>2 DEF BaseInv, CalledInv

LEMMA StartAdvances ==
    ASSUME Typed, NEW c \in Children, StartChild(c), record' = record, log' = log \/ Emits
    PROVE  Advance
<1>1. \A d \in Children : child[d].turn \in Nat
  BY InspectedTyped
<1>2. child[c].state = "none" /\ child' = [child EXCEPT ![c] = [state |-> "running", turn |-> 1]]
      /\ child \in [Children -> Sessions] /\ \A d \in Children : d # c => (d \in detached' <=> d \in detached)
  BY DEF StartChild, Typed, TypeOK, DataOK
<1>3. \A d \in Children : child'[d] = IF d = c THEN [state |-> "running", turn |-> 1] ELSE child[d]
  BY <1>2
<1> QED BY <1>1, <1>2, <1>3 DEF Advance

LEMMA ResetAdvances ==
    ASSUME Typed, NEW c \in Children, ResetChild(c), UNCHANGED <<log, detached, record>>
    PROVE  Advance
<1>1. \A d \in Children : child[d].turn \in Nat /\ child[d] \in Sessions
  BY InspectedTyped DEF Typed, TypeOK, DataOK
<1>2. child' = [child EXCEPT ![c].state =
                  IF child[c].state \in {"completed", "failed"} THEN child[c].state ELSE "completed"]
      /\ child \in [Children -> Sessions]
  BY DEF ResetChild, Typed, TypeOK, DataOK
<1>3. \A d \in Children : d # c => child'[d] = child[d]
  BY <1>2
<1>4. child'[c].turn = child[c].turn
      /\ child'[c].state = IF child[c].state \in {"completed", "failed"} THEN child[c].state ELSE "completed"
  BY <1>1, <1>2 DEF Sessions
<1> QED BY <1>1, <1>3, <1>4 DEF Advance

(* Spawn and retirement.                                                    *)
LEMMA SpawnGains ==
    ASSUME Typed, RecordInv, NEW p \in Requests, Spawn(p) \/ SpawnRefused(p)
    PROVE  Gains(p)
<1>1. UNCHANGED <<log, child, detached, record>> /\ (Go(p, [pc |-> "spawn"]) \/ Go(p, Idle))
  BY DEF Spawn, SpawnRefused, Open, runtime, records
<1>2. TaskInv([pc |-> "spawn"], log, child, detached, record)
  BY DEF TaskInv, StatusTasks
<1>3. Advance /\ BaseInv'
  BY <1>1, StillAdvances DEF RecordInv, BaseInv
<1> QED BY <1>1, <1>2, <1>3, IdleGood DEF Gains

LEMMA SpawnChildGains ==
    ASSUME Typed, RecordInv, NEW p \in Requests, NEW c \in Children, SpawnChild(p, c)
    PROVE  Gains(p)
<1> DEFINE x == [pc |-> "project", child |-> c]
<1>1. StartChild(c) /\ log' = log /\ record' = record /\ Go(p, x)
  BY DEF SpawnChild
<1>2. Advance
  BY <1>1, StartAdvances
<1>3. BaseInv'
  BY <1>1, <1>2, AdvanceKeepsBase DEF RecordInv, BaseInv
<1>4. child'[c].state = "running"
  BY <1>1, StartTyped
<1>5. x.pc = "project" /\ x.child = c
  OBVIOUS
<1> HIDE DEF x
<1>6. TaskInv(x, log', child', detached', record')
  BY <1>4, <1>5 DEF TaskInv, StatusTasks
<1> QED BY <1>1, <1>2, <1>3, <1>6 DEF Gains

LEMMA SpawnUnansweredGains ==
    ASSUME Typed, RecordInv, NEW p \in Requests, NEW c \in Children, SpawnUnanswered(p, c)
    PROVE  Gains(p)
<1>1. StartChild(c) /\ log' = log /\ record' = record /\ Go(p, Idle)
  BY DEF SpawnUnanswered
<1>2. Advance
  BY <1>1, StartAdvances
<1>3. BaseInv'
  BY <1>1, <1>2, AdvanceKeepsBase DEF RecordInv, BaseInv
<1> QED BY <1>1, <1>2, <1>3, IdleGood DEF Gains

LEMMA SpawnProjectGains ==
    ASSUME Typed, RecordInv, NEW p \in Requests, SpawnProject(p)
    PROVE  Gains(p)
<1> DEFINE c == req[p].child
           x == [pc |-> "retire", child |-> c, left |-> Attempts, close |-> FALSE]
<1>1. /\ req[p].pc = "project" /\ UNCHANGED <<log, child, detached>>
      /\ Create(c, "starting") \/ record' = record
      /\ Go(p, Idle) \/ Go(p, x)
  BY DEF SpawnProject, runtime
<1>2. c \in Children /\ child[c].state # "none"
  BY <1>1, TaskKinds DEF Typed, TypeOK, ProjectTasks, RecordInv, TaskInv
<1>3. x.pc = "retire" /\ x.close = FALSE
  OBVIOUS
<1> HIDE DEF c, x
<1>4. TaskInv(x, log', child', detached', record') /\ TaskInv(Idle, log', child', detached', record')
  BY <1>3, IdleGood DEF TaskInv, StatusTasks
<1>5. Advance /\ BaseInv'
  <2>1. CASE Create(c, "starting")
    BY <2>1, <1>1, <1>2, CreateAdvances DEF RecordInv, BaseInv
  <2>2. CASE record' = record
    BY <2>2, <1>1, StillAdvances DEF RecordInv, BaseInv
  <2> QED BY <2>1, <2>2, <1>1
<1> QED BY <1>1, <1>4, <1>5 DEF Gains

LEMMA CloseGains ==
    ASSUME Typed, RecordInv, NEW p \in Requests, NEW c \in Children, Close(p, c)
    PROVE  Gains(p)
<1> DEFINE x == [pc |-> "retire", child |-> c, left |-> Attempts, close |-> TRUE]
<1>1. record[c] # "none" /\ UNCHANGED <<log, child, detached, record>> /\ Go(p, x)
  BY DEF Close, Open, runtime, records
<1>2. x.pc = "retire" /\ x.child = c
  OBVIOUS
<1> HIDE DEF x
<1>3. TaskInv(x, log, child, detached, record)
  BY <1>1, <1>2 DEF TaskInv, StatusTasks
<1> QED BY <1>1, <1>3, StillAdvances DEF Gains, RecordInv, BaseInv

LEMMA ToWriteGood ==
    ASSUME NEW c, NEW s, NEW t, NEW l, NEW ch, NEW det, NEW rec,
           rec[c] # "none", s # "none", Believed(c, s, l, ch, det),
           s = "interrupted" => ch[c].turn >= t /\ (ch[c].turn > t \/ ch[c].state # "running")
    PROVE  TaskInv(ToWrite(c, s, t), l, ch, det, rec)
<1> DEFINE x == [pc |-> "write", child |-> c, status |-> s, turn |-> t]
<1>1. x.pc = "write" /\ x.child = c /\ x.status = s /\ x.turn = t
  OBVIOUS
<1> HIDE DEF x
<1>2. TaskInv(x, l, ch, det, rec)
  BY <1>1 DEF TaskInv, StatusTasks
<1> QED BY <1>2 DEF ToWrite, x

LEMMA RetireGains ==
    ASSUME Typed, RecordInv, NEW p \in Requests, Retire(p)
    PROVE  Gains(p)
<1> DEFINE o == req[p]
           c == o.child
           x == [o EXCEPT !.left = @ - 1]
<1>1. /\ o.pc = "retire" /\ UNCHANGED <<log, detached, record>> /\ (ResetChild(c) \/ child' = child)
      /\ \/ Go(p, Idle) \/ (o.close /\ Go(p, ToWrite(c, "closed", 0)))
         \/ Go(p, x)
  BY DEF Retire
<1>2. o \in RetireTasks /\ (o.close => record[c] # "none")
  BY <1>1, TaskKinds DEF Typed, TypeOK, RecordInv, TaskInv
<1>3. c \in Children /\ x.pc = "retire" /\ x.child = c /\ x.close = o.close
  BY <1>2, <1>1 DEF RetireTasks
<1> HIDE DEF o, x, c
<1>4. TaskInv(x, log', child', detached', record')
  BY <1>1, <1>2, <1>3 DEF TaskInv, StatusTasks
<1>5. o.close => TaskInv(ToWrite(c, "closed", 0), log', child', detached', record')
  BY <1>1, <1>2, ToWriteGood DEF Believed
<1>6. Advance
  <2>1. CASE ResetChild(c)
    BY <2>1, <1>1, <1>3, ResetAdvances
  <2>2. CASE child' = child
    BY <2>2, <1>1, StillAdvances DEF RecordInv, BaseInv
  <2> QED BY <2>1, <2>2, <1>1
<1>7. BaseInv'
  BY <1>1, <1>6, AdvanceKeepsBase DEF RecordInv, BaseInv
<1> QED BY <1>1, <1>4, <1>5, <1>6, <1>7, IdleGood DEF Gains

(* Messages and cancellations.                                              *)
LEMMA SendTaskGood ==
    ASSUME NEW x, x.pc \in {"recheck", "reconcile", "send", "enqueue"},
           NEW l, NEW ch, NEW det, NEW rec,
           rec[x.child] # "none", x.status # "none", Believed(x.child, x.status, l, ch, det)
    PROVE  TaskInv(x, l, ch, det, rec)
BY DEF TaskInv, StatusTasks

LEMMA SendGains ==
    ASSUME Typed, RecordInv, NEW p \in Requests, NEW c \in Children, NEW resume \in BOOLEAN, Send(p, c, resume)
    PROVE  Gains(p)
<1> DEFINE x == [pc |-> IF resume /\ record[c] \in {"completed", "interrupted"} THEN "recheck" ELSE "send",
                 child |-> c, resume |-> resume, status |-> record[c]]
<1>1. record[c] # "none" /\ UNCHANGED <<log, child, detached, record>> /\ Go(p, x)
  BY DEF Send, Open, runtime, records
<1>2. x.pc \in {"recheck", "reconcile", "send", "enqueue"} /\ x.child = c /\ x.status = record[c]
  OBVIOUS
<1>3. Believed(c, record[c], log, child, detached)
  BY DEF RecordInv, RowInv
<1> HIDE DEF x
<1>4. TaskInv(x, log, child, detached, record)
  BY <1>1, <1>2, <1>3, SendTaskGood
<1> QED BY <1>1, <1>4, StillAdvances DEF Gains, RecordInv, BaseInv

LEMMA SendTaskFacts ==
    ASSUME Typed, RecordInv, NEW p \in Requests, req[p].pc \in {"recheck", "reconcile", "send", "enqueue"}
    PROVE  /\ req[p] \in SendTasks /\ req[p].child \in Children
           /\ record[req[p].child] # "none" /\ req[p].status # "none"
           /\ Believed(req[p].child, req[p].status, log, child, detached)
           /\ child[req[p].child].state # "none"
<1>1. req[p] \in SendTasks /\ req[p].child \in Children
  BY TaskKinds DEF Typed, TypeOK, SendTasks
<1>2. /\ record[req[p].child] # "none" /\ req[p].status # "none"
      /\ Believed(req[p].child, req[p].status, log, child, detached)
  BY DEF RecordInv, TaskInv, StatusTasks
<1> QED BY <1>1, <1>2, InspectedGood

LEMMA RecheckGains ==
    ASSUME Typed, RecordInv, NEW p \in Requests, Recheck(p)
    PROVE  Gains(p)
<1> DEFINE o == req[p]
           x == [o EXCEPT !.pc = "reconcile", !.status = Inspected(o.child)]
           y == [o EXCEPT !.pc = "send"]
<1>1. UNCHANGED <<log, child, detached, record>> /\ (Go(p, x) \/ Go(p, y))
  BY DEF Recheck, runtime, records
<1>2. /\ o \in SendTasks /\ o.child \in Children
      /\ record[o.child] # "none" /\ o.status # "none"
      /\ Believed(o.child, o.status, log, child, detached)
  BY SendTaskFacts DEF Recheck
<1> HIDE DEF o
<1>3. Inspected(o.child) # "none" /\ Believed(o.child, Inspected(o.child), log, child, detached)
  BY <1>2, InspectedGood
<1>4. /\ x.pc = "reconcile" /\ x.child = o.child /\ x.status = Inspected(o.child)
      /\ y.pc = "send" /\ y.child = o.child /\ y.status = o.status
  BY <1>2 DEF SendTasks
<1> HIDE DEF x, y
<1>5. TaskInv(x, log, child, detached, record) /\ TaskInv(y, log, child, detached, record)
  BY <1>2, <1>3, <1>4, SendTaskGood
<1>6. Advance /\ BaseInv'
  BY <1>1, StillAdvances DEF RecordInv, BaseInv
<1> QED BY <1>1, <1>5, <1>6 DEF Gains

LEMMA ReconcileGains ==
    ASSUME Typed, RecordInv, NEW p \in Requests, Reconcile(p)
    PROVE  Gains(p)
<1> DEFINE o == req[p]
           y == [o EXCEPT !.pc = "send"]
<1>1. /\ record' = [record EXCEPT ![o.child] = o.status]
      /\ UNCHANGED <<log, child, detached>> /\ Go(p, y)
  BY DEF Reconcile, runtime, UpdateOwned
<1>2. /\ o \in SendTasks /\ o.child \in Children /\ child[o.child].state # "none"
      /\ record[o.child] # "none" /\ o.status # "none"
      /\ Believed(o.child, o.status, log, child, detached)
  BY SendTaskFacts DEF Reconcile
<1> HIDE DEF o
<1>3. Advance /\ BaseInv'
  BY <1>1, <1>2, WriteAdvances DEF RecordInv, BaseInv
<1>4. y.pc = "send" /\ y.child = o.child /\ y.status = o.status
  BY <1>2 DEF SendTasks
<1> HIDE DEF y
<1>5. record'[o.child] # "none"
  BY <1>2, <1>3 DEF Advance
<1>6. TaskInv(y, log, child, detached, record')
  BY <1>2, <1>4, <1>5, SendTaskGood
<1> QED BY <1>1, <1>3, <1>6 DEF Gains

LEMMA SteerInspectGains ==
    ASSUME Typed, RecordInv, NEW p \in Requests, SteerInspect(p)
    PROVE  Gains(p)
<1> DEFINE o == req[p]
           y == [o EXCEPT !.pc = "enqueue"]
<1>1. UNCHANGED <<log, child, detached, record>> /\ (Go(p, y) \/ Go(p, Idle))
  BY DEF SteerInspect, runtime, records
<1>2. /\ o \in SendTasks /\ record[o.child] # "none" /\ o.status # "none"
      /\ Believed(o.child, o.status, log, child, detached)
  BY SendTaskFacts DEF SteerInspect
<1> HIDE DEF o
<1>3. y.pc = "enqueue" /\ y.child = o.child /\ y.status = o.status
  BY <1>2 DEF SendTasks
<1> HIDE DEF y
<1>4. TaskInv(y, log, child, detached, record)
  BY <1>2, <1>3, SendTaskGood
<1>5. Advance /\ BaseInv'
  BY <1>1, StillAdvances DEF RecordInv, BaseInv
<1> QED BY <1>1, <1>4, <1>5, IdleGood DEF Gains

LEMMA EnqueueGains ==
    ASSUME Typed, RecordInv, NEW p \in Requests, Enqueue(p)
    PROVE  Gains(p)
<1> DEFINE o == req[p]
<1>1. UNCHANGED <<log, child, detached, record>> /\ (Go(p, ToWrite(o.child, "running", 0)) \/ Go(p, Idle))
  BY DEF Enqueue, records
<1>2. record[o.child] # "none"
  BY SendTaskFacts DEF Enqueue
<1> HIDE DEF o
<1>3. TaskInv(ToWrite(o.child, "running", 0), log, child, detached, record)
  BY <1>2, ToWriteGood DEF Believed
<1>4. Advance /\ BaseInv'
  BY <1>1, StillAdvances DEF RecordInv, BaseInv
<1> QED BY <1>1, <1>3, <1>4, IdleGood DEF Gains

LEMMA InterruptGains ==
    ASSUME Typed, RecordInv, NEW p \in Requests, NEW c \in Children, Interrupt(p, c)
    PROVE  Gains(p)
<1> DEFINE x == [pc |-> "interrupt", child |-> c,
                 turn |-> IF child[c].state = "running" THEN child[c].turn ELSE 0]
<1>1. record[c] # "none" /\ UNCHANGED <<log, child, detached, record>> /\ Go(p, x)
  BY DEF Interrupt, Open, runtime, records
<1>2. x.pc = "interrupt" /\ x.child = c /\ child[c].turn >= x.turn
  BY InspectedTyped
<1> HIDE DEF x
<1>3. TaskInv(x, log, child, detached, record)
  BY <1>1, <1>2 DEF TaskInv, StatusTasks
<1> QED BY <1>1, <1>3, StillAdvances DEF Gains, RecordInv, BaseInv

LEMMA InterruptInspectGains ==
    ASSUME Typed, RecordInv, NEW p \in Requests, InterruptInspect(p)
    PROVE  Gains(p)
<1> DEFINE o == req[p]
           c == o.child
           s == IF o.turn # 0 /\ Inspected(c) = "waiting" THEN "interrupted" ELSE Inspected(c)
<1>1. /\ o.pc = "interrupt" /\ UNCHANGED <<log, child, detached, record>>
      /\ Go(p, ToWrite(c, s, o.turn)) \/ Go(p, Idle)
  BY DEF InterruptInspect, runtime, records
<1>2. c \in Children /\ o.turn \in Nat /\ record[c] # "none" /\ child[c].turn >= o.turn
  BY <1>1, TaskKinds DEF Typed, TypeOK, InterruptTasks, RecordInv, TaskInv
<1>3. Inspected(c) \notin {"none", "interrupted"} /\ Believed(c, Inspected(c), log, child, detached)
  BY <1>2, InspectedGood, InspectedTyped
<1> HIDE DEF o, c
<1>4. s # "none" /\ Believed(c, s, log, child, detached)
  BY <1>3 DEF Believed
<1>5. s = "interrupted" => child[c].state # "running"
  BY <1>3 DEF Inspected
<1> HIDE DEF s
<1>6. TaskInv(ToWrite(c, s, o.turn), log, child, detached, record)
  BY <1>2, <1>4, <1>5, ToWriteGood
<1>7. Advance /\ BaseInv'
  BY <1>1, StillAdvances DEF RecordInv, BaseInv
<1> QED BY <1>1, <1>6, <1>7, IdleGood DEF Gains

LEMMA WriteGains ==
    ASSUME Typed, RecordInv, NEW p \in Requests, Write(p)
    PROVE  Gains(p)
<1> DEFINE o == req[p]
<1>1. /\ o.pc = "write" /\ record' = [record EXCEPT ![o.child] = o.status]
      /\ UNCHANGED <<log, child, detached>> /\ Go(p, Idle)
  BY DEF Write, runtime, UpdateOwned
<1>2. o.child \in Children
  BY <1>1, TaskKinds DEF Typed, TypeOK, WriteTasks
<1>3. record[o.child] # "none" /\ o.status # "none" /\ Believed(o.child, o.status, log, child, detached)
  BY <1>1 DEF RecordInv, TaskInv, StatusTasks
<1> HIDE DEF o
<1>4. child[o.child].state # "none"
  BY <1>2, <1>3, InspectedGood
<1>5. Advance /\ BaseInv'
  BY <1>1, <1>2, <1>3, <1>4, WriteAdvances DEF RecordInv, BaseInv
<1> QED BY <1>1, <1>5, IdleGood DEF Gains

LEMMA DiesGains ==
    ASSUME Typed, RecordInv, NEW p \in Requests, Dies(p)
    PROVE  Gains(p)
<1>1. UNCHANGED <<log, child, detached, record>> /\ Go(p, Idle)
  BY DEF Dies, runtime
<1> QED BY <1>1, IdleGood, StillAdvances DEF Gains, RecordInv, BaseInv

LEMMA SupervisorGains ==
    ASSUME Typed, RecordInv, NEW p \in Requests, SupervisorStep(p)
    PROVE  Gains(p)
<1>1. CASE StartSupervisor(p)
  <2>1. {c \in Children : record[c] # "none"} \in SUBSET Children /\ \A c \in Children : {c} \in SUBSET Children
    OBVIOUS
  <2> QED BY <1>1, <2>1, PollGains, SpawnGains, InspectChildrenGains, CloseGains, InterruptGains, SendGains
       DEF StartSupervisor
<1>2. CASE StepSupervisor(p)
  BY <1>2, WriteGains, SyncStartGains, SyncCalledGains, SyncReportedGains, SyncStoreGains, SpawnGains,
     SpawnProjectGains, RetireGains, RecheckGains, ReconcileGains, SteerInspectGains, EnqueueGains,
     InterruptInspectGains, RefreshInspectGains, RefreshWriteGains, CascadeStepGains, SpawnChildGains,
     SpawnUnansweredGains
     DEF StepSupervisor
<1> QED BY <1>1, <1>2, DiesGains DEF SupervisorStep

(* The other requests: a page just read, and approvals.                     *)
LEMMA OthersGain ==
    ASSUME Typed, RecordInv, NEW p \in Requests, UNCHANGED records,
           ReadApprovals(p) \/ ListPending(p) \/ SyncApproval(p) \/ \E from \in 0..MaxEvents : ReadPage(p, from)
    PROVE  Gains(p)
<1>1. UNCHANGED <<log, child, detached, record>>
  BY DEF records, runtime, ReadApprovals, ListPending, SyncApproval, ReadPage
<1>2. \E x : Go(p, x) /\ x.pc \in {"idle", "page", "approvals"}
  <2>1. SyncApproval(p) => req[p] \in ApprovalTasks
    BY NextApprovalTyped DEF SyncApproval
  <2>2. ASSUME NEW i, req[p] \in ApprovalTasks PROVE [req[p] EXCEPT !.at = i].pc = "approvals"
    BY <2>2 DEF ApprovalTasks
  <2>3. CASE SyncApproval(p)
    BY <2>1, <2>2, <2>3 DEF SyncApproval
  <2>4. CASE ReadApprovals(p)
    BY <2>4 DEF ReadApprovals, Open
  <2>5. CASE ListPending(p)
    BY <2>5 DEF ListPending, Idle
  <2>6. CASE \E from \in 0..MaxEvents : ReadPage(p, from)
    BY <2>6 DEF ReadPage, Open
  <2> QED BY <2>3, <2>4, <2>5, <2>6
<1>3. PICK x : Go(p, x) /\ x.pc \in {"idle", "page", "approvals"}
  BY <1>2
<1>4. TaskInv(x, log, child, detached, record)
  BY <1>3 DEF TaskInv, StatusTasks
<1> QED BY <1>1, <1>3, <1>4, StillAdvances DEF Gains, RecordInv, BaseInv

LEMMA RuntimeAdvances ==
    ASSUME Typed, RuntimeNext, UNCHANGED records
    PROVE  Advance
<1>1. (log' = log \/ Emits) /\ record' = record
  BY RuntimeTyped DEF records
<1>2. child \in [Children -> Sessions]
      /\ \A d \in Children : child[d].turn \in Nat /\ child[d] \in Sessions
  BY InspectedTyped DEF Typed, TypeOK, DataOK
<1>3. ASSUME NEW c \in Children, CallChild(c) PROVE Advance
  BY <1>1, <1>3, StartAdvances DEF CallChild
<1>4. ASSUME UNCHANGED <<child, detached>> PROVE Advance
  BY <1>1, <1>2, <1>4 DEF Advance
<1>5. ASSUME NEW c \in Children, StartChildTurn(c) PROVE Advance
  <2>1. /\ detached' = detached /\ child[c].state = "waiting"
        /\ child'[c] = [state |-> "running", turn |-> child[c].turn + 1]
        /\ \A d \in Children : d # c => child'[d] = child[d]
    BY <1>2, <1>5 DEF StartChildTurn
  <2> QED BY <1>1, <1>2, <2>1 DEF Advance
<1>6. ASSUME NEW c \in Children, NEW state \in {"waiting", "completed", "failed"}, EndChildTurn(c, state)
      PROVE  Advance
  <2>1. /\ detached' = detached /\ child[c].state = "running"
        /\ child'[c] = [child[c] EXCEPT !.state = state]
        /\ \A d \in Children : d # c => child'[d] = child[d]
    BY <1>2, <1>6 DEF EndChildTurn
  <2>2. child'[c].state = state /\ child'[c].turn = child[c].turn
    BY <1>2, <2>1 DEF Sessions
  <2>3. child[c].state = "running" /\ \A d \in Children : (d \in detached' <=> d \in detached)
        /\ (d # c => child'[d] = child[d])
    BY <2>1
  <2> QED BY <1>1, <1>2, <2>2, <2>3 DEF Advance
<1>7. (\E c \in Children, failed \in BOOLEAN : ReportChild(c, failed))
      \/ (\E type \in {"started", "parked", "cancelled", "ended"} : MoveParent(type))
      \/ (\E r \in Approvals :
            \/ AskApproval(r)
            \/ \E option \in {"approve", "reject"} : AnswerApproval(r, option)
            \/ \E status \in {"rejected", "completed", "failed"} : ReportTool(r, status))
      => UNCHANGED <<child, detached>>
  BY DEF ReportChild, MoveParent, AskApproval, AnswerApproval, ReportTool
<1> QED BY <1>3, <1>4, <1>5, <1>6, <1>7 DEF RuntimeNext

LEMMA RecordInvStep == Typed /\ RecordInv /\ [Next]_vars => RecordInv'
<1> SUFFICES ASSUME Typed, RecordInv, [Next]_vars PROVE RecordInv'
  OBVIOUS
<1>1. CASE UNCHANGED vars
  BY <1>1 DEF vars, RecordInv
<1>2. CASE RuntimeNext /\ UNCHANGED <<records, approval>>
  <2>1. Advance /\ req' = req /\ record' = record
    BY <1>2, RuntimeAdvances, RuntimeTyped DEF records
  <2>2. BaseInv'
    BY <2>1, AdvanceKeepsBase DEF RecordInv, BaseInv
  <2>3. \A p \in Requests : TaskInv(req[p], log', child', detached', record')
    BY <2>1, TaskKept DEF RecordInv, BaseInv, Typed, TypeOK
  <2> QED BY <2>1, <2>2, <2>3 DEF RecordInv, BaseInv
<1>3. ASSUME NEW p \in Requests,
             \/ SupervisorStep(p)
             \/ /\ UNCHANGED records
                /\ \/ ReadApprovals(p) \/ ListPending(p) \/ SyncApproval(p)
                   \/ \E from \in 0..MaxEvents : ReadPage(p, from)
      PROVE  RecordInv'
  BY <1>3, SupervisorGains, OthersGain, GainsKeepsRecords
<1> QED BY <1>1, <1>2, <1>3, StepKinds

LEMMA RecordInvInit == Init => RecordInv
<1> SUFFICES ASSUME Init PROVE RecordInv
  OBVIOUS
<1>1. \A c \in Children : RowInv(c, record[c], log, child, detached)
  BY DEF Init, InitRecords, RowInv, Believed
<1>2. CalledInv(log, child)
  BY DEF Init, InitHistory, CalledInv
<1>3. \A p \in Requests : TaskInv(req[p], log, child, detached, record)
  BY IdleGood DEF Init, InitHistory
<1> QED BY <1>1, <1>2, <1>3 DEF RecordInv

(* The end of the parent never fails a detached child: a record says failed *)
(* only if the child's session or its result did, whatever requests, pages  *)
(* and cascades came in between (syncAgentSubagentsFromEvents).             *)
THEOREM SessionDetachedOutlivesParent == Spec => []DetachedOutlivesParent
<1>1. Init => Typed /\ RecordInv
  BY TypedInit, RecordInvInit
<1>2. Typed /\ RecordInv /\ [Next]_vars => Typed' /\ RecordInv'
  BY TypedStep, RecordInvStep
<1>3. Typed /\ RecordInv => DetachedOutlivesParent
  BY DEF Typed, TypeOK, DataOK, RecordInv, RowInv, Believed, FailureKnown, DetachedOutlivesParent
<1> QED BY <1>1, <1>2, <1>3, PTL DEF Spec

(* A record is not about to say interrupted while the turn whose            *)
(* cancellation was accepted still runs (interruptAgentSubagent).           *)
THEOREM SessionInterruptedAtBoundary == Spec => []InterruptedAtBoundary
<1>1. Init => Typed /\ RecordInv
  BY TypedInit, RecordInvInit
<1>2. Typed /\ RecordInv /\ [Next]_vars => Typed' /\ RecordInv'
  BY TypedStep, RecordInvStep
<1>3. Typed /\ RecordInv => InterruptedAtBoundary
  BY DEF RecordInv, TaskInv, InterruptedAtBoundary
<1> QED BY <1>1, <1>2, <1>3, PTL DEF Spec

-----------------------------------------------------------------------------
(* Orphans.                                                                  *)

(* A step that takes no spawned child out of a request's hands without      *)
(* storing, ending, reporting or losing it.                                 *)
LEMMA OrphanKept ==
    ASSUME Typed, OrphanInv, Advance, spawned' \subseteq Children,
           reported \subseteq reported', lost \subseteq lost',
           \A c \in spawned' : (c \notin spawned \/ \E p \in Requests : InHand(req[p], c)) =>
              \/ record'[c] # "none" \/ child'[c].state \in {"completed", "failed"}
              \/ c \in reported' \cup lost'
              \/ \E p \in Requests : InHand(req'[p], c)
    PROVE  OrphanInv'
<1> SUFFICES ASSUME NEW c \in spawned'
             PROVE  \/ record'[c] # "none" \/ child'[c].state \in {"completed", "failed"}
                    \/ c \in reported' \cup lost'
                    \/ \E p \in Requests : InHand(req'[p], c)
  BY DEF OrphanInv
<1>1. c \in Children
  OBVIOUS
<1>2. CASE c \notin spawned
  BY <1>2
<1>3. CASE c \in spawned /\ ~ \E p \in Requests : InHand(req[p], c)
  <2>1. record[c] # "none" \/ child[c].state \in {"completed", "failed"} \/ c \in reported \cup lost
    BY <1>3 DEF OrphanInv
  <2> QED BY <1>1, <2>1 DEF Advance
<1>4. CASE \E p \in Requests : InHand(req[p], c)
  BY <1>4
<1> QED BY <1>2, <1>3, <1>4

(* Most steps of a request have no spawned child in hand.                   *)
Handless(p) == req[p].pc \notin {"project", "retire"} /\ UNCHANGED <<spawned, reported, lost>>

LEMMA HandKinds ==
    ASSUME NEW p \in Requests, SupervisorStep(p)
    PROVE  \/ \E c \in Children : SpawnChild(p, c) \/ SpawnUnanswered(p, c)
           \/ SpawnProject(p) \/ Retire(p) \/ Dies(p) \/ Handless(p)
<1>1. CASE StartSupervisor(p)
  <2>1. Free(p) /\ UNCHANGED records
    BY <1>1 DEF StartSupervisor, PollChildren, Poll, Spawn, InspectChildren, Close, Interrupt, Send, Open
  <2>2. req[p].pc = "idle"
    BY <2>1 DEF Free, Idle
  <2> QED BY <2>1, <2>2 DEF Handless, records
<1>2. CASE StepSupervisor(p)
  BY <1>2 DEF StepSupervisor, Write, SyncStart, SyncCalled, SyncReported, SyncStore, SpawnRefused,
              Recheck, Reconcile, SteerInspect, Enqueue, InterruptInspect, RefreshInspect, RefreshWrite,
              CascadeStep, Handless, records
<1> QED BY <1>1, <1>2 DEF SupervisorStep

LEMMA HandlessKeeps ==
    ASSUME Typed, OrphanInv, Advance, NEW p \in Requests, NEW x, Go(p, x), Handless(p)
    PROVE  OrphanInv'
<1>1. req' = [req EXCEPT ![p] = x] /\ req \in [Requests -> Tasks]
  BY DEF Go, Typed, TypeOK
<1>2. ASSUME NEW c \in Children, NEW q \in Requests, InHand(req[q], c)
      PROVE  InHand(req'[q], c)
  <2>1. q # p
    BY <1>2 DEF InHand, Handless
  <2> QED BY <1>1, <1>2, <2>1
<1>3. spawned' = spawned /\ spawned \subseteq Children /\ reported' = reported /\ lost' = lost
  BY DEF Handless, Typed, TypeOK, DataOK
<1>4. \A c \in spawned' : (c \notin spawned \/ \E q \in Requests : InHand(req[q], c)) =>
        \E q \in Requests : InHand(req'[q], c)
  BY <1>2, <1>3
<1> QED BY <1>3, <1>4, OrphanKept

(* The others leave it in hand, store it, end it, report it or lose it.     *)
LEMMA HandsKeep ==
    ASSUME Typed, OrphanInv, Advance, NEW p \in Requests, spawned' \subseteq Children,
           reported \subseteq reported', lost \subseteq lost',
           NEW x, Go(p, x),
           \A c \in spawned' : c \notin spawned \/ InHand(req[p], c) =>
              \/ record'[c] # "none" \/ child'[c].state \in {"completed", "failed"}
              \/ c \in reported' \cup lost' \/ InHand(x, c)
    PROVE  OrphanInv'
<1>1. req' = [req EXCEPT ![p] = x] /\ req \in [Requests -> Tasks]
  BY DEF Go, Typed, TypeOK
<1>2. req'[p] = x /\ \A q \in Requests : q # p => req'[q] = req[q]
  BY <1>1
<1>3. ASSUME NEW c \in spawned', c \notin spawned \/ \E q \in Requests : InHand(req[q], c)
      PROVE  \/ record'[c] # "none" \/ child'[c].state \in {"completed", "failed"}
             \/ c \in reported' \cup lost'
             \/ \E q \in Requests : InHand(req'[q], c)
  <2>1. CASE c \notin spawned \/ InHand(req[p], c)
    BY <2>1, <1>2
  <2>2. CASE \E q \in Requests : q # p /\ InHand(req[q], c)
    BY <2>2, <1>2
  <2> QED BY <1>3, <2>1, <2>2
<1> QED BY <1>3, OrphanKept

LEMMA SpawnChildKeeps ==
    ASSUME Typed, OrphanInv, Advance, NEW p \in Requests, NEW d \in Children, SpawnChild(p, d)
    PROVE  OrphanInv'
<1> DEFINE x == [pc |-> "project", child |-> d]
<1>1. spawned' = spawned \cup {d} /\ reported' = reported /\ lost' = lost /\ Go(p, x) /\ req[p].pc = "spawn"
  BY DEF SpawnChild
<1>2. x.pc = "project" /\ x.child = d
  OBVIOUS
<1> HIDE DEF x
<1>3. \A c \in spawned' : c \notin spawned \/ InHand(req[p], c) => InHand(x, c)
  BY <1>1, <1>2 DEF InHand
<1>4. spawned' \subseteq Children
  BY <1>1 DEF Typed, TypeOK, DataOK
<1> QED BY <1>1, <1>3, <1>4, HandsKeep

LEMMA SpawnUnansweredKeeps ==
    ASSUME Typed, OrphanInv, Advance, NEW p \in Requests, NEW d \in Children, SpawnUnanswered(p, d)
    PROVE  OrphanInv'
<1>1. /\ spawned' = spawned \cup {d} /\ reported' = reported /\ lost' = lost \cup {d}
      /\ Go(p, Idle) /\ req[p].pc = "spawn"
  BY DEF SpawnUnanswered
<1>2. \A c \in spawned' : c \notin spawned \/ InHand(req[p], c) => c \in reported' \cup lost'
  BY <1>1 DEF InHand
<1>3. spawned' \subseteq Children
  BY <1>1 DEF Typed, TypeOK, DataOK
<1> QED BY <1>1, <1>2, <1>3, HandsKeep

LEMMA SpawnProjectKeeps ==
    ASSUME Typed, RecordInv, OrphanInv, Advance, NEW p \in Requests, SpawnProject(p)
    PROVE  OrphanInv'
<1> DEFINE d == req[p].child
           x == [pc |-> "retire", child |-> d, left |-> Attempts, close |-> FALSE]
<1>1. /\ spawned' = spawned /\ spawned \subseteq Children /\ reported' = reported /\ lost' = lost
      /\ req[p].pc = "project" /\ ((Create(d, "starting") /\ Go(p, Idle)) \/ Go(p, x))
  BY DEF SpawnProject, Typed, TypeOK, DataOK
<1>2. d \in Children /\ record \in [Children -> Rows]
  BY <1>1, TaskKinds DEF Typed, TypeOK, DataOK, ProjectTasks
<1>3. x.pc = "retire" /\ x.child = d /\ ~ x.close
  OBVIOUS
<1> HIDE DEF x
<1>4. CASE Create(d, "starting") /\ Go(p, Idle)
  <2>1. record'[d] # "none"
    BY <1>2, <1>4 DEF Create
  <2>2. \A c \in spawned' : c \notin spawned \/ InHand(req[p], c) => record'[c] # "none"
    BY <2>1, <1>1 DEF InHand
  <2> QED BY <1>1, <1>4, <2>2, HandsKeep
<1>5. CASE Go(p, x)
  <2>1. \A c \in spawned' : c \notin spawned \/ InHand(req[p], c) => InHand(x, c)
    BY <1>1, <1>3 DEF InHand
  <2> QED BY <1>1, <1>5, <2>1, HandsKeep
<1> QED BY <1>1, <1>4, <1>5

LEMMA RetireKeeps ==
    ASSUME Typed, OrphanInv, Advance, NEW p \in Requests, Retire(p)
    PROVE  OrphanInv'
<1> DEFINE o == req[p]
           y == [o EXCEPT !.left = @ - 1]
<1>1. /\ o.pc = "retire" /\ spawned' = spawned /\ reported \subseteq reported' /\ lost' = lost
      /\ spawned \subseteq Children
      /\ \/ ResetChild(o.child) /\ \E x : Go(p, x)
         \/ o.left = 1 /\ Go(p, Idle) /\ (o.close \/ o.child \in reported')
         \/ o.left # 1 /\ Go(p, y)
  BY DEF Retire, Typed, TypeOK, DataOK
<1>2. o \in RetireTasks
  BY <1>1, TaskKinds DEF Typed, TypeOK
<1>3. o.child \in Children /\ y.pc = "retire" /\ y.child = o.child /\ y.close = o.close
  BY <1>1, <1>2 DEF RetireTasks
<1> HIDE DEF y
<1>4. CASE ResetChild(o.child) /\ \E x : Go(p, x)
  <2>1. PICK x : Go(p, x)
    BY <1>4
  <2>2. child \in [Children -> Sessions] /\ child[o.child] \in Sessions
    BY <1>3 DEF Typed, TypeOK, DataOK
  <2>3. child'[o.child].state \in {"completed", "failed"}
    BY <1>3, <1>4, <2>2 DEF ResetChild, Sessions
  <2>4. \A c \in spawned' : c \notin spawned \/ InHand(o, c) => child'[c].state \in {"completed", "failed"}
    BY <2>3, <1>1 DEF InHand
  <2> QED BY <1>1, <2>1, <2>4, HandsKeep
<1>5. CASE o.left = 1 /\ Go(p, Idle) /\ (o.close \/ o.child \in reported')
  <2>1. \A c \in spawned' : c \notin spawned \/ InHand(o, c) => c \in reported' \cup lost'
    BY <1>1, <1>5 DEF InHand
  <2> QED BY <1>1, <1>5, <2>1, HandsKeep
<1>6. CASE o.left # 1 /\ Go(p, y)
  <2>1. \A c \in spawned' : c \notin spawned \/ InHand(o, c) => InHand(y, c)
    BY <1>1, <1>3 DEF InHand
  <2> QED BY <1>1, <1>6, <2>1, HandsKeep
<1> QED BY <1>1, <1>4, <1>5, <1>6

LEMMA DiesKeeps ==
    ASSUME Typed, OrphanInv, Advance, NEW p \in Requests, Dies(p)
    PROVE  OrphanInv'
<1>1. spawned' = spawned /\ spawned \subseteq Children /\ reported' = reported /\ Go(p, Idle)
      /\ lost \subseteq lost'
  BY DEF Dies, Typed, TypeOK, DataOK
<1>2. \A c \in spawned' : c \notin spawned \/ InHand(req[p], c) => c \in reported' \cup lost'
  BY <1>1 DEF Dies, InHand
<1> QED BY <1>1, <1>2, HandsKeep

LEMMA OrphanInvStep == Typed /\ RecordInv /\ OrphanInv /\ [Next]_vars => OrphanInv'
<1> SUFFICES ASSUME Typed, RecordInv, OrphanInv, [Next]_vars PROVE OrphanInv'
  OBVIOUS
<1>1. CASE UNCHANGED vars
  BY <1>1 DEF vars, OrphanInv
<1>2. CASE RuntimeNext /\ UNCHANGED <<records, approval>>
  <2>1. /\ Advance /\ req' = req
        /\ spawned' = spawned /\ spawned \subseteq Children /\ reported' = reported /\ lost' = lost
    BY <1>2, RuntimeAdvances, RuntimeTyped DEF records, Typed, TypeOK, DataOK
  <2>2. \A c \in spawned' : (c \notin spawned \/ \E q \in Requests : InHand(req[q], c)) =>
          \E q \in Requests : InHand(req'[q], c)
    BY <2>1
  <2> QED BY <2>1, <2>2, OrphanKept
<1>3. ASSUME NEW p \in Requests, SupervisorStep(p) PROVE OrphanInv'
  <2>1. Gains(p)
    BY <1>3, SupervisorGains
  <2>2. Advance /\ \E x : Go(p, x)
    BY <2>1 DEF Gains
  <2> QED BY <1>3, <2>2, HandKinds, SpawnChildKeeps, SpawnUnansweredKeeps, SpawnProjectKeeps, RetireKeeps, DiesKeeps,
         HandlessKeeps
<1>4. ASSUME NEW p \in Requests, UNCHANGED records,
             ReadApprovals(p) \/ ListPending(p) \/ SyncApproval(p) \/ \E from \in 0..MaxEvents : ReadPage(p, from)
      PROVE  OrphanInv'
  <2>1. Gains(p)
    BY <1>4, OthersGain
  <2>2. Advance /\ \E x : Go(p, x)
    BY <2>1 DEF Gains
  <2>3. Free(p) \/ req[p].pc = "approvals"
    BY <1>4 DEF ReadApprovals, ListPending, SyncApproval, ReadPage, Open
  <2>4. req[p].pc \in {"idle", "approvals"}
    BY <2>3 DEF Free, Idle
  <2>5. Handless(p)
    BY <1>4, <2>4 DEF Handless, records
  <2> QED BY <2>2, <2>5, HandlessKeeps
<1> QED BY <1>1, <1>2, <1>3, <1>4, StepKinds

(* A child started by a spawn request runs without a record only while the  *)
(* request has it in hand, after an orphan error named it to the operator,  *)
(* or if its start was not answered or the server died in between           *)
(* (spawnAgentSubagent), however many requests spawn, close and refresh      *)
(* children at one time.                                                    *)
THEOREM SessionOrphansAccounted == Spec => []OrphansAccounted
<1>1. Init => Typed /\ RecordInv /\ OrphanInv
  <2>1. Init => OrphanInv
    BY DEF Init, InitRecords, OrphanInv
  <2> QED BY <2>1, TypedInit, RecordInvInit
<1>2. Typed /\ RecordInv /\ OrphanInv /\ [Next]_vars => Typed' /\ RecordInv' /\ OrphanInv'
  BY TypedStep, RecordInvStep, OrphanInvStep
<1>3. Typed /\ RecordInv /\ OrphanInv => OrphansAccounted
  BY DEF OrphanInv, InHand, OrphansAccounted
<1> QED BY <1>1, <1>2, <1>3, PTL DEF Spec
=============================================================================
