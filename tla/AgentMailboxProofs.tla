------------------------- MODULE AgentMailboxProofs -------------------------
(***************************************************************************)
(* Theorems about mailbox delivery (AgentMailbox), for any number of items, *)
(* sessions, workers, turns and faults.                                     *)
(***************************************************************************)
EXTENDS AgentMailbox, MailboxStoreProofs, SequenceTheorems

(* A worker past claimNext holds an item and a token.                       *)
Claiming == {"idle", "expired", "reaped"}

DispOK ==
    /\ disp \in [Dispatchers -> DispatcherType]
    /\ \A d \in Dispatchers : disp[d].pc \notin Claiming =>
          disp[d].item \in Items /\ disp[d].token \in Tokens

TypeInv == TypeOK /\ DispOK

(* The head of a non-empty inbox is a message about an item.                *)
LEMMA InboxHead ==
    ASSUME TypeOK, NEW s \in Sessions, inbox[s] # <<>>
    PROVE  /\ Head(inbox[s]).item \in Items
           /\ Tail(inbox[s]) \in Seq(MessageType)
<1>1. inbox[s] \in Seq(MessageType)
  BY DEF TypeOK
<1>2. Head(inbox[s]) \in MessageType /\ Tail(inbox[s]) \in Seq(MessageType)
  BY <1>1, HeadTailProperties
<1> QED BY <1>2 DEF MessageType

-----------------------------------------------------------------------------
(* Every step of the system is an operation of the table, or leaves it be.  *)

(* Every step of the system is a step of the table or leaves it alone.      *)
LEMMA StepsTheStore ==
    ASSUME TypeInv, [Next]_vars
    PROVE  [StoreNext]_storeVars
<1>h. \A d \in Dispatchers :
        /\ disp[d].pc \notin Claiming => disp[d].item \in Items /\ disp[d].token \in Tokens
        /\ disp[d].guard \in {"none", "edit-v1"}
  BY DEF TypeInv, TypeOK, DispOK, DispatcherType
<1>1. ASSUME NEW i \in Items, ClientStep(i) \/ LeaseEnds(i) \/ ClockStep(i)
      PROVE  StoreNext
  BY <1>1 DEF ClientStep, LeaseEnds, ClockStep, StoreNext
<1>2. ASSUME NEW d \in Dispatchers, DispatcherStep(d) \/ Crashes(d)
      PROVE  [StoreNext]_storeVars
  <2>1. CASE ClaimExpires(d) \/ ClaimReaps(d)
    BY <2>1 DEF ClaimExpires, ClaimReaps, StoreNext
  <2>2. CASE ClaimsItem(d)
    BY <2>2 DEF ClaimsItem, StoreNext
  <2>3. CASE \/ ClaimsNothing(d) \/ InspectAdmits(d) \/ InspectFindsTerminal(d)
             \/ InspectDefers(d) \/ BeginThrows(d) \/ CallTimesOut(d)
             \/ AcceptThrows(d) \/ Crashes(d)
    BY <2>3 DEF ClaimsNothing, InspectAdmits, InspectFindsTerminal, InspectDefers,
       BeginThrows, CallTimesOut, AcceptThrows, Crashes
  <2>4. CASE Defers(d) \/ FailsTerminal(d) \/ Accepts(d) \/ CommitsResponse(d)
    BY <2>4, <1>h DEF Defers, FailsTerminal, Accepts, CommitsResponse, Claiming,
       StoreNext
  <2>5. CASE Begins(d)
    BY <2>5, <1>h DEF Begins, Claiming, StoreNext
  <2>6. CASE Catches(d)
    BY <2>6, <1>h DEF Catches, CatchTransition, Claiming, StoreNext
  <2> QED BY <1>2, <2>1, <2>2, <2>3, <2>4, <2>5, <2>6 DEF DispatcherStep
<1>3. ASSUME NEW c \in calls, RouteStep(c) \/ CallLost(c)
      PROVE  UNCHANGED storeVars
  BY <1>3 DEF RouteStep, CallLost, RouteAdmits, RouteBusy, RouteRejects,
     RouteInspectionTimesOut, RouteSends, RouteSessionNotActive, RouteSendUnknown
<1>4. ASSUME NEW s \in Sessions, SessionStep(s)
      PROVE  [StoreNext]_storeVars
  <2>1. CASE EditConsumed(s)
    <3>1. Head(inbox[s]).item \in Items
      BY <2>1, InboxHead DEF EditConsumed, HeadIs, TypeInv
    <3> QED BY <2>1, <3>1 DEF EditConsumed, StoreNext
  <2>2. CASE HookCommits(s)
    <3>1. sess[s].receipt \in Items
      BY <2>2 DEF HookCommits, TypeInv, TypeOK, SessionType
    <3> QED BY <2>2, <3>1 DEF HookCommits, StoreNext
  <2> QED BY <1>4, <2>1, <2>2 DEF SessionStep, EditDropped, StepReplayed,
             StartsTurn, SteersTurn, TakesHead, ResumesTurn, HookGivesUp,
             TurnSettles, SessionEnds
<1>5. CASE UNCHANGED vars
  BY <1>5 DEF vars, storeVars
<1> QED BY <1>1, <1>2, <1>3, <1>4, <1>5 DEF Next

-----------------------------------------------------------------------------
(* Types *)

(* A dispatcher past its claim still has its item and its token.            *)
LEMMA DispStep ==
    ASSUME TypeInv, [Next]_vars
    PROVE  DispOK'
<1>h. /\ disp \in [Dispatchers -> DispatcherType]
      /\ \A d \in Dispatchers : disp[d].pc \notin Claiming =>
            disp[d].item \in Items /\ disp[d].token \in Tokens
  BY DEF TypeInv, DispOK
<1>i. Idle \in DispatcherType
  BY DEF Idle, DispatcherType, Outcomes
<1>1. ASSUME NEW d \in Dispatchers, Return(d) PROVE DispOK'
  <2>1. disp' = [disp EXCEPT ![d] = Idle]
    BY <1>1 DEF Return
  <2>2. Idle.pc \in Claiming
    BY DEF Idle, Claiming
  <2> QED BY <2>1, <2>2, <1>h, <1>i DEF DispOK
<1>2. ASSUME NEW d \in Dispatchers,
             NEW pc \in {"expired", "reaped", "defer", "fail", "wait", "commit"},
             Goto(d, pc), pc \notin Claiming => disp[d].pc \notin Claiming
      PROVE  DispOK'
  BY <1>2, <1>h DEF Goto, DispOK, DispatcherType
<1>3. ASSUME NEW d \in Dispatchers, NEW out \in Outcomes,
             Raise(d, out), disp[d].pc \notin Claiming
      PROVE  DispOK'
  BY ZenonT(60), <1>3, <1>h DEF Raise, DispOK, DispatcherType
<1>4. ASSUME NEW c, NEW pc \in {"catch", "accept"}, NEW out \in Outcomes,
             Answer(c, pc, out)
      PROVE  DispOK'
  BY ZenonT(60), <1>4, <1>h DEF Answer, DispOK, DispatcherType, Claiming
<1>5. ASSUME NEW d \in Dispatchers, DispatcherStep(d) \/ Crashes(d)
      PROVE  DispOK'
  <2> USE DEF Claiming, Outcomes
  <2>1. CASE ClaimExpires(d) \/ ClaimReaps(d)
    BY <2>1, <1>2 DEF ClaimExpires, ClaimReaps
  <2>2. CASE ClaimsItem(d)
    <3> PICK t \in Tokens, i \in Items :
          disp' = [disp EXCEPT ![d] = [Idle EXCEPT !.pc = "claimed",
                                                   !.item = i, !.token = t]]
      BY <2>2 DEF ClaimsItem
    <3> DEFINE w == [Idle EXCEPT !.pc = "claimed", !.item = i, !.token = t]
    <3>1. w \in DispatcherType /\ w.item \in Items /\ w.token \in Tokens
      BY <1>i DEF Idle, DispatcherType
    <3> HIDE DEF w
    <3>2. disp' = [disp EXCEPT ![d] = w]
      BY DEF w
    <3> QED BY <3>1, <3>2, <1>h DEF DispOK
  <2>3. CASE InspectAdmits(d)
    <3> PICK g \in GuardModes :
          disp' = [disp EXCEPT ![d].pc = "begin", ![d].guard = g]
      BY <2>3 DEF InspectAdmits
    <3>1. g \in {"none", "edit-v1"}
      BY GuardModesAssumption
    <3>2. disp[d].pc \notin Claiming
      BY <2>3 DEF InspectAdmits
    <3> DEFINE w == [disp[d] EXCEPT !.pc = "begin", !.guard = g]
    <3>3. /\ w \in DispatcherType
          /\ w.item \in Items /\ w.token \in Tokens
      BY <3>1, <3>2, <1>h DEF DispatcherType
    <3>4. disp' = [disp EXCEPT ![d] = w]
      BY <1>h
    <3> HIDE DEF w
    <3> QED BY <3>3, <3>4, <1>h DEF DispOK
  <2>4. CASE \/ ClaimsNothing(d) \/ Defers(d) \/ FailsTerminal(d)
             \/ CommitsResponse(d) \/ Catches(d) \/ Crashes(d)
    BY <2>4, <1>1 DEF ClaimsNothing, Defers, FailsTerminal, CommitsResponse,
       Catches, Crashes
  <2>5. CASE \/ InspectFindsTerminal(d) \/ InspectDefers(d) \/ Begins(d)
    BY <2>5, <1>2 DEF InspectFindsTerminal, InspectDefers, Begins
  <2>6. CASE Accepts(d)
    BY <2>6, <1>1, <1>2 DEF Accepts
  <2>7. CASE BeginThrows(d) \/ CallTimesOut(d) \/ AcceptThrows(d)
    BY <2>7, <1>3 DEF BeginThrows, CallTimesOut, AcceptThrows
  <2> QED BY <1>5, <2>1, <2>2, <2>3, <2>4, <2>5, <2>6, <2>7 DEF DispatcherStep
<1>6. ASSUME NEW c \in calls, RouteStep(c) \/ CallLost(c)
      PROVE  DispOK'
  <2>1. CASE RouteAdmits(c) \/ CallLost(c)
    BY <2>1, <1>h DEF RouteAdmits, CallLost, DispOK
  <2>2. CASE ~ (RouteAdmits(c) \/ CallLost(c))
    BY <2>2, <1>6, <1>4 DEF RouteStep, RouteBusy, RouteRejects, Outcomes,
       RouteInspectionTimesOut, RouteSends, RouteSessionNotActive, RouteSendUnknown
  <2> QED BY <2>1, <2>2
<1>7. ASSUME UNCHANGED disp PROVE DispOK'
  BY <1>7, <1>h DEF DispOK
<1>8. ASSUME NEW s \in Sessions, SessionStep(s) PROVE UNCHANGED disp
  BY <1>8 DEF SessionStep, EditConsumed, EditDropped, StepReplayed, StartsTurn,
     SteersTurn, TakesHead, ResumesTurn, HookCommits, HookGivesUp, TurnSettles,
     SessionEnds, Dispatching
<1>9. ASSUME NEW i \in Items, ClientStep(i) \/ LeaseEnds(i) \/ ClockStep(i)
      PROVE  UNCHANGED disp
  BY <1>9 DEF ClientStep, LeaseEnds, ClockStep
<1>10. CASE UNCHANGED vars
  BY <1>10, <1>7 DEF vars
<1> QED BY <1>5, <1>6, <1>7, <1>8, <1>9, <1>10 DEF Next

(* The calls in flight to the runtime, the count of requests sent for each  *)
(* item and the faults spent keep their types under every step.             *)
LEMMA CallsStep ==
    ASSUME TypeInv, [Next]_vars
    PROVE  /\ (calls \subseteq CallType)'
           /\ (sends \in [Items -> Nat])'
           /\ (faults \in 0..MaxFaults)'
<1>h. /\ calls \subseteq CallType /\ sends \in [Items -> Nat]
      /\ faults \in 0..MaxFaults /\ MaxFaults \in Nat
      /\ \A d \in Dispatchers : disp[d].pc \notin Claiming =>
            disp[d].item \in Items /\ disp[d].token \in Tokens
  BY BoundsAssumption DEF TypeInv, TypeOK, DispOK
<1>f. ASSUME Fault PROVE (faults \in 0..MaxFaults)'
  BY <1>f, <1>h DEF Fault
<1>1. ASSUME NEW i \in Items, ClientStep(i) \/ LeaseEnds(i) \/ ClockStep(i)
      PROVE  UNCHANGED <<calls, sends>> /\ (faults \in 0..MaxFaults)'
  BY <1>1, <1>f, <1>h DEF ClientStep, LeaseEnds, ClockStep
<1>2. ASSUME NEW d \in Dispatchers, DispatcherStep(d) \/ Crashes(d), ~ Begins(d)
      PROVE  UNCHANGED <<calls, sends>> /\ (faults \in 0..MaxFaults)'
  BY <1>2, <1>f, <1>h DEF DispatcherStep, Outside, ClaimExpires, ClaimReaps,
     ClaimsItem, ClaimsNothing, InspectAdmits, InspectFindsTerminal, InspectDefers,
     Defers, FailsTerminal, BeginThrows, CallTimesOut, Accepts, AcceptThrows,
     CommitsResponse, Catches, Crashes
<1>3. ASSUME NEW d \in Dispatchers, Begins(d)
      PROVE  (calls \subseteq CallType)' /\ UNCHANGED <<sends, faults>>
  BY <1>3, <1>h DEF Begins, Claiming, CallType
<1>4. ASSUME NEW c \in calls, RouteStep(c) \/ CallLost(c)
      PROVE  (calls \subseteq CallType)' /\ (sends \in [Items -> Nat])'
             /\ UNCHANGED faults
  <2>1. c.item \in Items
    BY <1>h DEF CallType
  <2>2. CASE RouteAdmits(c)
    <3> DEFINE m == IF sess[pay[c.item].sess].phase = "running"
                    THEN "steer" ELSE "turn"
    <3>1. [c EXCEPT !.stage = "checked", !.mode = m] \in CallType
      BY <1>h DEF CallType
    <3> QED BY <2>2, <3>1, <1>h DEF RouteAdmits
  <2>3. CASE ~ RouteAdmits(c)
    <3>1. calls' = calls \ {c} /\ UNCHANGED faults
      BY <2>3, <1>4 DEF RouteStep, CallLost, RouteBusy, RouteRejects,
         RouteInspectionTimesOut, RouteSends, RouteSessionNotActive, RouteSendUnknown
    <3>2. EnterInbox(c) \/ UNCHANGED sends
      BY <2>3, <1>4 DEF RouteStep, CallLost, RouteBusy, RouteRejects,
         RouteInspectionTimesOut, RouteSends, RouteSessionNotActive, RouteSendUnknown
    <3>3. sends' \in [Items -> Nat]
      <4>1. \/ sends' = sends
            \/ sends' = [sends EXCEPT ![c.item] = sends[c.item] + 1]
        BY <3>2 DEF EnterInbox
      <4> QED BY <2>1, <4>1, <1>h
    <3> QED BY <3>1, <3>3, <1>h
  <2> QED BY <2>2, <2>3
<1>5. ASSUME NEW s \in Sessions, SessionStep(s)
      PROVE  UNCHANGED <<calls, sends>> /\ (faults \in 0..MaxFaults)'
  BY <1>5, <1>f, <1>h DEF SessionStep, EditConsumed, EditDropped, StepReplayed,
     StartsTurn, SteersTurn, TakesHead, ResumesTurn, HookCommits, HookGivesUp,
     TurnSettles, SessionEnds, Dispatching
<1>6. CASE UNCHANGED vars
  BY <1>6, <1>h DEF vars
<1> QED BY <1>h, <1>1, <1>2, <1>3, <1>4, <1>5, <1>6 DEF Next

RuntimeOK ==
    /\ sess \in [Sessions -> SessionType]
    /\ inbox \in [Sessions -> Seq(MessageType)]
    /\ received \in [Sessions -> Seq([item : Items, turn : 0..MaxTurns])]

(* The runtime state (sessions, turns and received messages) keeps its type *)
(* under every step; only the runtime and the admission calls change it.    *)
LEMMA RuntimeStep ==
    ASSUME TypeInv, [Next]_vars
    PROVE  RuntimeOK'
<1>h. RuntimeOK /\ MaxTurns \in Nat
  BY BoundsAssumption DEF TypeInv, TypeOK, RuntimeOK
<1>u. ASSUME UNCHANGED runtimeVars PROVE RuntimeOK'
  BY <1>u, <1>h DEF RuntimeOK, runtimeVars
<1>1. ASSUME NEW i \in Items, ClientStep(i) \/ LeaseEnds(i) \/ ClockStep(i)
      PROVE  UNCHANGED runtimeVars
  BY <1>1 DEF ClientStep, LeaseEnds, ClockStep
<1>2. ASSUME NEW d \in Dispatchers, DispatcherStep(d) \/ Crashes(d)
      PROVE  UNCHANGED runtimeVars
  BY <1>2 DEF DispatcherStep, Outside, ClaimExpires, ClaimReaps, Begins,
     ClaimsItem, ClaimsNothing, InspectAdmits, InspectFindsTerminal, InspectDefers,
     Defers, FailsTerminal, BeginThrows, CallTimesOut, Accepts, AcceptThrows,
     CommitsResponse, Catches, Crashes
<1>3. ASSUME NEW c \in calls, RouteStep(c) \/ CallLost(c)
      PROVE  RouteStep(c) \/ CallLost(c) => RuntimeOK'
  <2>1. CASE EnterInbox(c) /\ UNCHANGED <<sess, received>>
    <3> DEFINE s == pay[c.item].sess
               msg == [item |-> c.item, mode |-> c.mode]
    <3>1. c \in CallType /\ pay \in [Items -> PayloadType]
      BY DEF TypeInv, TypeOK, StoreTypeOK
    <3>2. msg \in MessageType /\ s \in Sessions
      BY <3>1 DEF CallType, MessageType, PayloadType
    <3>3. Append(inbox[s], msg) \in Seq(MessageType)
      BY <3>2, <1>h, AppendProperties DEF RuntimeOK
    <3>4. inbox' = [inbox EXCEPT ![s] = Append(inbox[s], msg)]
      BY <2>1 DEF EnterInbox
    <3> HIDE DEF s, msg
    <3> QED BY <2>1, <3>2, <3>3, <3>4, <1>h DEF RuntimeOK
  <2>2. CASE UNCHANGED runtimeVars
    BY <2>2, <1>u
  <2> QED BY <1>3, <2>1, <2>2 DEF RouteStep, CallLost, RouteAdmits, RouteBusy,
             RouteRejects, RouteInspectionTimesOut, RouteSends, runtimeVars,
             RouteSessionNotActive, RouteSendUnknown
<1>4. ASSUME NEW s \in Sessions, SessionStep(s)
      PROVE  RuntimeOK'
  <2> USE DEF RuntimeOK
  <2>i. inbox[s] # <<>> => /\ Head(inbox[s]).item \in Items
                           /\ Tail(inbox[s]) \in Seq(MessageType)
    BY InboxHead DEF TypeInv
  <2>1. CASE EditConsumed(s) \/ StepReplayed(s) \/ HookCommits(s) \/ HookGivesUp(s)
             \/ TurnSettles(s)
    <3>1. /\ [sess[s] EXCEPT !.gate = "open"] \in SessionType
          /\ [sess[s] EXCEPT !.gate = "closed"] \in SessionType
          /\ [sess[s] EXCEPT !.receipt = NoItem] \in SessionType
          /\ [sess[s] EXCEPT !.phase = "waiting"] \in SessionType
      BY <1>h DEF SessionType
    <3>2. \E w \in SessionType : sess' = [sess EXCEPT ![s] = w]
      BY <2>1, <3>1 DEF EditConsumed, StepReplayed, HookCommits, HookGivesUp,
         TurnSettles
    <3>3. UNCHANGED <<inbox, received>>
      BY <2>1 DEF EditConsumed, StepReplayed, HookCommits, HookGivesUp, TurnSettles
    <3> QED BY <3>2, <3>3, <1>h
  <2>2. CASE EditDropped(s)
    BY <2>2, <2>i, <1>h DEF EditDropped, HeadIs
  <2>3. CASE ResumesTurn(s)
    BY ZenonT(30), <2>3, <2>i, <1>h DEF ResumesTurn, HeadIs, SessionType
  <2>4. CASE SessionEnds(s)
    <3>1. <<>> \in Seq(MessageType)
      BY EmptySeq
    <3>2. [sess[s] EXCEPT !.phase = "terminal", !.gate = "closed"] \in SessionType
      BY <1>h DEF SessionType
    <3>3. sess' = [sess EXCEPT ![s] =
                     [sess[s] EXCEPT !.phase = "terminal", !.gate = "closed"]]
      BY <2>4, <1>h DEF SessionEnds
    <3> QED BY <2>4, <3>1, <3>2, <3>3, <1>h DEF SessionEnds
  <2>5. ASSUME NEW turn \in 0..MaxTurns, TakesHead(s, turn), inbox[s] # <<>>
        PROVE  RuntimeOK'
    <3> DEFINE r == [item |-> Head(inbox[s]).item, turn |-> turn]
               w == [phase |-> "running", turn |-> turn, gate |-> "closed",
                     receipt |-> Head(inbox[s]).item]
    <3>1. /\ r \in [item : Items, turn : 0..MaxTurns]
          /\ w \in SessionType
      BY <2>5, <2>i DEF SessionType
    <3>2. Append(received[s], r) \in Seq([item : Items, turn : 0..MaxTurns])
      BY <3>1, <1>h, AppendProperties
    <3>3. /\ received' = [received EXCEPT ![s] = Append(received[s], r)]
          /\ sess' = [sess EXCEPT ![s] = w]
          /\ inbox' = [inbox EXCEPT ![s] = Tail(inbox[s])]
      BY <2>5 DEF TakesHead
    <3> HIDE DEF r, w
    <3> QED BY <2>5, <2>i, <3>1, <3>2, <3>3, <1>h
  <2>6. CASE StartsTurn(s) \/ SteersTurn(s)
    <3>1. sess[s].turn \in 0..MaxTurns
      BY <1>h DEF SessionType
    <3>2. CASE StartsTurn(s)
      <4>1. sess[s].turn + 1 \in 0..MaxTurns
        BY <3>1, <3>2, <1>h DEF StartsTurn
      <4> QED BY <2>5, <3>2, <4>1 DEF StartsTurn, HeadIs
    <3>3. CASE SteersTurn(s)
      BY <2>5, <3>1, <3>3 DEF SteersTurn, HeadIs
    <3> QED BY <2>6, <3>2, <3>3
  <2> QED BY <1>4, <2>1, <2>2, <2>3, <2>4, <2>6 DEF SessionStep
<1>5. CASE UNCHANGED vars
  BY <1>5, <1>u DEF vars, runtimeVars
<1> QED BY <1>u, <1>1, <1>2, <1>3, <1>4, <1>5 DEF Next

(* The inductive type invariant holds initially.                            *)
LEMMA InitType == Init => TypeInv
<1> SUFFICES ASSUME Init PROVE TypeInv
  OBVIOUS
<1>1. StoreTypeOK
  BY PayloadsAssumption DEF Init, StoreInit, StoreTypeOK, BlankRow, RowType,
     ClaimConstraint, NotRows
<1>2. Idle \in DispatcherType /\ Idle.pc \in Claiming
  BY DEF Idle, DispatcherType, Outcomes, Claiming
<1>3. DispOK
  BY <1>2 DEF Init, DispOK
<1>4. RuntimeOK
  BY EmptySeq, BoundsAssumption DEF Init, RuntimeOK, SessionType
<1> QED BY <1>1, <1>3, <1>4, BoundsAssumption
           DEF Init, TypeInv, TypeOK, DispOK, RuntimeOK

(* The inductive type invariant is kept by every step: the table by the store's*)
(* own theorem, the other variables by the three lemmas above.              *)
LEMMA TypeStep ==
    ASSUME TypeInv, [Next]_vars
    PROVE  TypeInv'
<1>1. StoreTypeOK'
  BY StepsTheStore, StoreTypeStep DEF TypeInv, TypeOK
<1> QED BY <1>1, DispStep, CallsStep, RuntimeStep DEF TypeInv, TypeOK, DispOK,
           RuntimeOK

(* Every variable of the system keeps its type, the table's claim constraint *)
(* included; in particular a worker always holds a real item and a real      *)
(* token when it calls a lease-holder's operation.                           *)
THEOREM TypeCorrect == Spec => []TypeOK
<1>1. TypeInv => TypeOK
  BY DEF TypeInv
<1> QED BY <1>1, InitType, TypeStep, PTL DEF Spec

(* The delivery system uses the table only through its operations, so every  *)
(* theorem about the table holds of the system.                              *)
THEOREM RefinesStore == Spec => StoreSpec
<1>1. Init => StoreInit
  BY DEF Init
<1> QED BY <1>1, InitType, TypeStep, StepsTheStore, PTL DEF Spec, StoreSpec

-----------------------------------------------------------------------------
(* At most one admission *)

(* An operation that opens no item for delivery, hands out no lease and      *)
(* begins no admission.                                                      *)
Passive ==
    /\ \A i \in Items : Quiet(i)' => Quiet(i)
    /\ \A i \in Items, t \in Tokens :
          Holds(i, t)' =>
            /\ Holds(i, t)
            /\ row[i].admission = "none" => row'[i].admission = "none"

(* Writing one row is passive when it leaves a lease as it is or gives it up:*)
(* the form of nearly every UPDATE of the mailbox store.                    *)
LEMMA WritePassive ==
    ASSUME StoreTypeOK, NEW i \in Items, NEW r \in RowType, Write(i, r),
           r.status \in NotRows \cup {"queued", "failed"} => Quiet(i),
           r.status = "delivering" =>
              /\ row[i].status = "delivering" /\ r.token = row[i].token
              /\ r.admission = "none" <=> row[i].admission = "none"
    PROVE  Passive
<1>1. \A j \in Items : row'[j] = IF j = i THEN r ELSE row[j]
  BY DEF Write, StoreTypeOK
<1> QED BY <1>1 DEF Passive, Quiet, Holds

(* A step that leaves the table alone is passive.                           *)
LEMMA UnchangedPassive ==
    ASSUME UNCHANGED storeVars PROVE Passive
BY DEF storeVars, Passive, Quiet, Holds

(* All operations but Claim, BeginAdmission, DeferRejectedAdmission and Fail *)
(* are passive.                                                              *)
LEMMA PassiveOps ==
    ASSUME StoreTypeOK, NEW i \in Items, NEW t,
           \/ EnqueueBegin(i) \/ EnqueueRefused(i) \/ EnqueueInserted(i)
           \/ Commit(i) \/ ConsumeEdit(i) \/ CancelOwned(i) \/ RetryOwned(i)
           \/ LeaseExpires(i) \/ EditDeadlinePasses(i) \/ BecomesAvailable(i)
           \/ Defer(i, t) \/ Accept(i, t) \/ MarkSubmissionAmbiguous(i, t)
    PROVE  Passive
<1>r. row[i] \in RowType
  BY DEF StoreTypeOK
<1> USE DEF NotRows, Statuses
<1>u. \A st \in Statuses :
        /\ Unclaimed(row[i], st) \in RowType
        /\ Unclaimed(row[i], st).status = st
  BY <1>r DEF Unclaimed, RowType
<1>1. CASE EnqueueBegin(i) \/ EnqueueRefused(i)
  <2> DEFINE a == [row[i] EXCEPT !.status = "open"]
             b == [row[i] EXCEPT !.status = "refused"]
  <2>1. /\ a \in RowType /\ a.status = "open"
        /\ b \in RowType /\ b.status = "refused"
    BY <1>r DEF RowType
  <2>2. Quiet(i)
    BY <1>1 DEF EnqueueBegin, EnqueueRefused, Quiet
  <2>3. Write(i, a) \/ Write(i, b)
    BY <1>1 DEF EnqueueBegin, EnqueueRefused
  <2> HIDE DEF a, b
  <2> QED BY <2>1, <2>2, <2>3, WritePassive
<1>2. CASE EnqueueInserted(i)
  <2>1. /\ row'[i].status = "queued" /\ row[i].status = "open"
        /\ \A j \in Items : j # i => row'[j] = row[j]
    BY <1>2, <1>r DEF EnqueueInserted, StoreTypeOK, RowType
  <2> QED BY <2>1 DEF Passive, Quiet, Holds
<1>3. CASE Commit(i) \/ ConsumeEdit(i) \/ Accept(i, t) \/ MarkSubmissionAmbiguous(i, t)
  <2>1. CASE UNCHANGED storeVars
    BY <2>1, UnchangedPassive
  <2>2. CASE \E st \in {"committed", "accepted", "submission-ambiguous"} :
               Write(i, Unclaimed(row[i], st))
    BY <2>2, <1>u, WritePassive
  <2> QED BY <1>3, <2>1, <2>2 DEF Commit, ConsumeEdit, Accept, ClaimedTransition,
             MarkSubmissionAmbiguous
<1>4. CASE CancelOwned(i)
  <2> DEFINE a == [Unclaimed(row[i], "cancelled") EXCEPT !.admission = "none"]
  <2>1. a \in RowType /\ a.status = "cancelled"
    BY <1>u DEF RowType
  <2>2. Write(i, a)
    BY <1>4 DEF CancelOwned
  <2> HIDE DEF a
  <2> QED BY <2>1, <2>2, WritePassive
<1>5. CASE RetryOwned(i)
  <2> DEFINE a == [row[i] EXCEPT !.status = "queued", !.avail = "now",
                                 !.admission = "none"]
  <2>1. a \in RowType /\ a.status = "queued"
    BY <1>r DEF RowType
  <2>2. Write(i, a) /\ Quiet(i)
    BY <1>5 DEF RetryOwned, Quiet
  <2> HIDE DEF a
  <2> QED BY <2>1, <2>2, WritePassive
<1>6. CASE LeaseExpires(i) \/ EditDeadlinePasses(i) \/ BecomesAvailable(i)
  <2> DEFINE a == [row[i] EXCEPT !.lease = "expired"]
             b == [row[i] EXCEPT !.admission = "overdue"]
             c == [row[i] EXCEPT !.avail = "now"]
  <2>1. \A r \in {a, b, c} : /\ r \in RowType
                              /\ r.status = row[i].status /\ r.token = row[i].token
    BY <1>r DEF RowType
  <2>2. /\ a.admission = row[i].admission /\ c.admission = row[i].admission
        /\ b.admission = "overdue"
    BY <1>r DEF RowType
  <2>3. \/ Write(i, a) \/ Write(i, c)
        \/ Write(i, b) /\ row[i].admission = "started"
    BY <1>6 DEF LeaseExpires, EditDeadlinePasses, BecomesAvailable
  <2>4. row[i].status \in NotRows \cup {"queued", "failed"} => Quiet(i)
    BY DEF Quiet
  <2> HIDE DEF a, b, c
  <2>5. CASE Write(i, a)
    BY <2>1, <2>2, <2>4, <2>5, WritePassive
  <2>6. CASE Write(i, c)
    BY <2>1, <2>2, <2>4, <2>6, WritePassive
  <2>7. CASE Write(i, b) /\ row[i].admission = "started"
    BY <2>1, <2>2, <2>4, <2>7, WritePassive
  <2> QED BY <2>3, <2>5, <2>6, <2>7
<1>7. CASE Defer(i, t)
  <2>1. Requeued(row[i]) \in RowType /\ Requeued(row[i]).status = "queued"
    BY <1>r DEF RowType, Requeued, Unclaimed
  <2>2. Write(i, Requeued(row[i])) /\ Quiet(i)
    BY <1>7 DEF Defer, CanDefer, Holds, Quiet
  <2> QED BY <2>1, <2>2, WritePassive
<1> QED BY <1>1, <1>2, <1>3, <1>4, <1>5, <1>6, <1>7

(* The two sweeps of the store, over expired edits and expired leases, are  *)
(* passive: they only end deliveries.                                       *)
LEMMA PassiveSweeps ==
    ASSUME StoreTypeOK, ExpireGuardedEdits \/ ReapExpiredLeases
    PROVE  Passive
<1>1. \A i \in Items :
        \/ row'[i] = row[i]
        \/ row'[i].status \in {"cancelled", "submission-ambiguous"}
  <2> SUFFICES ASSUME NEW i \in Items
               PROVE  \/ row'[i] = row[i]
                      \/ row'[i].status \in {"cancelled", "submission-ambiguous"}
    OBVIOUS
  <2>1. /\ Unclaimed(row[i], "cancelled").status = "cancelled"
        /\ Unclaimed(row[i], "submission-ambiguous").status = "submission-ambiguous"
    BY DEF StoreTypeOK, RowType, Unclaimed
  <2> QED BY <2>1 DEF ExpireGuardedEdits, ReapExpiredLeases
<1> QED BY <1>1 DEF Passive, Quiet, Holds, NotRows

AdmissionIInv == TypeInv /\ AdmissionInv

(* A passive operation by someone who is not a worker keeps the invariant.   *)
LEMMA PassiveElsewhere ==
    ASSUME AdmissionIInv, Passive, UNCHANGED <<disp, calls, sends>>
    PROVE  AdmissionInv'
<1>1. \A i \in Items : Untouched(i)' <=> Untouched(i)
  BY DEF Untouched
<1>2. \A d \in Dispatchers : disp[d].pc \notin Claiming =>
        disp[d].item \in Items /\ disp[d].token \in Tokens
  BY DEF AdmissionIInv, TypeInv, DispOK
<1>3. QuietIsUntouched' /\ SentAndGone' /\ OneRequestPerItem' /\ TokensDiffer'
  BY <1>1 DEF AdmissionIInv, AdmissionInv, QuietIsUntouched, SentAndGone,
     OneRequestPerItem, TokensDiffer, Passive
<1>4. HoldsBeforeAdmission'
  BY <1>2 DEF AdmissionIInv, AdmissionInv, HoldsBeforeAdmission, PreAdmission,
     Passive, Claiming
<1>5. RefusalIsDefinitive'
  BY <1>1, <1>2 DEF AdmissionIInv, AdmissionInv, RefusalIsDefinitive, Passive,
     Claiming
<1> QED BY <1>3, <1>4, <1>5 DEF AdmissionInv

(* So does a passive operation by a worker that moves on without claiming,   *)
(* begins no admission and reports no refusal.                               *)
LEMMA PassiveWorker ==
    ASSUME AdmissionIInv, Passive, UNCHANGED <<calls, sends>>,
           NEW d \in Dispatchers, NEW w,
           disp' = [disp EXCEPT ![d] = w],
           w = Idle \/ (w.item = disp[d].item /\ w.token = disp[d].token),
           w.pc \in PreAdmission => disp[d].pc \in PreAdmission,
           w.pc = "catch" => w.out \notin {"rejected", "busy"}
    PROVE  AdmissionInv'
<1>1. \A i \in Items : Untouched(i)' <=> Untouched(i)
  BY DEF Untouched
<1>2. /\ disp \in [Dispatchers -> DispatcherType]
      /\ \A e \in Dispatchers : disp[e].pc \notin Claiming =>
            disp[e].item \in Items /\ disp[e].token \in Tokens
  BY DEF AdmissionIInv, TypeInv, DispOK
<1>3. \A e \in Dispatchers : disp'[e] = IF e = d THEN w ELSE disp[e]
  BY <1>2
<1>i. Idle.pc = "idle" /\ Idle.token = NoToken
  BY DEF Idle
<1>4. QuietIsUntouched' /\ SentAndGone' /\ OneRequestPerItem'
  BY <1>1 DEF AdmissionIInv, AdmissionInv, QuietIsUntouched, SentAndGone,
     OneRequestPerItem, Passive
<1>5. TokensDiffer'
  BY <1>3, <1>i DEF AdmissionIInv, AdmissionInv, TokensDiffer
<1>6. HoldsBeforeAdmission'
  BY <1>2, <1>3, <1>i DEF AdmissionIInv, AdmissionInv, HoldsBeforeAdmission,
     PreAdmission, Passive, Claiming
<1>7. RefusalIsDefinitive'
  BY <1>1, <1>2, <1>3, <1>i DEF AdmissionIInv, AdmissionInv, RefusalIsDefinitive,
     Passive, Claiming
<1> QED BY <1>4, <1>5, <1>6, <1>7 DEF AdmissionInv

(* The worker's own steps.                                                   *)
LEMMA AdmissionWorker ==
    ASSUME AdmissionIInv, NEW d \in Dispatchers, DispatcherStep(d) \/ Crashes(d)
    PROVE  AdmissionInv'
<1> DEFINE i == disp[d].item
           t == disp[d].token
<1>t. StoreTypeOK
  BY DEF AdmissionIInv, TypeInv, TypeOK
<1>h. /\ disp \in [Dispatchers -> DispatcherType]
      /\ \A e \in Dispatchers : disp[e].pc \notin Claiming =>
            disp[e].item \in Items /\ disp[e].token \in Tokens
  BY DEF AdmissionIInv, TypeInv, DispOK
<1>i. Idle.pc = "idle" /\ Idle.token = NoToken
  BY DEF Idle
<1>g. ASSUME NEW pc \in {"expired", "reaped", "defer", "fail", "wait", "commit"},
             Goto(d, pc)
      PROVE  \E w : /\ disp' = [disp EXCEPT ![d] = w]
                    /\ w.item = i /\ w.token = t /\ w.pc = pc
  <2> DEFINE w == [disp[d] EXCEPT !.pc = pc]
  <2>1. disp' = [disp EXCEPT ![d] = w] /\ w.item = i /\ w.token = t /\ w.pc = pc
    BY <1>g, <1>h DEF Goto, DispatcherType
  <2> QED BY <2>1
<1>1. CASE ClaimExpires(d) \/ ClaimReaps(d)
  <2>1. Passive
    BY <1>1, <1>t, PassiveSweeps DEF ClaimExpires, ClaimReaps
  <2>2. \E w : /\ disp' = [disp EXCEPT ![d] = w]
               /\ w.item = i /\ w.token = t /\ w.pc \in {"expired", "reaped"}
    BY <1>1, <1>g DEF ClaimExpires, ClaimReaps
  <2>3. UNCHANGED <<calls, sends>>
    BY <1>1 DEF ClaimExpires, ClaimReaps, Outside
  <2> QED BY <2>1, <2>2, <2>3, PassiveWorker DEF PreAdmission
<1>2. CASE ClaimsNothing(d) \/ Crashes(d)
  <2>1. Passive /\ disp' = [disp EXCEPT ![d] = Idle] /\ UNCHANGED <<calls, sends>>
    BY <1>2, UnchangedPassive DEF ClaimsNothing, Crashes, Return, Outside
  <2> QED BY <2>1, <1>i, PassiveWorker DEF PreAdmission
<1>3. CASE InspectAdmits(d)
  <2> PICK g \in GuardModes :
        disp' = [disp EXCEPT ![d].pc = "begin", ![d].guard = g]
    BY <1>3 DEF InspectAdmits
  <2> DEFINE w == [disp[d] EXCEPT !.pc = "begin", !.guard = g]
  <2>1. disp' = [disp EXCEPT ![d] = w] /\ w.item = i /\ w.token = t /\ w.pc = "begin"
    BY <1>h DEF DispatcherType
  <2>2. Passive /\ UNCHANGED <<calls, sends>> /\ disp[d].pc = "claimed"
    BY <1>3, UnchangedPassive DEF InspectAdmits, Outside
  <2> HIDE DEF w
  <2> QED BY <2>1, <2>2, PassiveWorker DEF PreAdmission
<1>4. CASE InspectFindsTerminal(d) \/ InspectDefers(d)
  <2>1. /\ Passive /\ UNCHANGED <<calls, sends>> /\ disp[d].pc = "claimed"
        /\ \E w : /\ disp' = [disp EXCEPT ![d] = w]
                  /\ w.item = i /\ w.token = t /\ w.pc \in {"fail", "defer"}
    BY <1>4, <1>g, UnchangedPassive DEF InspectFindsTerminal, InspectDefers, Outside
  <2> QED BY <2>1, PassiveWorker DEF PreAdmission
<1>5. CASE BeginThrows(d) \/ CallTimesOut(d) \/ AcceptThrows(d)
  <2> PICK out \in {"none", "ambiguous"} : Raise(d, out)
    BY <1>5 DEF BeginThrows, CallTimesOut, AcceptThrows
  <2> DEFINE w == [disp[d] EXCEPT !.pc = "catch", !.out = out]
  <2>1. /\ disp' = [disp EXCEPT ![d] = w]
        /\ w.item = i /\ w.token = t /\ w.pc = "catch" /\ w.out = out
    BY <1>h DEF DispatcherType, Raise
  <2>2. Passive /\ UNCHANGED <<calls, sends>>
    BY <1>5, UnchangedPassive DEF BeginThrows, CallTimesOut, AcceptThrows, Outside
  <2> HIDE DEF w
  <2> QED BY <2>1, <2>2, PassiveWorker DEF PreAdmission
<1>6. CASE Defers(d) \/ Accepts(d) \/ CommitsResponse(d)
  <2>1. i \in Items /\ t \in Tokens
    BY <1>6, <1>h DEF Defers, Accepts, CommitsResponse, Claiming
  <2>2. Passive
    BY <1>6, <1>t, <2>1, PassiveOps, UnchangedPassive
       DEF Defers, Accepts, CommitsResponse
  <2>3. UNCHANGED <<calls, sends>>
    BY <1>6 DEF Defers, Accepts, CommitsResponse, Outside
  <2>4. CASE disp' = [disp EXCEPT ![d] = Idle]
    BY <2>2, <2>3, <2>4, <1>i, PassiveWorker DEF PreAdmission
  <2>5. CASE Goto(d, "commit")
    BY <2>2, <2>3, <2>5, <1>g, PassiveWorker DEF PreAdmission
  <2> QED BY <1>6, <2>4, <2>5 DEF Defers, Accepts, CommitsResponse, Return
<1>7. CASE ClaimsItem(d)
  (* The claimed item was quiet and is untouched; its new token is nobody's. *)
  <2> PICK u \in Tokens, k \in Items :
        /\ FreshToken(u)
        /\ Claim(k, u)
        /\ disp' = [disp EXCEPT ![d] = [Idle EXCEPT !.pc = "claimed",
                                                    !.item = k, !.token = u]]
    BY <1>7 DEF ClaimsItem
  <2> DEFINE w == [Idle EXCEPT !.pc = "claimed", !.item = k, !.token = u]
  <2>1. /\ \A e \in Dispatchers : disp'[e] = IF e = d THEN w ELSE disp[e]
        /\ w.pc = "claimed" /\ w.item = k /\ w.token = u
    BY <1>h DEF Idle
  <2> HIDE DEF w
  <2>2. /\ row'[k].status = "delivering" /\ row'[k].token = u
        /\ row'[k].admission = "none"
        /\ \A j \in Items : j # k => row'[j] = row[j]
    BY <1>t DEF Claim, Write, StoreTypeOK, RowType
  <2>3. Quiet(k)
    BY DEF Claim, Claimable, Quiet
  <2>4. UNCHANGED <<calls, sends>> /\ \A j \in Items : Untouched(j)' <=> Untouched(j)
    BY <1>7 DEF ClaimsItem, Outside, Untouched
  <2>5. \A e \in Dispatchers : disp[e].token # u
    BY DEF FreshToken
  <2>6. QuietIsUntouched' /\ SentAndGone' /\ OneRequestPerItem'
    BY <2>2, <2>3, <2>4 DEF AdmissionIInv, AdmissionInv, QuietIsUntouched,
       SentAndGone, OneRequestPerItem, Quiet
  <2>7. TokensDiffer'
    BY <2>1, <2>5 DEF AdmissionIInv, AdmissionInv, TokensDiffer
  <2>8. HoldsBeforeAdmission'
    BY <1>h, <2>1, <2>2, <2>5 DEF AdmissionIInv, AdmissionInv,
       HoldsBeforeAdmission, PreAdmission, Claiming, Holds
  <2>9. RefusalIsDefinitive'
    BY <1>h, <2>1, <2>2, <2>4, <2>5 DEF AdmissionIInv, AdmissionInv,
       RefusalIsDefinitive, Claiming, Holds
  <2> QED BY <2>6, <2>7, <2>8, <2>9 DEF AdmissionInv
<1>8. CASE Begins(d)
  (* Nobody else holds this row, and nothing of the item is on its way.      *)
  <2> DEFINE c == [item |-> i, token |-> t, stage |-> "posted", mode |-> "turn"]
  <2>1. i \in Items /\ t \in Tokens /\ Holds(i, t) /\ row[i].admission = "none"
    BY <1>8, <1>h DEF Begins, Claiming, BeginAdmission, CanBeginAdmission
  <2>2. calls' = calls \cup {c} /\ sends' = sends
    BY <1>8 DEF Begins
  <2>3. c.item = i
    OBVIOUS
  <2> HIDE DEF c
  <2>4. /\ row'[i].status = "delivering" /\ row'[i].token = t
        /\ row'[i].admission = "started"
        /\ \A j \in Items : j # i => row'[j] = row[j]
    BY <1>8, <1>t, <2>1 DEF Begins, BeginAdmission, Write, StoreTypeOK, RowType,
       Holds
  <2>5. Untouched(i)
    BY <2>1 DEF AdmissionIInv, AdmissionInv, QuietIsUntouched, Quiet, Holds
  <2>6. \A j \in Items : j # i => (Untouched(j)' <=> Untouched(j))
    BY <2>2, <2>3 DEF Untouched
  <2> PICK w : /\ disp' = [disp EXCEPT ![d] = w]
               /\ w.item = i /\ w.token = t /\ w.pc = "wait"
    BY <1>8, <1>g DEF Begins
  <2>7. \A e \in Dispatchers : disp'[e] = IF e = d THEN w ELSE disp[e]
    BY <1>h
  <2>8. \A e \in Dispatchers : e # d => disp[e].token # t
    BY <2>1, TokensAssumption DEF AdmissionIInv, AdmissionInv, TokensDiffer
  <2>9. QuietIsUntouched'
    BY <2>4, <2>6 DEF AdmissionIInv, AdmissionInv, QuietIsUntouched, Quiet, NotRows
  <2>10. SentAndGone' /\ OneRequestPerItem'
    BY <2>2, <2>3, <2>5 DEF AdmissionIInv, AdmissionInv, SentAndGone,
       OneRequestPerItem, Untouched
  <2>11. TokensDiffer'
    BY <2>7 DEF AdmissionIInv, AdmissionInv, TokensDiffer
  <2>12. HoldsBeforeAdmission'
    BY <1>h, <2>4, <2>7, <2>8 DEF AdmissionIInv, AdmissionInv,
       HoldsBeforeAdmission, PreAdmission, Claiming, Holds
  <2>13. RefusalIsDefinitive'
    BY <1>h, <2>4, <2>6, <2>7, <2>8 DEF AdmissionIInv, AdmissionInv,
       RefusalIsDefinitive, Claiming, Holds
  <2> QED BY <2>9, <2>10, <2>11, <2>12, <2>13 DEF AdmissionInv
<1>9. ASSUME i \in Items, t \in Tokens, Holds(i, t), Untouched(i),
             Fail(i, t) \/ DeferRejectedAdmission(i, t),
             Return(d), UNCHANGED Outside
      PROVE  AdmissionInv'
  (* An untouched item goes back: failed, or queued.                         *)
  <2>1. /\ row'[i].status \in {"failed", "queued"}
        /\ \A j \in Items : j # i => row'[j] = row[j]
    <3>1. row[i] \in RowType
      BY <1>9, <1>t DEF StoreTypeOK
    <3>2. /\ Unclaimed(row[i], "failed").status = "failed"
          /\ Requeued(row[i]).status = "queued"
      BY <3>1 DEF Requeued, Unclaimed, RowType
    <3>3. \/ Write(i, Unclaimed(row[i], "failed")) \/ Write(i, Requeued(row[i]))
      BY <1>9 DEF Fail, ClaimedTransition, DeferRejectedAdmission
    <3>4. DOMAIN row = Items
      BY <1>t DEF StoreTypeOK
    <3> QED BY <1>9, <3>2, <3>3, <3>4 DEF Write
  <2>2. \A e \in Dispatchers : disp'[e] = IF e = d THEN Idle ELSE disp[e]
    BY <1>9, <1>h DEF Return
  <2>3. UNCHANGED <<calls, sends>> /\ \A j \in Items : Untouched(j)' <=> Untouched(j)
    BY <1>9 DEF Outside, Untouched
  <2>4. QuietIsUntouched' /\ SentAndGone' /\ OneRequestPerItem'
    BY <1>9, <2>1, <2>3 DEF AdmissionIInv, AdmissionInv, QuietIsUntouched,
       SentAndGone, OneRequestPerItem, Quiet
  <2>5. TokensDiffer'
    BY <2>2, <1>i DEF AdmissionIInv, AdmissionInv, TokensDiffer
  <2>6. HoldsBeforeAdmission'
    BY <1>h, <1>i, <2>1, <2>2 DEF AdmissionIInv, AdmissionInv,
       HoldsBeforeAdmission, PreAdmission, Claiming, Holds
  <2>7. RefusalIsDefinitive'
    BY <1>h, <1>i, <2>1, <2>2, <2>3 DEF AdmissionIInv, AdmissionInv,
       RefusalIsDefinitive, Claiming, Holds
  <2> QED BY <2>4, <2>5, <2>6, <2>7 DEF AdmissionInv
<1>10. CASE FailsTerminal(d)
  <2>1. i \in Items /\ t \in Tokens /\ disp[d].pc = "fail"
    BY <1>10, <1>h DEF FailsTerminal, Claiming
  <2>2. CASE Holds(i, t)
    <3>1. Untouched(i)
      BY <2>1, <2>2 DEF AdmissionIInv, AdmissionInv, HoldsBeforeAdmission,
         PreAdmission, QuietIsUntouched, Quiet, Holds
    <3> QED BY <1>10, <2>1, <2>2, <3>1, <1>9 DEF FailsTerminal
  <2>3. CASE ~ Holds(i, t)
    <3>1. Passive /\ disp' = [disp EXCEPT ![d] = Idle] /\ UNCHANGED <<calls, sends>>
      BY <1>10, <2>3, UnchangedPassive DEF FailsTerminal, Fail, ClaimedTransition,
         Return, Outside
    <3> QED BY <3>1, <1>i, PassiveWorker DEF PreAdmission
  <2> QED BY <2>2, <2>3
<1>11. CASE Catches(d)
  <2>1. i \in Items /\ t \in Tokens /\ disp[d].pc = "catch"
    BY <1>11, <1>h DEF Catches, Claiming
  <2>2. Return(d) /\ UNCHANGED Outside
    BY <1>11 DEF Catches
  <2>3. CASE Holds(i, t) /\ disp[d].out \in {"rejected", "busy"}
    <3>1. Untouched(i)
      BY <2>1, <2>3 DEF AdmissionIInv, AdmissionInv, RefusalIsDefinitive
    <3>2. Fail(i, t) \/ DeferRejectedAdmission(i, t)
      BY <1>11, <2>3 DEF Catches, CatchTransition
    <3> QED BY <2>1, <2>2, <2>3, <3>1, <3>2, <1>9
  <2>4. CASE ~ (Holds(i, t) /\ disp[d].out \in {"rejected", "busy"})
    <3>1. MarkSubmissionAmbiguous(i, t) \/ UNCHANGED storeVars
      BY <1>11, <2>4 DEF Catches, CatchTransition
    <3>2. Passive
      BY <1>t, <2>1, <3>1, PassiveOps, UnchangedPassive
    <3>3. disp' = [disp EXCEPT ![d] = Idle] /\ UNCHANGED <<calls, sends>>
      BY <2>2 DEF Return, Outside
    <3> QED BY <3>2, <3>3, <1>i, PassiveWorker DEF PreAdmission
  <2> QED BY <2>3, <2>4
<1> QED
  BY <1>1, <1>2, <1>3, <1>4, <1>5, <1>6, <1>7, <1>8, <1>10, <1>11
     DEF DispatcherStep

(* The route's steps: a request leaves calls when it is answered, and only   *)
(* an admission touches its item.                                            *)
LEMMA AdmissionRoute ==
    ASSUME AdmissionIInv, NEW c \in calls, RouteStep(c) \/ CallLost(c)
    PROVE  AdmissionInv'
<1>h. /\ disp \in [Dispatchers -> DispatcherType]
      /\ \A e \in Dispatchers : disp[e].pc \notin Claiming =>
            disp[e].item \in Items /\ disp[e].token \in Tokens
      /\ calls \subseteq CallType /\ sends \in [Items -> Nat]
  BY DEF AdmissionIInv, TypeInv, TypeOK, DispOK
<1>c. /\ c.item \in Items /\ sends[c.item] = 0
      /\ \A e \in calls : e.item = c.item => e = c
  BY <1>h DEF CallType, AdmissionIInv, AdmissionInv, SentAndGone, OneRequestPerItem
<1>q. ~ Quiet(c.item)
  BY <1>c DEF AdmissionIInv, AdmissionInv, QuietIsUntouched, Untouched
<1>r. row' = row
  BY DEF RouteStep, CallLost, RouteAdmits, RouteBusy, RouteRejects, storeVars,
     RouteInspectionTimesOut, RouteSends, RouteSessionNotActive, RouteSendUnknown
<1>s. \/ sends' = sends
      \/ sends' = [sends EXCEPT ![c.item] = @ + 1] /\ calls' = calls \ {c}
  BY DEF RouteStep, CallLost, RouteAdmits, RouteBusy, RouteRejects, EnterInbox,
     RouteInspectionTimesOut, RouteSends, RouteSessionNotActive, RouteSendUnknown
<1>k. \E e : e.item = c.item /\ calls' \subseteq (calls \ {c}) \cup {e}
  <2>1. CASE RouteAdmits(c)
    <3> DEFINE e == [c EXCEPT !.stage = "checked",
                              !.mode = IF sess[pay[c.item].sess].phase = "running"
                                       THEN "steer" ELSE "turn"]
    <3>1. e.item = c.item
      BY <1>h DEF CallType
    <3> QED BY <2>1, <3>1 DEF RouteAdmits
  <2>2. CASE calls' = calls \ {c}
    BY <2>2
  <2> QED BY <2>1, <2>2 DEF RouteStep, CallLost, RouteBusy, RouteRejects,
             RouteInspectionTimesOut, RouteSends, RouteSessionNotActive,
             RouteSendUnknown
<1>a. \A d \in Dispatchers :
        /\ disp'[d].item = disp[d].item /\ disp'[d].token = disp[d].token
        /\ \/ disp'[d] = disp[d]
           \/ /\ disp[d].pc = "wait" /\ disp[d].item = c.item
              /\ disp'[d].pc \in {"catch", "accept"}
              /\ disp'[d].pc = "catch" /\ disp'[d].out \in {"rejected", "busy"}
                   => calls' = calls \ {c} /\ sends' = sends
  <2>1. CASE UNCHANGED disp
    BY <2>1
  <2>2. ASSUME NEW pc \in {"catch", "accept"}, NEW out, Answer(c, pc, out),
               pc = "catch" /\ out \in {"rejected", "busy"}
                 => calls' = calls \ {c} /\ sends' = sends
        PROVE  <1>a!:
    <3> SUFFICES ASSUME NEW d \in Dispatchers
                 PROVE  /\ disp'[d].item = disp[d].item /\ disp'[d].token = disp[d].token
                        /\ \/ disp'[d] = disp[d]
                           \/ /\ disp[d].pc = "wait" /\ disp[d].item = c.item
                              /\ disp'[d].pc = pc /\ disp'[d].out = out
      BY <2>2
    <3>1. disp[d] \in DispatcherType
      BY <1>h
    <3>2. \/ disp'[d] = disp[d]
          \/ /\ disp[d].pc = "wait" /\ disp[d].item = c.item
             /\ disp'[d] = [disp[d] EXCEPT !.pc = pc, !.out = out]
      BY <2>2 DEF Answer
    <3> QED BY <3>1, <3>2 DEF DispatcherType
  <2>3. CASE RouteAdmits(c) \/ CallLost(c)
    BY <2>1, <2>3 DEF RouteAdmits, CallLost
  <2>4. CASE RouteBusy(c)
    BY <2>2, <2>4 DEF RouteBusy
  <2>5. CASE RouteRejects(c) \/ RouteSessionNotActive(c)
    BY <2>2, <2>5 DEF RouteRejects, RouteSessionNotActive
  <2>6. CASE RouteInspectionTimesOut(c) \/ RouteSendUnknown(c)
    BY <2>2, <2>6 DEF RouteInspectionTimesOut, RouteSendUnknown
  <2>7. CASE RouteSends(c)
    BY <2>2, <2>7 DEF RouteSends
  <2> QED BY <2>3, <2>4, <2>5, <2>6, <2>7 DEF RouteStep
<1>1. \A j \in Items : Untouched(j) => Untouched(j)'
  <2> SUFFICES ASSUME NEW j \in Items, Untouched(j)
               PROVE  sends'[j] = 0 /\ \A x \in calls' : x.item # j
    BY DEF Untouched
  <2>1. j # c.item
    BY DEF Untouched
  <2>2. sends'[j] = 0
    BY <1>h, <1>s, <2>1 DEF Untouched
  <2>3. \A x \in calls' : x \in calls \/ x.item = c.item
    BY <1>k
  <2> QED BY <2>1, <2>2, <2>3 DEF Untouched
<1>2. QuietIsUntouched'
  BY <1>1, <1>r DEF AdmissionIInv, AdmissionInv, QuietIsUntouched, Quiet
<1>3. OneRequestPerItem'
  BY <1>c, <1>k DEF AdmissionIInv, AdmissionInv, OneRequestPerItem
<1>4. SentAndGone'
  BY <1>c, <1>h, <1>s, <1>k DEF AdmissionIInv, AdmissionInv, SentAndGone
<1>5. TokensDiffer'
  BY <1>a DEF AdmissionIInv, AdmissionInv, TokensDiffer
<1>6. HoldsBeforeAdmission'
  BY <1>a, <1>r DEF AdmissionIInv, AdmissionInv, HoldsBeforeAdmission,
     PreAdmission, Holds
<1>7. RefusalIsDefinitive'
  BY <1>a, <1>c, <1>h, <1>r, <1>1 DEF AdmissionIInv, AdmissionInv, Claiming,
     RefusalIsDefinitive, Holds, Untouched
<1> QED BY <1>2, <1>3, <1>4, <1>5, <1>6, <1>7 DEF AdmissionInv

(* The session's steps touch the table only through the receipt hook and the *)
(* edit gate, and leave workers and requests alone.                          *)
LEMMA AdmissionSession ==
    ASSUME AdmissionIInv, NEW s \in Sessions, SessionStep(s)
    PROVE  AdmissionInv'
<1>t. StoreTypeOK
  BY DEF AdmissionIInv, TypeInv, TypeOK
<1>1. UNCHANGED <<disp, calls, sends>>
  BY DEF SessionStep, EditConsumed, EditDropped, StepReplayed, StartsTurn,
     SteersTurn, TakesHead, ResumesTurn, HookCommits, HookGivesUp, TurnSettles,
     SessionEnds, Dispatching
<1>2. \/ UNCHANGED storeVars
      \/ \E i \in Items : Commit(i) \/ ConsumeEdit(i)
  <2>1. sess[s].receipt \in Items \cup {NoItem}
    BY DEF AdmissionIInv, TypeInv, TypeOK, SessionType
  <2>2. inbox[s] # <<>> => Head(inbox[s]).item \in Items
    <3>1. inbox[s] \in Seq(MessageType)
      BY DEF AdmissionIInv, TypeInv, TypeOK
    <3>2. inbox[s] # <<>> => Head(inbox[s]) \in MessageType
      BY <3>1, HeadTailProperties
    <3> QED BY <3>2 DEF MessageType
  <2> QED BY <2>1, <2>2 DEF SessionStep, EditConsumed, EditDropped, StepReplayed,
             StartsTurn, SteersTurn, TakesHead, ResumesTurn, HookCommits,
             HookGivesUp, TurnSettles, SessionEnds, HeadIs
<1>3. Passive
  BY <1>t, <1>2, PassiveOps, UnchangedPassive
<1> QED BY <1>1, <1>3, PassiveElsewhere

(* The at-most-once invariant holds initially: nothing has been sent.       *)
LEMMA AdmissionInit == Init => AdmissionInv
<1> SUFFICES ASSUME Init PROVE AdmissionInv
  OBVIOUS
<1>1. /\ calls = {}
      /\ \A i \in Items : sends[i] = 0
      /\ \A d \in Dispatchers : disp[d].pc = "idle" /\ disp[d].token = NoToken
  BY DEF Init, Idle
<1> QED BY <1>1 DEF AdmissionInv, QuietIsUntouched, Untouched, SentAndGone,
           OneRequestPerItem, TokensDiffer, HoldsBeforeAdmission, PreAdmission,
           RefusalIsDefinitive

(* The at-most-once invariant is kept by every step: passive steps by one   *)
(* argument, the dispatcher's claim, admission and refusal steps each by its own.*)
LEMMA AdmissionStep ==
    ASSUME AdmissionIInv, [Next]_vars
    PROVE  AdmissionInv'
<1>t. StoreTypeOK
  BY DEF AdmissionIInv, TypeInv, TypeOK
<1>1. ASSUME NEW i \in Items, ClientStep(i) \/ LeaseEnds(i) \/ ClockStep(i)
      PROVE  AdmissionInv'
  <2>1. Passive
    BY <1>1, <1>t, PassiveOps DEF ClientStep, LeaseEnds, ClockStep
  <2>2. UNCHANGED <<disp, calls, sends>>
    BY <1>1 DEF ClientStep, LeaseEnds, ClockStep
  <2> QED BY <2>1, <2>2, PassiveElsewhere
<1>2. CASE UNCHANGED vars
  <2>1. Passive /\ UNCHANGED <<disp, calls, sends>>
    BY <1>2, UnchangedPassive DEF vars, storeVars
  <2> QED BY <2>1, PassiveElsewhere
<1> QED
  BY <1>1, <1>2, AdmissionWorker, AdmissionRoute, AdmissionSession DEF Next

(* For any number of workers, items, sessions and faults, no item enters its *)
(* session's inbox twice: lease takeover, the owner's retry, the deferral of *)
(* a refused delivery and late requests of dead workers included.            *)
THEOREM AtMostOnce == Spec => []AtMostOnceAdmission
<1>1. AdmissionIInv => AtMostOnceAdmission
  BY DEF AdmissionIInv, AdmissionInv, SentAndGone, AtMostOnceAdmission
<1>2. Init => AdmissionIInv
  BY InitType, AdmissionInit DEF AdmissionIInv
<1>3. AdmissionIInv /\ [Next]_vars => AdmissionIInv'
  BY TypeStep, AdmissionStep DEF AdmissionIInv
<1> QED BY <1>1, <1>2, <1>3, PTL DEF Spec

(* What the table promises on its own, it promises inside the whole system:  *)
(* items are leased in the order in which they were queued.                  *)
THEOREM SystemLeaseOrder == Spec => []LeasedInOrder
BY RefinesStore, LeaseOrder, PTL

(* Committed and cancelled items stay so whatever workers, routes and         *)
(* sessions do.                                                               *)
THEOREM SystemFinality == Spec => SettledForever
BY RefinesStore, Finality, PTL

-----------------------------------------------------------------------------
(* Receipts: the inductive invariant behind ReceivedIsFinal, CommitHasProof *)
(* and ReceiptsInOrder. *)

(* Only a whole-turn edit is recorded with the guard.                       *)
GuardsAreEdits ==
    \A i \in Items : row[i].guard = "edit-v1" => pay[i].kind = "edit"

(* An item that is cancelled after it may have been sent is an expired edit *)
(* with the guard: its session will drop it.                                *)
WithdrawnIsGuarded ==
    \A i \in Items : row[i].status = "cancelled" /\ ~ Untouched(i) => row[i].guard = "edit-v1"

(* What was queued before an item had settled when the item's admission     *)
(* began.                                                                   *)
BegunInOrder ==
    \A i \in Items : ~ Untouched(i) =>
        \A j \in prior[i] : j < i /\ pay[j].sess = pay[i].sess => row[j].status \in Settled

(* A worker that was told of an admission accepts a sent item, and commits  *)
(* structured answers only.                                                 *)
AcceptsTheSent ==
    \A d \in Dispatchers :
        /\ disp[d].pc \in {"accept", "commit"} => sends[disp[d].item] = 1
        /\ disp[d].pc = "commit" => pay[disp[d].item].kind = "respond"

InboxIsSent ==
    \A s \in Sessions : \A n \in DOMAIN inbox[s] :
        sends[inbox[s][n].item] = 1 /\ pay[inbox[s][n].item].sess = s

(* The rewind of a guarded edit is committed before the session takes it.   *)
GateIsCommitted ==
    \A s \in Sessions : sess[s].gate = "open" =>
        /\ inbox[s] # <<>>
        /\ pay[Head(inbox[s]).item].kind = "edit"
        /\ row[Head(inbox[s]).item].guard = "edit-v1" =>
              row[Head(inbox[s]).item].status = "committed"

ReceivedIsSent ==
    \A s \in Sessions : \A i \in ReceivedItems(s) :
        /\ sends[i] = 1 /\ pay[i].sess = s
        /\ row[i].status \in Deliverable
        /\ row[i].guard = "edit-v1" => row[i].status = "committed"

ReceiptIsReceived ==
    \A s \in Sessions : sess[s].receipt # NoItem => sess[s].receipt \in ReceivedItems(s)

(* Item j, behind i in its session's line, was not queued before i, unless  *)
(* the session is going to drop it.                                         *)
MayFollow(j, i) == j < i /\ j \in prior[i] => row[j].status = "cancelled"

LineInOrder ==
    \A s \in Sessions : \A n \in DOMAIN inbox[s] :
        /\ \A i \in ReceivedItems(s) : MayFollow(inbox[s][n].item, i)
        /\ \A m \in DOMAIN inbox[s] : m < n => MayFollow(inbox[s][n].item, inbox[s][m].item)

ReceiptInv ==
    /\ GuardsAreEdits /\ WithdrawnIsGuarded /\ BegunInOrder /\ AcceptsTheSent
    /\ InboxIsSent /\ GateIsCommitted /\ ReceivedIsSent /\ ReceiptIsReceived
    /\ LineInOrder /\ CommitHasProof /\ ReceiptsInOrder

(* What a step may do to the guard of an item and to an item's place among  *)
(* the cancelled: the guard is recorded when an edit's admission begins; an *)
(* item is cancelled before its admission, or as an edit with the guard.    *)
GuardMove(i) ==
    /\ \/ row'[i].guard = row[i].guard
       \/ Quiet(i) /\ pay[i].kind = "edit" /\ row'[i].guard = "edit-v1"
    /\ row'[i].status = "cancelled" =>
         row[i].status = "cancelled" \/ Quiet(i) \/ row[i].guard = "edit-v1"

NoCommit(i) == row'[i].status = "committed" => row[i].status = "committed"

(* A write to a row that keeps its guard and commits nothing.               *)
LEMMA WriteGuards ==
    ASSUME StoreTypeOK, NEW i \in Items, NEW r, Write(i, r), r.guard = row[i].guard,
           r.status \in {"cancelled", "committed"} => r.status = row[i].status
    PROVE  \A j \in Items : GuardMove(j) /\ NoCommit(j)
<1>1. \A j \in Items : row'[j] = IF j = i THEN r ELSE row[j]
  BY DEF Write, StoreTypeOK
<1> QED BY <1>1 DEF GuardMove, NoCommit

(* The operations of the table that commit nothing.                         *)
LEMMA UncommittedGuards ==
    ASSUME StoreTypeOK, NEW i \in Items, NEW t, NEW g \in {"none", "edit-v1"},
           \/ EnqueueBegin(i) \/ EnqueueRefused(i) \/ EnqueueInserted(i)
           \/ CancelOwned(i) \/ RetryOwned(i)
           \/ LeaseExpires(i) \/ EditDeadlinePasses(i) \/ BecomesAvailable(i)
           \/ Claim(i, t) \/ Defer(i, t) \/ DeferRejectedAdmission(i, t)
           \/ Accept(i, t) \/ Fail(i, t) \/ MarkSubmissionAmbiguous(i, t)
           \/ BeginAdmission(i, t, g)
    PROVE  \A j \in Items : GuardMove(j) /\ NoCommit(j)
<1> USE DEF NotRows, Statuses
<1>r. row[i] \in RowType
  BY DEF StoreTypeOK
<1>u. \A st \in Statuses : /\ Unclaimed(row[i], st).status = st
                           /\ Unclaimed(row[i], st).guard = row[i].guard
  BY <1>r DEF Unclaimed, RowType
<1>1. CASE EnqueueBegin(i) \/ EnqueueRefused(i)
  <2> DEFINE a == [row[i] EXCEPT !.status = "open"]
             b == [row[i] EXCEPT !.status = "refused"]
  <2>1. a.status = "open" /\ b.status = "refused" /\ a.guard = row[i].guard /\ b.guard = row[i].guard
    BY <1>r DEF RowType
  <2>2. Write(i, a) \/ Write(i, b)
    BY <1>1 DEF EnqueueBegin, EnqueueRefused
  <2> HIDE DEF a, b
  <2> QED BY <2>1, <2>2, WriteGuards
<1>2. CASE EnqueueInserted(i)
  <2>1. /\ row'[i].status = "queued" /\ row'[i].guard = row[i].guard
        /\ \A j \in Items : j # i => row'[j] = row[j]
    BY <1>2, <1>r DEF EnqueueInserted, StoreTypeOK, RowType
  <2> QED BY <2>1 DEF GuardMove, NoCommit
<1>3. CASE CancelOwned(i)
  <2> DEFINE a == [Unclaimed(row[i], "cancelled") EXCEPT !.admission = "none"]
  <2>1. a.guard = row[i].guard /\ a.status = "cancelled"
    BY <1>r DEF RowType, Unclaimed
  <2>2. Write(i, a) /\ Quiet(i)
    BY <1>3 DEF CancelOwned, Quiet
  <2> HIDE DEF a
  <2>3. \A j \in Items : row'[j] = IF j = i THEN a ELSE row[j]
    BY <2>2 DEF Write, StoreTypeOK
  <2> QED BY <2>1, <2>2, <2>3 DEF GuardMove, NoCommit
<1>4. CASE RetryOwned(i)
  <2> DEFINE a == [row[i] EXCEPT !.status = "queued", !.avail = "now", !.admission = "none"]
  <2>1. a.guard = row[i].guard /\ a.status = "queued" /\ Write(i, a)
    BY <1>r, <1>4 DEF RowType, RetryOwned
  <2> HIDE DEF a
  <2> QED BY <2>1, WriteGuards
<1>5. CASE LeaseExpires(i) \/ EditDeadlinePasses(i) \/ BecomesAvailable(i)
  <2> DEFINE a == [row[i] EXCEPT !.lease = "expired"]
             b == [row[i] EXCEPT !.admission = "overdue"]
             c == [row[i] EXCEPT !.avail = "now"]
  <2>1. \A r \in {a, b, c} : r.status = row[i].status /\ r.guard = row[i].guard
    BY <1>r DEF RowType
  <2>2. Write(i, a) \/ Write(i, b) \/ Write(i, c)
    BY <1>5 DEF LeaseExpires, EditDeadlinePasses, BecomesAvailable
  <2> HIDE DEF a, b, c
  <2> QED BY <2>1, <2>2, WriteGuards
<1>6. CASE Claim(i, t)
  <2> DEFINE a == [row[i] EXCEPT !.status = "delivering", !.token = t,
                                 !.lease = "live", !.admission = "none"]
  <2>1. a.guard = row[i].guard /\ a.status = "delivering" /\ Write(i, a)
    BY <1>r, <1>6 DEF RowType, Claim
  <2> HIDE DEF a
  <2> QED BY <2>1, WriteGuards
<1>7. CASE Defer(i, t) \/ DeferRejectedAdmission(i, t)
  <2>1. /\ Requeued(row[i]).status = "queued" /\ Requeued(row[i]).guard = row[i].guard
        /\ Write(i, Requeued(row[i]))
    BY <1>r, <1>7 DEF RowType, Requeued, Unclaimed, Defer, DeferRejectedAdmission
  <2> QED BY <2>1, WriteGuards
<1>8. CASE Accept(i, t) \/ Fail(i, t) \/ MarkSubmissionAmbiguous(i, t)
  BY <1>8, <1>u, WriteGuards DEF Accept, Fail, MarkSubmissionAmbiguous, ClaimedTransition
<1>9. CASE BeginAdmission(i, t, g)
  <2> DEFINE edit == g = "edit-v1" /\ pay[i].kind = "edit"
             h == IF edit THEN "edit-v1" ELSE row[i].guard
             a == [row[i] EXCEPT !.admission = "started", !.guard = h]
  <2>1. a.guard = h /\ a.status = row[i].status
    BY <1>r DEF RowType
  <2>2. \A j \in Items : row'[j] = IF j = i THEN a ELSE row[j]
    BY <1>9 DEF BeginAdmission, Write, StoreTypeOK
  <2>3. Quiet(i)
    BY <1>9 DEF BeginAdmission, CanBeginAdmission, Holds, Quiet
  <2> HIDE DEF a
  <2> QED BY <2>1, <2>2, <2>3 DEF GuardMove, NoCommit
<1> QED BY <1>1, <1>2, <1>3, <1>4, <1>5, <1>6, <1>7, <1>8, <1>9

(* The sweeps of claimNext commit nothing.                                  *)
LEMMA SweepGuards ==
    ASSUME StoreTypeOK, ExpireGuardedEdits \/ ReapExpiredLeases \/ UNCHANGED storeVars
    PROVE  \A j \in Items : GuardMove(j) /\ NoCommit(j)
<1> SUFFICES ASSUME NEW j \in Items PROVE GuardMove(j) /\ NoCommit(j)
  OBVIOUS
<1>1. \A st : /\ Unclaimed(row[j], st).status = st
              /\ Unclaimed(row[j], st).guard = row[j].guard
  BY DEF Unclaimed, RowType, StoreTypeOK
<1> QED BY <1>1
    DEF ExpireGuardedEdits, ReapExpiredLeases, storeVars, EditExpired, GuardMove, NoCommit

(* The receipt hook and the edit gate commit one item.                      *)
LEMMA CommitGuards ==
    ASSUME StoreTypeOK, NEW i \in Items, Commit(i) \/ ConsumeEdit(i)
    PROVE  /\ \A j \in Items : GuardMove(j) /\ (j # i => row'[j] = row[j])
           /\ Commit(i) \/ row[i].guard = "edit-v1" => row'[i].status = "committed"
           /\ ~ Commit(i) /\ row[i].guard # "edit-v1" => row' = row
<1>1. /\ Unclaimed(row[i], "committed").status = "committed"
      /\ Unclaimed(row[i], "committed").guard = row[i].guard
  BY DEF StoreTypeOK, RowType, Unclaimed
<1>2. \/ /\ row' = row
         /\ ~ Commit(i) => row[i].guard # "edit-v1"
      \/ Write(i, Unclaimed(row[i], "committed")) /\ (Commit(i) \/ row[i].guard = "edit-v1")
  BY DEF Commit, ConsumeEdit, storeVars
<1>3. CASE Write(i, Unclaimed(row[i], "committed")) /\ (Commit(i) \/ row[i].guard = "edit-v1")
  <2>1. \A j \in Items : row'[j] = IF j = i THEN Unclaimed(row[i], "committed") ELSE row[j]
    BY <1>3 DEF Write, StoreTypeOK
  <2> HIDE DEF Commit
  <2> QED BY <1>1, <1>3, <2>1 DEF GuardMove
<1>4. CASE row' = row /\ ~ Commit(i) /\ row[i].guard # "edit-v1"
  BY <1>4 DEF GuardMove
<1>5. CASE Commit(i)
  BY <1>1, <1>3, <1>5 DEF Commit
<1> QED BY <1>2, <1>3, <1>4, <1>5

ReceiptIInv == TypeInv /\ AdmissionInv /\ LeasedInOrder /\ ReceiptInv

(* A sent item is not open for delivery, so its row only moves among the    *)
(* later states; its guard and its history stand.                           *)
LEMMA BegunRows ==
    ASSUME ReceiptIInv, [StoreNext]_storeVars, \A j \in Items : GuardMove(j),
           NEW i \in Items, ~ Untouched(i)
    PROVE  /\ pay' = pay /\ prior'[i] = prior[i]
           /\ row'[i].guard = row[i].guard
           /\ row[i].status \in Settled => row'[i].status = row[i].status
           /\ row'[i].status = "cancelled" =>
                row[i].status = "cancelled" \/ row[i].guard = "edit-v1"
           /\ \A j \in Items : row[j].status \in Settled => row'[j].status = row[j].status
           /\ prior[i] \subseteq Items
<1>1. ~ Quiet(i)
  BY DEF ReceiptIInv, AdmissionInv, QuietIsUntouched
<1>2. StoreTypeOK
  BY DEF ReceiptIInv, TypeInv, TypeOK
<1>3. \A j \in Items : StatusMove(j)
  BY <1>2, StatusMoves
<1>4. pay' = pay /\ (prior' = prior \/ \E j \in Items : /\ EnqueueInserted(j)
                                                       /\ prior' = [prior EXCEPT ![j] = Inserted])
  BY <1>2, HistoryMoves
<1>5. ASSUME NEW j \in Items, EnqueueInserted(j) PROVE j # i
  BY <1>1, <1>5 DEF EnqueueInserted, Quiet, NotRows
<1>6. prior'[i] = prior[i] /\ prior[i] \subseteq Items
  BY <1>2, <1>4, <1>5 DEF StoreTypeOK
<1> QED BY <1>1, <1>3, <1>4, <1>6 DEF GuardMove, StatusMove

(* The parts about the table: an item that is about to be sent is leased in *)
(* order and not cancelled.                                                 *)
LEMMA BegunStep ==
    ASSUME ReceiptIInv, [StoreNext]_storeVars, \A j \in Items : GuardMove(j),
           \A i \in Items : ~ Untouched(i)' =>
              \/ ~ Untouched(i)
              \/ row[i].status = "delivering" /\ row'[i].status = "delivering" /\ prior' = prior
    PROVE  GuardsAreEdits' /\ WithdrawnIsGuarded' /\ BegunInOrder'
<1>1. StoreTypeOK /\ pay' = pay
  BY HistoryMoves DEF ReceiptIInv, TypeInv, TypeOK
<1>2. GuardsAreEdits'
  BY <1>1 DEF ReceiptIInv, ReceiptInv, GuardsAreEdits, GuardMove
<1>3. WithdrawnIsGuarded'
  <2> SUFFICES ASSUME NEW i \in Items, row'[i].status = "cancelled", ~ Untouched(i)'
               PROVE  row'[i].guard = "edit-v1"
    BY DEF WithdrawnIsGuarded
  <2>1. ~ Untouched(i)
    OBVIOUS
  <2> QED BY <2>1, BegunRows DEF ReceiptIInv, ReceiptInv, WithdrawnIsGuarded
<1>4. BegunInOrder'
  <2> SUFFICES ASSUME NEW i \in Items, ~ Untouched(i)', NEW j \in prior'[i], j < i,
                      pay[j].sess = pay[i].sess
               PROVE  row'[j].status \in Settled
    BY <1>1 DEF BegunInOrder
  <2>1. CASE ~ Untouched(i)
    <3>1. j \in prior[i] /\ j \in Items
      BY <2>1, BegunRows
    <3>2. row[j].status \in Settled
      BY <2>1, <3>1 DEF ReceiptIInv, ReceiptInv, BegunInOrder
    <3> QED BY <2>1, <3>1, <3>2, BegunRows
  <2>2. CASE row[i].status = "delivering" /\ prior' = prior
    <3>1. j \in prior[i] /\ j \in Items
      BY <1>1, <2>2 DEF StoreTypeOK
    <3>2. row[j].status \in Settled
      BY <2>2, <3>1 DEF ReceiptIInv, LeasedInOrder, Deliverable
    <3>3. StatusMove(j)
      BY <1>1, <3>1, StatusMoves
    <3> QED BY <3>2, <3>3 DEF StatusMove
  <2> QED BY <2>1, <2>2
<1> QED BY <1>2, <1>3, <1>4

(* The items of a line are items.                                           *)
LEMMA LineItems ==
    ASSUME TypeOK, NEW s \in Sessions
    PROVE  /\ inbox[s] \in Seq(MessageType) /\ Len(inbox[s]) \in Nat
           /\ DOMAIN inbox[s] = 1..Len(inbox[s])
           /\ \A n \in DOMAIN inbox[s] : inbox[s][n].item \in Items
           /\ Len(received[s]) \in Nat /\ DOMAIN received[s] = 1..Len(received[s])
           /\ \A n \in DOMAIN received[s] : received[s][n].item \in Items
           /\ ReceivedItems(s) \subseteq Items
           /\ inbox[s] # <<>> => 1 \in DOMAIN inbox[s] /\ Head(inbox[s]) = inbox[s][1]
<1>1. inbox[s] \in Seq(MessageType) /\ received[s] \in Seq([item : Items, turn : 0..MaxTurns])
  BY DEF TypeOK
<1>2. \A n \in DOMAIN inbox[s] : inbox[s][n].item \in Items
  <2>1. \A n \in DOMAIN inbox[s] : inbox[s][n] \in MessageType
    BY <1>1, ElementOfSeq
  <2> QED BY <2>1 DEF MessageType
<1>3. \A n \in DOMAIN received[s] : received[s][n].item \in Items
  <2> DEFINE ReceiptType == [item : Items, turn : 0..MaxTurns]
  <2>1. received[s] \in Seq(ReceiptType)
    BY <1>1
  <2> HIDE DEF ReceiptType
  <2>2. \A n \in DOMAIN received[s] : received[s][n] \in ReceiptType
    BY <2>1, ElementOfSeq
  <2> QED BY <2>2 DEF ReceiptType
<1>4. inbox[s] # <<>> => 1 \in DOMAIN inbox[s] /\ Head(inbox[s]) = inbox[s][1]
  BY <1>1
<1> QED BY <1>1, <1>2, <1>3, <1>4 DEF ReceivedItems

(* What was sent and received stands through every step on the rows.        *)
LEMMA ReceivedRows ==
    ASSUME ReceiptIInv, QuietIsUntouched', [StoreNext]_storeVars,
           \A j \in Items : GuardMove(j), NEW s \in Sessions, NEW i \in ReceivedItems(s),
           sends'[i] = 1
    PROVE  /\ row'[i].status \in Deliverable
           /\ row'[i].guard = "edit-v1" => row'[i].status = "committed"
<1>1. i \in Items /\ ~ Untouched(i) /\ ~ Untouched(i)'
  BY LineItems DEF ReceiptIInv, ReceiptInv, ReceivedIsSent, Untouched, TypeInv
<1>2. /\ row[i].status \in Deliverable
      /\ row[i].guard = "edit-v1" => row[i].status = "committed"
  BY DEF ReceiptIInv, ReceiptInv, ReceivedIsSent
<1>3. row'[i].guard = "edit-v1" => row'[i].status = "committed"
  BY <1>1, <1>2, BegunRows DEF Settled
<1>4. row'[i].status # "cancelled"
  BY <1>1, <1>2, <1>3, BegunRows DEF Deliverable
<1>5. ~ Quiet(i)'
  BY <1>1 DEF QuietIsUntouched
<1>6. row'[i].status \in Statuses
  <2>1. StatusMove(i)
    BY <1>1, StatusMoves DEF ReceiptIInv, TypeInv, TypeOK
  <2> QED BY <1>2, <2>1 DEF StatusMove, Deliverable, Statuses
<1> QED BY <1>3, <1>4, <1>5, <1>6 DEF Quiet, Deliverable, Statuses

(* What may follow an item in the inbox may follow it after any step.       *)
LEMMA FollowsStill ==
    ASSUME ReceiptIInv, [StoreNext]_storeVars, \A j \in Items : GuardMove(j),
           NEW i \in Items, ~ Untouched(i), NEW j \in Items, MayFollow(j, i)
    PROVE  MayFollow(j, i)'
BY BegunRows DEF MayFollow, Settled

(* The gate opens for a guarded edit that the same step commits.            *)
OpensGate(s) ==
    /\ inbox[s] # <<>>
    /\ pay[Head(inbox[s]).item].kind = "edit"
    /\ row'[Head(inbox[s]).item].guard = "edit-v1" =>
          row'[Head(inbox[s]).item].status = "committed"

(* The parts about the sessions while no message moves.                     *)
LEMMA LinesStand ==
    ASSUME ReceiptIInv, QuietIsUntouched', [StoreNext]_storeVars,
           \A j \in Items : GuardMove(j), UNCHANGED <<inbox, received, sends>>,
           \A s \in Sessions :
              /\ sess'[s].gate = "open" => sess[s].gate = "open" \/ OpensGate(s)
              /\ sess'[s].receipt # NoItem => sess'[s].receipt = sess[s].receipt
    PROVE  InboxIsSent' /\ GateIsCommitted' /\ ReceivedIsSent' /\ ReceiptIsReceived'
           /\ LineInOrder' /\ ReceiptsInOrder'
<1> USE DEF ReceiptIInv, ReceiptInv
<1>1. \A s \in Sessions : ReceivedItems(s)' = ReceivedItems(s)
  BY DEF ReceivedItems
<1>2. pay' = pay
  BY HistoryMoves DEF TypeInv, TypeOK
<1>3. ASSUME NEW s \in Sessions, NEW n \in DOMAIN inbox[s]
      PROVE  inbox[s][n].item \in Items /\ ~ Untouched(inbox[s][n].item)
  BY LineItems DEF TypeInv, InboxIsSent, Untouched
<1>4. ASSUME NEW s \in Sessions, NEW i \in ReceivedItems(s)
      PROVE  i \in Items /\ ~ Untouched(i)
  BY LineItems DEF TypeInv, ReceivedIsSent, Untouched
<1>5. InboxIsSent' /\ ReceiptIsReceived'
  BY <1>1, <1>2 DEF InboxIsSent, ReceiptIsReceived
<1>6. ReceivedIsSent'
  BY <1>1, <1>2, ReceivedRows DEF ReceivedIsSent
<1>7. GateIsCommitted'
  <2> SUFFICES ASSUME NEW s \in Sessions, sess[s].gate = "open" PROVE OpensGate(s)
    BY <1>2 DEF GateIsCommitted, OpensGate
  <2>1. inbox[s] # <<>> /\ 1 \in DOMAIN inbox[s] /\ Head(inbox[s]) = inbox[s][1]
    BY LineItems DEF TypeInv, GateIsCommitted
  <2>2. inbox[s][1].item \in Items /\ ~ Untouched(inbox[s][1].item)
    BY <1>3, <2>1
  <2> QED BY <2>1, <2>2, BegunRows DEF GateIsCommitted, OpensGate, Settled
<1>8. LineInOrder'
  BY <1>1, <1>3, <1>4, FollowsStill DEF LineInOrder
<1>9. ReceiptsInOrder'
  <2> SUFFICES ASSUME NEW s \in Sessions, NEW m \in DOMAIN received[s], NEW n \in DOMAIN received[s],
                      m < n, received[s][n].item < received[s][m].item
               PROVE  received[s][n].item \notin prior'[received[s][m].item]
    BY DEF ReceiptsInOrder
  <2>1. received[s][m].item \in ReceivedItems(s)
    BY DEF ReceivedItems
  <2> QED BY <1>4, <2>1, BegunRows DEF ReceiptsInOrder
<1> QED BY <1>5, <1>6, <1>7, <1>8, <1>9

(* Committed items keep their proof as long as nothing is committed.        *)
LEMMA ProofsStand ==
    ASSUME ReceiptIInv, [StoreNext]_storeVars, \A j \in Items : GuardMove(j),
           NEW i \in Items, row[i].status = "committed",
           sends[i] = 1 => sends'[i] = 1,
           \A s \in Sessions : ReceivedItems(s) \subseteq ReceivedItems(s)'
    PROVE  /\ sends'[i] = 1
           /\ \/ i \in ReceivedItems(pay[i].sess)'
              \/ pay[i].kind = "respond"
              \/ row'[i].guard = "edit-v1"
<1>1. /\ sends[i] = 1
      /\ i \in ReceivedItems(pay[i].sess) \/ pay[i].kind = "respond" \/ row[i].guard = "edit-v1"
  BY DEF ReceiptIInv, ReceiptInv, CommitHasProof
<1>2. ~ Untouched(i) /\ pay[i].sess \in Sessions
  BY <1>1 DEF Untouched, ReceiptIInv, TypeInv, TypeOK, StoreTypeOK, PayloadType
<1> QED BY <1>1, <1>2, BegunRows

(* A worker gets to accept only through the route's answer, and to commit   *)
(* from there with a structured answer.                                     *)
LEMMA WorkerAccepts ==
    ASSUME TypeInv, NEW d \in Dispatchers, DispatcherStep(d) \/ Crashes(d)
    PROVE  \A e \in Dispatchers :
              /\ disp'[e].pc \in {"accept", "commit"} =>
                    disp[e].pc \in {"accept", "commit"} /\ disp'[e].item = disp[e].item
              /\ disp'[e].pc = "commit" =>
                    disp[e].pc = "commit" \/ pay[disp[e].item].kind = "respond"
<1> DEFINE Goal(e) ==
              /\ disp'[e].pc \in {"accept", "commit"} =>
                    disp[e].pc \in {"accept", "commit"} /\ disp'[e].item = disp[e].item
              /\ disp'[e].pc = "commit" =>
                    disp[e].pc = "commit" \/ pay[disp[e].item].kind = "respond"
<1>h. disp \in [Dispatchers -> DispatcherType]
  BY DEF TypeInv, DispOK
<1>1. ASSUME NEW w, disp' = [disp EXCEPT ![d] = w], w.pc \notin {"accept", "commit"}
      PROVE  \A e \in Dispatchers : Goal(e)
  BY <1>1, <1>h
<1>2. CASE Return(d)
  <2>1. Idle.pc \notin {"accept", "commit"}
    BY DEF Idle
  <2> QED BY <1>1, <1>2, <2>1 DEF Return
<1>3. ASSUME NEW pc \in {"expired", "reaped", "defer", "fail", "wait", "commit"}, Goto(d, pc),
             pc = "commit" => disp[d].pc = "accept" /\ pay[disp[d].item].kind = "respond"
      PROVE  \A e \in Dispatchers : Goal(e)
  <2> DEFINE w == [disp[d] EXCEPT !.pc = pc]
  <2>1. w.pc = pc /\ w.item = disp[d].item /\ disp' = [disp EXCEPT ![d] = w]
    BY <1>3, <1>h DEF Goto, DispatcherType
  <2> HIDE DEF w
  <2> QED BY <1>3, <1>h, <2>1
<1>4. ASSUME NEW out, Raise(d, out)
      PROVE  \A e \in Dispatchers : Goal(e)
  <2> DEFINE w == [disp[d] EXCEPT !.pc = "catch", !.out = out]
  <2>1. w.pc = "catch" /\ disp' = [disp EXCEPT ![d] = w]
    BY <1>4, <1>h DEF Raise, DispatcherType
  <2> HIDE DEF w
  <2> QED BY <1>1, <2>1
<1>5. CASE ClaimsItem(d)
  <2> PICK u \in Tokens, k \in Items :
        disp' = [disp EXCEPT ![d] = [Idle EXCEPT !.pc = "claimed", !.item = k, !.token = u]]
    BY <1>5 DEF ClaimsItem
  <2> DEFINE w == [Idle EXCEPT !.pc = "claimed", !.item = k, !.token = u]
  <2>1. w.pc = "claimed" /\ disp' = [disp EXCEPT ![d] = w]
    BY DEF Idle
  <2> HIDE DEF w
  <2> QED BY <1>1, <2>1
<1>6. CASE InspectAdmits(d)
  <2> PICK g \in GuardModes : disp' = [disp EXCEPT ![d].pc = "begin", ![d].guard = g]
    BY <1>6 DEF InspectAdmits
  <2> DEFINE w == [disp[d] EXCEPT !.pc = "begin", !.guard = g]
  <2>1. w.pc = "begin" /\ disp' = [disp EXCEPT ![d] = w]
    BY <1>h DEF DispatcherType
  <2> HIDE DEF w
  <2> QED BY <1>1, <2>1
<1>7. CASE Accepts(d)
  BY <1>2, <1>3, <1>7 DEF Accepts
<1>8. CASE ClaimExpires(d) \/ ClaimReaps(d) \/ InspectFindsTerminal(d) \/ InspectDefers(d) \/ Begins(d)
  BY <1>3, <1>8 DEF ClaimExpires, ClaimReaps, InspectFindsTerminal, InspectDefers, Begins
<1>9. CASE BeginThrows(d) \/ CallTimesOut(d) \/ AcceptThrows(d)
  BY <1>4, <1>9 DEF BeginThrows, CallTimesOut, AcceptThrows
<1>10. CASE \/ ClaimsNothing(d) \/ Defers(d) \/ FailsTerminal(d) \/ CommitsResponse(d)
            \/ Catches(d) \/ Crashes(d)
  BY <1>2, <1>10 DEF ClaimsNothing, Defers, FailsTerminal, CommitsResponse, Catches, Crashes
<1> QED BY <1>5, <1>6, <1>7, <1>8, <1>9, <1>10 DEF DispatcherStep

(* A worker's operation on the table commits only a structured answer.      *)
LEMMA WorkerRows ==
    ASSUME TypeInv, NEW d \in Dispatchers, DispatcherStep(d) \/ Crashes(d)
    PROVE  /\ \A j \in Items : GuardMove(j)
           /\ \A j \in Items : NoCommit(j) \/ (disp[d].pc = "commit" /\ j = disp[d].item)
<1>h. disp[d].pc \notin Claiming => disp[d].item \in Items /\ disp[d].token \in Tokens
  BY DEF TypeInv, DispOK
<1>t. StoreTypeOK
  BY DEF TypeInv, TypeOK
<1>1. CASE ClaimExpires(d) \/ ClaimReaps(d)
  BY <1>1, <1>t, SweepGuards DEF ClaimExpires, ClaimReaps
<1>2. CASE ClaimsItem(d)
  BY <1>2, <1>t, UncommittedGuards DEF ClaimsItem
<1>3. CASE \/ ClaimsNothing(d) \/ InspectAdmits(d) \/ InspectFindsTerminal(d)
           \/ InspectDefers(d) \/ BeginThrows(d) \/ CallTimesOut(d)
           \/ AcceptThrows(d) \/ Crashes(d)
  <2>1. UNCHANGED storeVars
    BY <1>3 DEF ClaimsNothing, InspectAdmits, InspectFindsTerminal, InspectDefers,
       BeginThrows, CallTimesOut, AcceptThrows, Crashes
  <2> QED BY <2>1, <1>t, SweepGuards
<1>4. CASE Defers(d) \/ FailsTerminal(d) \/ Accepts(d) \/ Catches(d) \/ Begins(d)
  <2>1. disp[d].item \in Items /\ disp[d].token \in Tokens /\ disp[d].guard \in {"none", "edit-v1"}
    BY <1>4, <1>h DEF Defers, FailsTerminal, Accepts, Catches, Begins, Claiming, TypeInv,
       DispOK, DispatcherType
  <2>2. \/ UNCHANGED storeVars
        \/ Defer(disp[d].item, disp[d].token) \/ Fail(disp[d].item, disp[d].token)
        \/ Accept(disp[d].item, disp[d].token)
        \/ DeferRejectedAdmission(disp[d].item, disp[d].token)
        \/ MarkSubmissionAmbiguous(disp[d].item, disp[d].token)
        \/ BeginAdmission(disp[d].item, disp[d].token, disp[d].guard)
    BY <1>4 DEF Defers, FailsTerminal, Accepts, Catches, CatchTransition, Begins
  <2> QED BY <2>1, <2>2, <1>t, UncommittedGuards, SweepGuards
<1>5. CASE CommitsResponse(d)
  <2>1. disp[d].item \in Items /\ disp[d].pc = "commit"
    BY <1>5, <1>h DEF CommitsResponse, Claiming
  <2>2. CASE UNCHANGED storeVars
    BY <2>2, <1>t, SweepGuards
  <2>3. CASE Commit(disp[d].item)
    <3>1. \A j \in Items : j # disp[d].item => row'[j] = row[j]
      BY <2>1, <2>3, <1>t, CommitGuards
    <3>2. \A j \in Items : GuardMove(j)
      BY <2>1, <2>3, <1>t, CommitGuards
    <3> QED BY <2>1, <3>1, <3>2 DEF NoCommit
  <2> QED BY <1>5, <2>2, <2>3 DEF CommitsResponse
<1> QED BY <1>1, <1>2, <1>3, <1>4, <1>5 DEF DispatcherStep

(* The steps outside the session keep what is known of the receipts.        *)
LEMMA ReceiptOutside ==
    ASSUME ReceiptIInv, QuietIsUntouched', [Next]_vars,
           \/ \E i \in Items : ClientStep(i) \/ LeaseEnds(i) \/ ClockStep(i)
           \/ \E d \in Dispatchers : DispatcherStep(d) \/ Crashes(d)
           \/ UNCHANGED vars
    PROVE  ReceiptInv'
<1>s. [StoreNext]_storeVars /\ StoreTypeOK /\ TypeInv /\ pay' = pay
  BY StepsTheStore, HistoryMoves DEF ReceiptIInv, TypeInv, TypeOK
<1>u. UNCHANGED <<inbox, received, sess, sends>>
  BY DEF ClientStep, LeaseEnds, ClockStep, DispatcherStep, Outside, ClaimExpires, ClaimReaps,
     Begins, ClaimsItem, ClaimsNothing, InspectAdmits, InspectFindsTerminal, InspectDefers,
     Defers, FailsTerminal, BeginThrows, CallTimesOut, Accepts, AcceptThrows,
     CommitsResponse, Catches, Crashes, runtimeVars, vars
<1>g. /\ \A j \in Items : GuardMove(j)
      /\ \A j \in Items : \/ NoCommit(j)
                          \/ sends[j] = 1 /\ pay[j].kind = "respond"
  <2>1. ASSUME NEW i \in Items, ClientStep(i) \/ LeaseEnds(i) \/ ClockStep(i)
        PROVE  \A j \in Items : GuardMove(j) /\ NoCommit(j)
    BY <2>1, <1>s, UncommittedGuards DEF ClientStep, LeaseEnds, ClockStep
  <2>2. ASSUME NEW d \in Dispatchers, DispatcherStep(d) \/ Crashes(d)
        PROVE  /\ \A j \in Items : GuardMove(j)
               /\ \A j \in Items : \/ NoCommit(j)
                                   \/ sends[j] = 1 /\ pay[j].kind = "respond"
    BY <2>2, <1>s, WorkerRows DEF ReceiptIInv, ReceiptInv, AcceptsTheSent
  <2>3. CASE UNCHANGED vars
    <3>1. UNCHANGED storeVars
      BY <2>3 DEF vars, storeVars
    <3> QED BY <3>1, <1>s, SweepGuards
  <2> QED BY <2>1, <2>2, <2>3
<1>1. InboxIsSent' /\ GateIsCommitted' /\ ReceivedIsSent' /\ ReceiptIsReceived'
      /\ LineInOrder' /\ ReceiptsInOrder'
  BY <1>s, <1>u, <1>g, LinesStand
<1>2. AcceptsTheSent'
  <2>1. CASE UNCHANGED disp
    BY <2>1, <1>s, <1>u DEF ReceiptIInv, ReceiptInv, AcceptsTheSent
  <2>2. CASE \E d \in Dispatchers : DispatcherStep(d) \/ Crashes(d)
    BY <2>2, <1>s, <1>u, WorkerAccepts DEF ReceiptIInv, ReceiptInv, AcceptsTheSent
  <2>3. ASSUME NEW i \in Items, ClientStep(i) \/ LeaseEnds(i) \/ ClockStep(i)
        PROVE  UNCHANGED disp
    BY <2>3 DEF ClientStep, LeaseEnds, ClockStep
  <2> QED BY <2>1, <2>2, <2>3 DEF vars
<1>3. \A i \in Items : ~ Untouched(i)' =>
              \/ ~ Untouched(i)
              \/ row[i].status = "delivering" /\ row'[i].status = "delivering" /\ prior' = prior
  <2>1. CASE UNCHANGED calls
    BY <2>1, <1>u DEF Untouched
  <2>2. ASSUME NEW d \in Dispatchers, Begins(d)
        PROVE  \A i \in Items : ~ Untouched(i)' =>
              \/ ~ Untouched(i)
              \/ row[i].status = "delivering" /\ row'[i].status = "delivering" /\ prior' = prior
    <3> DEFINE k == disp[d].item
               c == [item |-> k, token |-> disp[d].token, stage |-> "posted", mode |-> "turn"]
    <3>1. c.item = k /\ calls' = calls \cup {c} /\ k \in Items
      BY <2>2, <1>s DEF Begins, TypeInv, DispOK, Claiming
    <3> HIDE DEF c
    <3>2. row[k].status = "delivering" /\ row'[k].status = "delivering" /\ prior' = prior
      <4>1. Write(k, [row[k] EXCEPT !.admission = "started",
                        !.guard = IF disp[d].guard = "edit-v1" /\ pay[k].kind = "edit"
                                  THEN "edit-v1" ELSE @])
            /\ row[k].status = "delivering"
        BY <2>2 DEF Begins, BeginAdmission, CanBeginAdmission, Holds
      <4> QED BY <3>1, <4>1, <1>s DEF Write, StoreTypeOK, RowType
    <3>3. \A i \in Items \ {k} : Untouched(i) => Untouched(i)'
      BY <3>1, <1>u DEF Untouched
    <3> QED BY <3>2, <3>3
  <2>3. UNCHANGED calls \/ \E d \in Dispatchers : Begins(d)
    BY DEF ClientStep, LeaseEnds, ClockStep, DispatcherStep, Outside, ClaimExpires, ClaimReaps,
       ClaimsItem, ClaimsNothing, InspectAdmits, InspectFindsTerminal, InspectDefers,
       Defers, FailsTerminal, BeginThrows, CallTimesOut, Accepts, AcceptThrows,
       CommitsResponse, Catches, Crashes, vars
  <2> QED BY <2>1, <2>2, <2>3
<1>4. GuardsAreEdits' /\ WithdrawnIsGuarded' /\ BegunInOrder'
  BY <1>s, <1>g, <1>3, BegunStep
<1>5. CommitHasProof'
  <2> SUFFICES ASSUME NEW i \in Items, row'[i].status = "committed"
               PROVE  /\ sends'[i] = 1
                      /\ \/ i \in ReceivedItems(pay[i].sess)'
                         \/ pay[i].kind = "respond"
                         \/ row'[i].guard = "edit-v1"
    BY <1>s DEF CommitHasProof, ReceivedItems
  <2>1. CASE row[i].status = "committed"
    BY <2>1, <1>s, <1>g, <1>u, ProofsStand DEF ReceivedItems
  <2>2. CASE row[i].status # "committed"
    BY <2>2, <1>g, <1>u DEF NoCommit
  <2> QED BY <2>1, <2>2
<1> QED BY <1>1, <1>2, <1>4, <1>5 DEF ReceiptInv

(* The route puts an item into its session's inbox that was not there.      *)
LEMMA ReceiptRoute ==
    ASSUME ReceiptIInv, QuietIsUntouched', [Next]_vars,
           NEW c \in calls, RouteStep(c) \/ CallLost(c)
    PROVE  ReceiptInv'
<1> USE DEF ReceiptIInv, ReceiptInv
<1> DEFINE k == c.item
<1>s. /\ UNCHANGED <<row, pay, prior, sess, received>>
      /\ [StoreNext]_storeVars /\ StoreTypeOK /\ TypeOK
  BY StepsTheStore DEF RouteStep, CallLost, RouteAdmits, RouteBusy, RouteRejects, storeVars,
     RouteInspectionTimesOut, RouteSends, RouteSessionNotActive, RouteSendUnknown, runtimeVars,
     TypeInv, TypeOK
<1>g. \A j \in Items : GuardMove(j)
  BY <1>s, SweepGuards DEF storeVars
<1>k. k \in Items /\ sends[k] = 0 /\ sends \in [Items -> Nat] /\ ~ Untouched(k)
  BY DEF TypeInv, TypeOK, CallType, AdmissionInv, SentAndGone, Untouched
<1>a. \/ disp' = disp
      \/ Answer(c, "catch", "busy") \/ Answer(c, "catch", "rejected") \/ Answer(c, "catch", "ambiguous")
      \/ Answer(c, "accept", "none") /\ EnterInbox(c)
  BY DEF RouteStep, CallLost, RouteAdmits, RouteBusy, RouteRejects,
     RouteInspectionTimesOut, RouteSends, RouteSessionNotActive, RouteSendUnknown
<1>e. EnterInbox(c) \/ UNCHANGED <<inbox, sends>>
  BY DEF RouteStep, CallLost, RouteAdmits, RouteBusy, RouteRejects, runtimeVars,
     RouteInspectionTimesOut, RouteSends, RouteSessionNotActive, RouteSendUnknown
<1>n. \A i \in Items : sends[i] = 1 => sends'[i] = 1
  <2>1. \A i \in Items : i # k => sends'[i] = sends[i]
    BY <1>k, <1>e DEF EnterInbox
  <2> QED BY <2>1, <1>k
<1>b. \A i \in Items : ~ Untouched(i)' => ~ Untouched(i)
  <2>1. \A x \in calls' : x \in calls \/ x.item = k
    <3>1. CASE RouteAdmits(c)
      <4>1. \A m : [c EXCEPT !.stage = "checked", !.mode = m].item = k
        BY DEF TypeInv, TypeOK, CallType
      <4> QED BY <3>1, <4>1 DEF RouteAdmits
    <3>2. CASE calls' = calls \ {c}
      BY <3>2
    <3> QED BY <3>1, <3>2 DEF RouteStep, CallLost, RouteBusy, RouteRejects,
               RouteInspectionTimesOut, RouteSends, RouteSessionNotActive, RouteSendUnknown
  <2>2. \A i \in Items : i # k => sends'[i] = sends[i]
    BY <1>k, <1>e DEF EnterInbox
  <2> QED BY <2>1, <2>2, <1>k DEF Untouched
<1>1. GuardsAreEdits' /\ WithdrawnIsGuarded' /\ BegunInOrder'
  BY <1>s, <1>g, <1>b, BegunStep
<1>2. CommitHasProof'
  BY <1>s, <1>n DEF CommitHasProof, ReceivedItems
<1>3. AcceptsTheSent'
  <2> SUFFICES ASSUME NEW d \in Dispatchers, disp'[d].pc \in {"accept", "commit"}
               PROVE  /\ sends'[disp'[d].item] = 1
                      /\ disp'[d].pc = "commit" => pay[disp'[d].item].kind = "respond"
    BY <1>s DEF AcceptsTheSent
  <2>0. disp[d] \in DispatcherType /\ (disp[d].pc \notin Claiming => disp[d].item \in Items)
    BY DEF TypeInv, DispOK
  <2>1. CASE disp'[d] = disp[d]
    BY <2>0, <2>1, <1>n DEF AcceptsTheSent, Claiming
  <2>2. CASE disp'[d] # disp[d]
    <3>1. PICK out : disp'[d] = [disp[d] EXCEPT !.pc = "catch", !.out = out]
                     \/ (EnterInbox(c) /\ disp'[d] = [disp[d] EXCEPT !.pc = "accept", !.out = out]
                         /\ disp[d].item = k)
      BY <2>2, <1>a DEF Answer
    <3>2. disp'[d].pc = "accept" /\ disp'[d].item = k /\ EnterInbox(c)
      BY <2>0, <3>1 DEF DispatcherType
    <3>3. sends'[k] = 1
      BY <3>2, <1>k DEF EnterInbox
    <3> QED BY <3>2, <3>3
  <2> QED BY <2>1, <2>2
<1>4. CASE UNCHANGED <<inbox, sends>>
  BY <1>s, <1>g, <1>1, <1>2, <1>3, <1>4, LinesStand
<1>5. CASE EnterInbox(c)
  <2> DEFINE s == pay[k].sess
             m == [item |-> k, mode |-> c.mode]
  <2>1. /\ s \in Sessions /\ m.item = k /\ m \in MessageType
        /\ inbox' = [inbox EXCEPT ![s] = Append(inbox[s], m)]
        /\ sends' = [sends EXCEPT ![k] = sends[k] + 1]
    BY <1>5, <1>s, <1>k DEF EnterInbox, StoreTypeOK, PayloadType, TypeOK, CallType, MessageType
  <2> HIDE DEF m
  <2>2. /\ sends'[k] = 1 /\ \A i \in Items : i # k => sends'[i] = sends[i]
        /\ \A x \in Sessions : x # s => inbox'[x] = inbox[x]
        /\ inbox'[s] = Append(inbox[s], m)
    BY SMTT(30), <2>1, <1>k, <1>s DEF TypeOK
  <2>3. /\ inbox[s] \in Seq(MessageType) /\ Len(inbox[s]) \in Nat
        /\ DOMAIN inbox[s] = 1..Len(inbox[s])
        /\ DOMAIN inbox'[s] = 1..(Len(inbox[s]) + 1)
        /\ inbox'[s][Len(inbox[s]) + 1] = m
        /\ \A n \in DOMAIN inbox[s] : inbox'[s][n] = inbox[s][n]
    <3>1. /\ inbox[s] \in Seq(MessageType) /\ Len(inbox[s]) \in Nat
          /\ DOMAIN inbox[s] = 1..Len(inbox[s]) /\ m \in MessageType
      BY <2>1, <1>s, LineItems
    <3> HIDE DEF s
    <3> QED BY <2>2, <3>1
  <2>4. \A x \in Sessions : ReceivedItems(x)' = ReceivedItems(x) /\ ReceivedItems(x) \subseteq Items
    BY <1>s, LineItems DEF ReceivedItems
  <2>5. InboxIsSent'
    <3> SUFFICES ASSUME NEW x \in Sessions, NEW n \in DOMAIN inbox'[x]
                 PROVE  sends'[inbox'[x][n].item] = 1 /\ pay[inbox'[x][n].item].sess = x
      BY <1>s DEF InboxIsSent
    <3>1. CASE n \in DOMAIN inbox[x] /\ inbox'[x][n] = inbox[x][n]
      BY <3>1, <1>n, <1>s, LineItems DEF InboxIsSent
    <3>2. CASE x = s /\ n = Len(inbox[s]) + 1
      BY <3>2, <2>1, <2>2, <2>3
    <3>3. x = s => n \in DOMAIN inbox[s] \/ n = Len(inbox[s]) + 1
      <4> HIDE DEF s
      <4> QED BY <2>3
    <3> QED BY <2>2, <2>3, <3>1, <3>2, <3>3
  <2>6. GateIsCommitted'
    <3> SUFFICES ASSUME NEW x \in Sessions, sess[x].gate = "open"
                 PROVE  inbox'[x] # <<>> /\ Head(inbox'[x]) = Head(inbox[x])
      BY <1>s DEF GateIsCommitted
    <3>1. inbox[x] # <<>>
      BY DEF GateIsCommitted
    <3>2. CASE x = s
      <4>1. inbox[s] \in Seq(MessageType) /\ inbox[s] # <<>> /\ inbox'[s] = Append(inbox[s], m)
        BY <2>2, <2>3, <3>1, <3>2
      <4> HIDE DEF s
      <4>2. inbox'[s] # <<>> /\ Head(inbox'[s]) = Head(inbox[s])
        BY <2>1, <4>1
      <4> QED BY <3>2, <4>2
    <3>3. CASE x # s
      BY <2>2, <3>1, <3>3
    <3> QED BY <3>2, <3>3
  <2>7. ReceivedIsSent' /\ ReceiptIsReceived' /\ ReceiptsInOrder'
    <3>1. ReceivedIsSent'
      BY <1>s, <1>n, <2>4 DEF ReceivedIsSent
    <3> QED BY <1>s, <2>4, <3>1 DEF ReceiptIsReceived, ReceiptsInOrder
  <2>8. ASSUME NEW i \in Items, sends[i] = 1, pay[i].sess = s PROVE MayFollow(k, i)
    <3>1. ~ Untouched(i)
      BY <2>8 DEF Untouched
    <3>2. row[k].status # "committed"
      BY <1>k DEF CommitHasProof
    <3> QED BY <2>8, <3>1, <3>2 DEF MayFollow, BegunInOrder, Settled
  <2>9. LineInOrder'
    <3> SUFFICES ASSUME NEW x \in Sessions, NEW n \in DOMAIN inbox'[x]
                 PROVE  /\ \A i \in ReceivedItems(x) : MayFollow(inbox'[x][n].item, i)
                        /\ \A j \in DOMAIN inbox'[x] :
                              j < n => MayFollow(inbox'[x][n].item, inbox'[x][j].item)
      BY <1>s, <2>4 DEF LineInOrder, MayFollow
    <3>1. CASE x # s
      BY <2>2, <3>1 DEF LineInOrder
    <3>2. CASE x = s /\ n \in DOMAIN inbox[s]
      <4>1. \A j \in DOMAIN inbox'[s] : j < n => j \in DOMAIN inbox[s] /\ inbox'[s][j] = inbox[s][j]
        BY <2>3, <3>2
      <4>2. inbox'[s][n] = inbox[s][n]
        BY <2>3, <3>2
      <4> HIDE DEF s
      <4> QED BY <3>2, <4>1, <4>2 DEF LineInOrder
    <3>3. CASE x = s /\ n = Len(inbox[s]) + 1
      <4>1. \A i \in ReceivedItems(s) : MayFollow(k, i)
        BY <2>1, <2>4, <2>8 DEF ReceivedIsSent
      <4>2. \A j \in DOMAIN inbox[s] : MayFollow(k, inbox[s][j].item)
        BY <2>1, <2>8, <1>s, LineItems DEF InboxIsSent
      <4>3. n \in DOMAIN inbox'[s] /\ inbox'[s][n].item = k
        BY <2>1, <2>3, <3>3
      <4>4. \A j \in DOMAIN inbox'[s] : j < n => j \in DOMAIN inbox[s] /\ inbox'[s][j] = inbox[s][j]
        BY <2>3, <3>3
      <4> HIDE DEF s, k
      <4>5. \A i \in ReceivedItems(x) : MayFollow(inbox'[x][n].item, i)
        BY <3>3, <4>1, <4>3
      <4>6. ASSUME NEW j \in DOMAIN inbox'[x], j < n
            PROVE  MayFollow(inbox'[x][n].item, inbox'[x][j].item)
        <5>1. j \in DOMAIN inbox[s] /\ inbox'[s][j] = inbox[s][j]
          BY <3>3, <4>4, <4>6
        <5>2. MayFollow(k, inbox[s][j].item)
          BY <4>2, <5>1
        <5> QED BY <3>3, <4>3, <5>1, <5>2
      <4> QED BY <4>5, <4>6
    <3> QED BY SMTT(30), <2>3, <3>1, <3>2, <3>3
  <2> QED BY <1>1, <1>2, <1>3, <2>5, <2>6, <2>7, <2>9
<1> QED BY <1>e, <1>4, <1>5

(* An item at the head of an inbox that the session may take is deliverable: *)
(* a guarded edit once its rewind is committed.                              *)
LEMMA HeadIsDeliverable ==
    ASSUME ReceiptIInv, NEW s \in Sessions, inbox[s] # <<>>,
           LET k == Head(inbox[s]).item
           IN  row[k].guard = "edit-v1" => row[k].status = "committed"
    PROVE  LET k == Head(inbox[s]).item
           IN  /\ k \in Items /\ sends[k] = 1 /\ pay[k].sess = s
               /\ row[k].status \in Deliverable
<1> DEFINE k == Head(inbox[s]).item
<1> USE DEF ReceiptIInv, ReceiptInv
<1>1. k \in Items /\ sends[k] = 1 /\ pay[k].sess = s
  BY LineItems DEF TypeInv, InboxIsSent
<1> HIDE DEF k
<1>2. ~ Untouched(k)
  BY <1>1 DEF Untouched
<1>3. row[k].status # "cancelled"
  BY <1>1, <1>2 DEF WithdrawnIsGuarded, k
<1>4. ~ Quiet(k)
  BY <1>1, <1>2 DEF AdmissionInv, QuietIsUntouched
<1>5. row[k].status \in Statuses \cup NotRows
  BY <1>1 DEF TypeInv, TypeOK, StoreTypeOK, RowType
<1> QED BY <1>1, <1>3, <1>4, <1>5 DEF Quiet, Statuses, Deliverable, k

(* The session takes the head of its line.                                  *)
LEMMA ReceiptTaken ==
    ASSUME ReceiptIInv, NEW s \in Sessions, NEW turn, TakesHead(s, turn), inbox[s] # <<>>,
           LET k == Head(inbox[s]).item
           IN  row[k].guard = "edit-v1" => row[k].status = "committed"
    PROVE  InboxIsSent' /\ GateIsCommitted' /\ ReceivedIsSent' /\ ReceiptIsReceived'
           /\ LineInOrder' /\ ReceiptsInOrder'
           /\ \A x \in Sessions : ReceivedItems(x) \subseteq ReceivedItems(x)'
<1> DEFINE k == Head(inbox[s]).item
           r == [item |-> k, turn |-> turn]
<1> USE DEF ReceiptIInv, ReceiptInv
<1>s. /\ UNCHANGED <<row, pay, prior, sends>> /\ TypeOK
      /\ inbox \in [Sessions -> Seq(MessageType)]
      /\ received \in [Sessions -> Seq([item : Items, turn : 0..MaxTurns])]
      /\ sess \in [Sessions -> SessionType]
  BY DEF TakesHead, Dispatching, storeVars, TypeInv, TypeOK
<1>k. k \in Items /\ sends[k] = 1 /\ pay[k].sess = s /\ row[k].status \in Deliverable
  BY HeadIsDeliverable
<1>1. /\ k = inbox[s][1].item /\ inbox[s] \in Seq(MessageType) /\ Len(inbox[s]) \in Nat
      /\ DOMAIN inbox[s] = 1..Len(inbox[s]) /\ 1 \in DOMAIN inbox[s]
  BY <1>s, LineItems
<1>2. /\ inbox'[s] = Tail(inbox[s])
      /\ \A x \in Sessions : x # s => inbox'[x] = inbox[x] /\ received'[x] = received[x]
                                      /\ sess'[x] = sess[x]
      /\ received'[s] = Append(received[s], r)
      /\ sess'[s].gate = "closed" /\ sess'[s].receipt = k
  BY <1>s DEF TakesHead
<1>3. \A n \in DOMAIN inbox'[s] : n + 1 \in DOMAIN inbox[s] /\ inbox'[s][n] = inbox[s][n + 1]
                                  /\ n \in Nat /\ 1 < n + 1
  BY <1>1, <1>2
<1>4. /\ Len(received[s]) \in Nat /\ DOMAIN received[s] = 1..Len(received[s])
      /\ DOMAIN received'[s] = 1..(Len(received[s]) + 1)
      /\ received'[s][Len(received[s]) + 1] = r
      /\ \A n \in DOMAIN received[s] : received'[s][n] = received[s][n]
  <2> DEFINE ReceiptType == [item : Items, turn : 0..MaxTurns]
  <2>1. received[s] \in Seq(ReceiptType)
    BY <1>s
  <2> HIDE DEF ReceiptType, r
  <2> QED BY <1>2, <2>1
<1>5. /\ \A x \in Sessions : x # s => ReceivedItems(x)' = ReceivedItems(x)
      /\ ReceivedItems(s)' = ReceivedItems(s) \cup {k}
  <2>1. r.item = k
    OBVIOUS
  <2>2. \A x \in Sessions : x # s => ReceivedItems(x)' = ReceivedItems(x)
    BY <1>2 DEF ReceivedItems
  <2>3. \A i : i \in ReceivedItems(s)' <=> \E n \in 1..(Len(received[s]) + 1) : received'[s][n].item = i
    BY <1>4 DEF ReceivedItems
  <2>4. \A i : i \in ReceivedItems(s) <=> \E n \in 1..Len(received[s]) : received[s][n].item = i
    BY <1>4 DEF ReceivedItems
  <2> HIDE DEF r, k
  <2>5. \A n \in 1..(Len(received[s]) + 1) :
           n = Len(received[s]) + 1 \/ n \in 1..Len(received[s])
    BY <1>4
  <2>6. \A i : i \in ReceivedItems(s)' <=> i = k \/ i \in ReceivedItems(s)
    <3>1. DOMAIN received[s] = 1..Len(received[s]) /\ Len(received[s]) \in Nat
      BY <1>4
    <3>2. \A n \in 1..Len(received[s]) : n \in 1..(Len(received[s]) + 1)
                                        /\ received'[s][n] = received[s][n]
      BY <1>4
    <3>3. Len(received[s]) + 1 \in 1..(Len(received[s]) + 1)
          /\ received'[s][Len(received[s]) + 1].item = k
      BY <1>4, <2>1
    <3> QED BY <2>3, <2>4, <2>5, <3>2, <3>3
  <2> QED BY <2>2, <2>6
<1> HIDE DEF k, r
<1>6. InboxIsSent'
  <2> SUFFICES ASSUME NEW x \in Sessions, NEW n \in DOMAIN inbox'[x]
               PROVE  LET i == inbox'[x][n].item IN sends[i] = 1 /\ pay[i].sess = x
    BY <1>s DEF InboxIsSent
  <2>1. CASE x # s
    BY <1>2, <2>1 DEF InboxIsSent
  <2>2. CASE x = s
    BY <1>3, <2>2 DEF InboxIsSent
  <2> QED BY <2>1, <2>2
<1>7. GateIsCommitted'
  BY <1>s, <1>2 DEF GateIsCommitted
<1>8. ReceivedIsSent'
  <2>1. row[k].guard = "edit-v1" => row[k].status = "committed"
    BY DEF k
  <2>2. sends[k] = 1 /\ pay[k].sess = s /\ row[k].status \in Deliverable
    BY <1>k
  <2> SUFFICES ASSUME NEW x \in Sessions, NEW i \in ReceivedItems(x)'
               PROVE  /\ sends[i] = 1 /\ pay[i].sess = x /\ row[i].status \in Deliverable
                      /\ row[i].guard = "edit-v1" => row[i].status = "committed"
    BY <1>s DEF ReceivedIsSent
  <2>3. CASE i \in ReceivedItems(x)
    BY <2>3 DEF ReceivedIsSent
  <2>4. CASE i \notin ReceivedItems(x)
    BY <1>5, <2>1, <2>2, <2>4
  <2> QED BY <2>3, <2>4
<1>9. ReceiptIsReceived'
  BY <1>2, <1>5 DEF ReceiptIsReceived
<1>10. LineInOrder'
  <2> SUFFICES ASSUME NEW x \in Sessions, NEW n \in DOMAIN inbox'[x]
               PROVE  /\ \A i \in ReceivedItems(x)' : MayFollow(inbox'[x][n].item, i)
                      /\ \A j \in DOMAIN inbox'[x] :
                            j < n => MayFollow(inbox'[x][n].item, inbox'[x][j].item)
    BY <1>s DEF LineInOrder, MayFollow
  <2>1. CASE x # s
    BY <1>2, <1>5, <2>1 DEF LineInOrder
  <2>2. CASE x = s
    <3>1. n + 1 \in DOMAIN inbox[s] /\ inbox'[s][n] = inbox[s][n + 1]
      BY <1>3, <2>2
    <3>2. \A i \in ReceivedItems(s) : MayFollow(inbox[s][n + 1].item, i)
      BY <3>1 DEF LineInOrder
    <3>3. MayFollow(inbox[s][n + 1].item, k)
      BY <1>1, <1>3, <2>2, <3>1 DEF LineInOrder
    <3>4. ASSUME NEW j \in DOMAIN inbox'[s], j < n
          PROVE  MayFollow(inbox'[s][n].item, inbox'[s][j].item)
      <4>1. j + 1 < n + 1 /\ j + 1 \in DOMAIN inbox[s] /\ inbox'[s][j] = inbox[s][j + 1]
        BY <1>3, <2>2, <3>4
      <4> QED BY <3>1, <4>1 DEF LineInOrder
    <3> QED BY <1>5, <2>2, <3>1, <3>2, <3>3, <3>4
  <2> QED BY <2>1, <2>2
<1>11. ReceiptsInOrder'
  <2> SUFFICES ASSUME NEW x \in Sessions, NEW m \in DOMAIN received'[x], NEW n \in DOMAIN received'[x],
                      m < n, received'[x][n].item < received'[x][m].item
               PROVE  received'[x][n].item \notin prior[received'[x][m].item]
    BY <1>s DEF ReceiptsInOrder
  <2>1. CASE x # s
    BY <1>2, <2>1 DEF ReceiptsInOrder
  <2>2. CASE x = s /\ n \in DOMAIN received[s]
    <3>1. m \in DOMAIN received[s] /\ received'[s][m] = received[s][m]
          /\ received'[s][n] = received[s][n]
      BY <1>4, <2>2
    <3> QED BY <2>2, <3>1 DEF ReceiptsInOrder
  <2>3. CASE x = s /\ n = Len(received[s]) + 1
    <3>1. m \in DOMAIN received[s] /\ received'[s][m] = received[s][m] /\ received'[s][n].item = k
      BY <1>4, <2>3 DEF r
    <3>2. received[s][m].item \in ReceivedItems(s)
      BY <3>1 DEF ReceivedItems
    <3>3. MayFollow(k, received[s][m].item)
      BY <1>1, <3>2 DEF LineInOrder
    <3> QED BY <1>k, <2>3, <3>1, <3>3 DEF MayFollow, Deliverable
  <2> QED BY <1>4, <2>1, <2>2, <2>3
<1> QED BY <1>5, <1>6, <1>7, <1>8, <1>9, <1>10, <1>11

(* The session drops the head of its line, or all of it.                    *)
LEMMA LineShortens ==
    ASSUME ReceiptIInv, NEW s \in Sessions, UNCHANGED <<row, pay, prior, sends, received>>,
           \/ inbox[s] # <<>> /\ inbox' = [inbox EXCEPT ![s] = Tail(@)]
           \/ inbox' = [inbox EXCEPT ![s] = <<>>],
           sess'[s].gate = "closed",
           \A x \in Sessions : x # s => sess'[x] = sess[x],
           sess'[s].receipt # NoItem => sess'[s].receipt = sess[s].receipt
    PROVE  InboxIsSent' /\ GateIsCommitted' /\ ReceivedIsSent' /\ ReceiptIsReceived'
           /\ LineInOrder' /\ ReceiptsInOrder'
<1> USE DEF ReceiptIInv, ReceiptInv
<1>1. /\ inbox \in [Sessions -> Seq(MessageType)] /\ Len(inbox[s]) \in Nat
      /\ DOMAIN inbox[s] = 1..Len(inbox[s]) /\ inbox[s] \in Seq(MessageType)
  BY LineItems DEF TypeInv, TypeOK
<1>2. \A x \in Sessions : x # s => inbox'[x] = inbox[x]
  BY <1>1
<1>3. \A n \in DOMAIN inbox'[s] : n + 1 \in DOMAIN inbox[s] /\ inbox'[s][n] = inbox[s][n + 1]
                                  /\ n \in Nat
  <2>1. CASE inbox[s] # <<>> /\ inbox' = [inbox EXCEPT ![s] = Tail(@)]
    <3>1. inbox'[s] = Tail(inbox[s])
      BY <1>1, <2>1
    <3> QED BY <1>1, <2>1, <3>1
  <2>2. CASE inbox' = [inbox EXCEPT ![s] = <<>>]
    BY <1>1, <2>2
  <2> QED BY <2>1, <2>2
<1>4. \A x \in Sessions : ReceivedItems(x)' = ReceivedItems(x)
  BY DEF ReceivedItems
<1>5. InboxIsSent'
  BY <1>2, <1>3 DEF InboxIsSent
<1>6. GateIsCommitted'
  BY <1>2 DEF GateIsCommitted
<1>7. ReceivedIsSent' /\ ReceiptIsReceived' /\ ReceiptsInOrder'
  BY <1>4 DEF ReceivedIsSent, ReceiptIsReceived, ReceiptsInOrder
<1>8. LineInOrder'
  <2> SUFFICES ASSUME NEW x \in Sessions, NEW n \in DOMAIN inbox'[x]
               PROVE  /\ \A i \in ReceivedItems(x) : MayFollow(inbox'[x][n].item, i)
                      /\ \A j \in DOMAIN inbox'[x] :
                            j < n => MayFollow(inbox'[x][n].item, inbox'[x][j].item)
    BY <1>4 DEF LineInOrder, MayFollow
  <2>1. CASE x # s
    BY <1>2, <2>1 DEF LineInOrder
  <2>2. CASE x = s
    <3>1. n + 1 \in DOMAIN inbox[s] /\ inbox'[s][n] = inbox[s][n + 1]
      BY <1>3, <2>2
    <3>2. ASSUME NEW j \in DOMAIN inbox'[s], j < n
          PROVE  MayFollow(inbox'[s][n].item, inbox'[s][j].item)
      <4>1. j + 1 < n + 1 /\ j + 1 \in DOMAIN inbox[s] /\ inbox'[s][j] = inbox[s][j + 1]
        BY <1>3, <2>2, <3>2
      <4> QED BY <3>1, <4>1 DEF LineInOrder
    <3> QED BY <2>2, <3>1, <3>2 DEF LineInOrder
  <2> QED BY <2>1, <2>2
<1> QED BY <1>5, <1>6, <1>7, <1>8

(* The session's own steps: it takes, drops or admits the head of its line, *)
(* or its receipt hook commits or gives up.                                 *)
LEMMA ReceiptSession ==
    ASSUME ReceiptIInv, QuietIsUntouched', [Next]_vars, NEW s \in Sessions, SessionStep(s)
    PROVE  ReceiptInv'
<1> USE DEF ReceiptIInv, ReceiptInv
<1>s. [StoreNext]_storeVars /\ StoreTypeOK /\ TypeInv /\ TypeOK /\ pay' = pay
  BY StepsTheStore, HistoryMoves DEF TypeInv, TypeOK
<1>t. sess \in [Sessions -> SessionType] /\ sess[s] \in SessionType
  BY <1>s DEF TypeOK
<1>u. UNCHANGED <<disp, calls, sends>>
  BY DEF SessionStep, EditConsumed, EditDropped, StepReplayed, StartsTurn,
     SteersTurn, TakesHead, ResumesTurn, HookCommits, HookGivesUp, TurnSettles,
     SessionEnds, Dispatching
<1>h. inbox[s] # <<>> =>
         /\ Head(inbox[s]).item \in Items
         /\ sends[Head(inbox[s]).item] = 1 /\ pay[Head(inbox[s]).item].sess = s
  <2>1. inbox[s] # <<>> => 1 \in DOMAIN inbox[s] /\ inbox[s][1] = Head(inbox[s])
                           /\ inbox[s][1].item \in Items
    BY <1>s, LineItems
  <2> QED BY <2>1 DEF InboxIsSent
<1>g. /\ \A j \in Items : GuardMove(j)
      /\ \/ \A j \in Items : NoCommit(j)
         \/ EditConsumed(s) \/ HookCommits(s)
  <2>1. CASE EditConsumed(s) \/ HookCommits(s)
    <3>1. \E i \in Items : Commit(i) \/ ConsumeEdit(i)
      BY <2>1, <1>h, <1>t DEF EditConsumed, HookCommits, HeadIs, SessionType
    <3> QED BY <2>1, <3>1, <1>s, CommitGuards
  <2>2. CASE UNCHANGED storeVars
    BY <2>2, <1>s, SweepGuards
  <2> QED BY <2>1, <2>2 DEF SessionStep, EditDropped, StepReplayed, StartsTurn,
             SteersTurn, TakesHead, ResumesTurn, HookGivesUp, TurnSettles, SessionEnds
<1>1. GuardsAreEdits' /\ WithdrawnIsGuarded' /\ BegunInOrder'
  <2>1. \A i \in Items : Untouched(i)' <=> Untouched(i)
    BY <1>u DEF Untouched
  <2> QED BY <1>s, <1>g, <2>1, BegunStep
<1>2. AcceptsTheSent'
  BY <1>s, <1>u DEF AcceptsTheSent
<1>3. ASSUME \A x \in Sessions : ReceivedItems(x) \subseteq ReceivedItems(x)',
             NEW i \in Items, row[i].status = "committed"
      PROVE  /\ sends'[i] = 1
             /\ \/ i \in ReceivedItems(pay[i].sess)'
                \/ pay[i].kind = "respond"
                \/ row'[i].guard = "edit-v1"
  BY <1>3, <1>s, <1>g, <1>u, ProofsStand
<1>4. ASSUME \A j \in Items : NoCommit(j), \A x \in Sessions : ReceivedItems(x) \subseteq ReceivedItems(x)'
      PROVE  CommitHasProof'
  BY <1>3, <1>4, <1>s DEF CommitHasProof, NoCommit
<1>5. CASE EditConsumed(s)
  <2> DEFINE k == Head(inbox[s]).item
  <2>1. /\ inbox[s] # <<>> /\ pay[k].kind = "edit" /\ ConsumeEdit(k)
        /\ UNCHANGED <<inbox, received>> /\ sess' = [sess EXCEPT ![s].gate = "open"]
    BY <1>5 DEF EditConsumed, HeadIs
  <2>2. k \in Items /\ sends[k] = 1
    BY <1>h, <2>1
  <2>3. /\ \A j \in Items : j # k => row'[j] = row[j]
        /\ row[k].guard = "edit-v1" => row'[k].status = "committed"
        /\ row[k].guard = "edit-v1" => row'[k].guard = "edit-v1"
        /\ row[k].guard # "edit-v1" => row' = row
    <3>1. /\ GuardMove(k) /\ \A j \in Items : j # k => row'[j] = row[j]
          /\ row[k].guard = "edit-v1" => row'[k].status = "committed"
      BY <1>s, <2>1, <2>2, CommitGuards
    <3>2. row[k].guard # "edit-v1" => row' = row
      BY <2>1 DEF ConsumeEdit, storeVars
    <3>3. row[k].guard = "edit-v1" => row'[k].guard = "edit-v1"
      BY <3>1 DEF GuardMove
    <3> QED BY <3>1, <3>2, <3>3
  <2>4. OpensGate(s)
    <3>1. row'[k].guard = "edit-v1" => row'[k].status = "committed"
      BY <2>3
    <3> QED BY <2>1, <3>1, <1>s DEF OpensGate
  <2>5. \A x \in Sessions :
           /\ sess'[x].gate = "open" => sess[x].gate = "open" \/ OpensGate(x)
           /\ sess'[x].receipt # NoItem => sess'[x].receipt = sess[x].receipt
    <3>1. \A x \in Sessions : x # s => sess'[x] = sess[x]
      BY <2>1, <1>t
    <3>2. sess'[s].receipt = sess[s].receipt
      BY <2>1, <1>t DEF SessionType
    <3> QED BY <2>4, <3>1, <3>2
  <2>6. InboxIsSent' /\ GateIsCommitted' /\ ReceivedIsSent' /\ ReceiptIsReceived'
        /\ LineInOrder' /\ ReceiptsInOrder'
    BY <1>s, <1>g, <1>u, <2>1, <2>5, LinesStand
  <2>7. CommitHasProof'
    <3> SUFFICES ASSUME NEW i \in Items, row'[i].status = "committed"
                 PROVE  /\ sends'[i] = 1
                        /\ \/ i \in ReceivedItems(pay[i].sess)'
                           \/ pay[i].kind = "respond"
                           \/ row'[i].guard = "edit-v1"
      BY <1>s DEF CommitHasProof, ReceivedItems
    <3>1. CASE row[i].status = "committed"
      BY <3>1, <1>3, <2>1 DEF ReceivedItems
    <3>2. CASE row[i].status # "committed"
      <4>1. i = k
        BY <3>2, <2>3
      <4>2. row[k].guard = "edit-v1"
        BY <2>1, <3>2, <4>1 DEF ConsumeEdit, storeVars
      <4> QED BY <1>u, <2>2, <2>3, <4>1, <4>2
    <3> QED BY <3>1, <3>2
  <2> QED BY <1>1, <1>2, <2>6, <2>7
<1>6. CASE HookCommits(s)
  <2> DEFINE k == sess[s].receipt
  <2>1. /\ k # NoItem /\ Commit(k) /\ UNCHANGED <<inbox, received>>
        /\ sess' = [sess EXCEPT ![s].receipt = NoItem]
    BY <1>6 DEF HookCommits
  <2>2. k \in ReceivedItems(s) /\ k \in Items /\ sends[k] = 1 /\ pay[k].sess = s
    BY <2>1, <1>t DEF ReceiptIsReceived, ReceivedIsSent, SessionType
  <2>3. \A j \in Items : j # k => row'[j] = row[j]
    BY <1>s, <2>1, <2>2, CommitGuards
  <2>4. \A x \in Sessions :
           /\ sess'[x].gate = sess[x].gate
           /\ sess'[x].receipt # NoItem => sess'[x].receipt = sess[x].receipt
    <3>1. \A x \in Sessions : x # s => sess'[x] = sess[x]
      BY <2>1, <1>t
    <3>2. sess'[s].receipt = NoItem /\ sess'[s].gate = sess[s].gate
      BY <2>1, <1>t DEF SessionType
    <3> QED BY <3>1, <3>2
  <2>5. InboxIsSent' /\ GateIsCommitted' /\ ReceivedIsSent' /\ ReceiptIsReceived'
        /\ LineInOrder' /\ ReceiptsInOrder'
    BY <1>s, <1>g, <1>u, <2>1, <2>4, LinesStand
  <2>6. CommitHasProof'
    <3> SUFFICES ASSUME NEW i \in Items, row'[i].status = "committed"
                 PROVE  /\ sends'[i] = 1
                        /\ \/ i \in ReceivedItems(pay[i].sess)'
                           \/ pay[i].kind = "respond"
                           \/ row'[i].guard = "edit-v1"
      BY <1>s DEF CommitHasProof, ReceivedItems
    <3>1. CASE i # k
      BY <3>1, <1>3, <2>1, <2>3 DEF ReceivedItems
    <3>2. CASE i = k
      BY <3>2, <1>s, <1>u, <2>1, <2>2 DEF ReceivedItems
    <3> QED BY <3>1, <3>2
  <2> QED BY <1>1, <1>2, <2>5, <2>6
<1>7. CASE StepReplayed(s) \/ HookGivesUp(s) \/ TurnSettles(s)
  <2>1. UNCHANGED <<storeVars, inbox, received>>
    BY <1>7 DEF StepReplayed, HookGivesUp, TurnSettles
  <2>2. \A x \in Sessions : x # s => sess'[x] = sess[x]
    BY <1>7, <1>t DEF StepReplayed, HookGivesUp, TurnSettles
  <2>3. /\ sess'[s].gate = "open" => sess[s].gate = "open"
        /\ sess'[s].receipt # NoItem => sess'[s].receipt = sess[s].receipt
    BY <1>7, <1>t DEF StepReplayed, HookGivesUp, TurnSettles, SessionType
  <2>4. InboxIsSent' /\ GateIsCommitted' /\ ReceivedIsSent' /\ ReceiptIsReceived'
        /\ LineInOrder' /\ ReceiptsInOrder'
    BY <1>s, <1>g, <1>u, <2>1, <2>2, <2>3, LinesStand
  <2>5. CommitHasProof'
    BY <1>s, <2>1, <1>u DEF storeVars, CommitHasProof, ReceivedItems
  <2> QED BY <1>1, <1>2, <2>4, <2>5
<1>8. CASE EditDropped(s) \/ ResumesTurn(s) \/ SessionEnds(s)
  <2>1. /\ UNCHANGED <<row, pay, prior, sends, received>>
        /\ \/ inbox[s] # <<>> /\ inbox' = [inbox EXCEPT ![s] = Tail(@)]
           \/ inbox' = [inbox EXCEPT ![s] = <<>>]
    BY <1>8 DEF EditDropped, ResumesTurn, SessionEnds, HeadIs, storeVars, Dispatching
  <2>2. \A x \in Sessions : x # s => sess'[x] = sess[x]
    BY <1>8, <1>t DEF EditDropped, ResumesTurn, SessionEnds
  <2>3. sess'[s].receipt = sess[s].receipt
    BY <1>8, <1>t DEF EditDropped, ResumesTurn, SessionEnds, SessionType
  <2>4. sess'[s].gate = "closed"
    <3>1. CASE EditDropped(s) \/ SessionEnds(s)
      BY <3>1, <1>t DEF EditDropped, SessionEnds, SessionType
    <3>2. CASE ResumesTurn(s)
      <4>1. sess[s].gate = "closed"
        BY <3>2, <1>t DEF ResumesTurn, HeadIs, GateIsCommitted, SessionType
      <4> QED BY <3>2, <4>1, <1>t DEF ResumesTurn, SessionType
    <3> QED BY <1>8, <3>1, <3>2
  <2>5. InboxIsSent' /\ GateIsCommitted' /\ ReceivedIsSent' /\ ReceiptIsReceived'
        /\ LineInOrder' /\ ReceiptsInOrder'
    BY <2>1, <2>2, <2>3, <2>4, LineShortens
  <2>6. CommitHasProof'
    BY <2>1 DEF CommitHasProof, ReceivedItems
  <2> QED BY <1>1, <1>2, <2>5, <2>6
<1>9. CASE StartsTurn(s) \/ SteersTurn(s)
  <2> DEFINE k == Head(inbox[s]).item
  <2>1. inbox[s] # <<>> /\ \E turn : TakesHead(s, turn)
    BY <1>9 DEF StartsTurn, SteersTurn, HeadIs
  <2>2. PICK turn : TakesHead(s, turn)
    BY <2>1
  <2>3. row[k].guard = "edit-v1" => row[k].status = "committed"
    <3>1. row[k].guard = "edit-v1" => pay[k].kind = "edit"
      BY <1>h, <2>1 DEF GuardsAreEdits
    <3>2. pay[k].kind = "edit" => sess[s].gate = "open"
      BY <1>9 DEF StartsTurn, SteersTurn, HeadIs
    <3> QED BY <3>1, <3>2 DEF GateIsCommitted
  <2>4. /\ InboxIsSent' /\ GateIsCommitted' /\ ReceivedIsSent' /\ ReceiptIsReceived'
        /\ LineInOrder' /\ ReceiptsInOrder'
        /\ \A x \in Sessions : ReceivedItems(x) \subseteq ReceivedItems(x)'
    BY <2>1, <2>2, <2>3, ReceiptTaken
  <2>5. \A j \in Items : NoCommit(j)
    BY <2>2 DEF TakesHead, storeVars, NoCommit
  <2>6. CommitHasProof'
    BY <1>4, <2>4, <2>5
  <2> QED BY <1>1, <1>2, <2>4, <2>6
<1> QED BY <1>5, <1>6, <1>7, <1>8, <1>9 DEF SessionStep

(* Nothing is received, sent or committed at first.                         *)
LEMMA ReceiptInit == Init => ReceiptInv
<1> SUFFICES ASSUME Init PROVE ReceiptInv
  OBVIOUS
<1>1. /\ calls = {}
      /\ \A i \in Items : sends[i] = 0 /\ row[i].status = "absent" /\ row[i].guard = "none"
      /\ \A d \in Dispatchers : disp[d].pc = "idle"
      /\ \A s \in Sessions : /\ inbox[s] = <<>> /\ received[s] = <<>>
                             /\ sess[s].gate = "closed" /\ sess[s].receipt = NoItem
  BY DEF Init, StoreInit, Idle, BlankRow
<1>2. \A s \in Sessions : DOMAIN inbox[s] = {} /\ DOMAIN received[s] = {}
  BY <1>1
<1> QED BY <1>1, <1>2 DEF ReceiptInv, GuardsAreEdits, WithdrawnIsGuarded, BegunInOrder, Untouched,
           AcceptsTheSent, InboxIsSent, GateIsCommitted, ReceivedIsSent, ReceiptIsReceived,
           LineInOrder, CommitHasProof, ReceiptsInOrder, ReceivedItems

(* Every step of the system keeps the receipts' invariant.                  *)
LEMMA ReceiptStep ==
    ASSUME ReceiptIInv, QuietIsUntouched', [Next]_vars
    PROVE  ReceiptInv'
BY ReceiptOutside, ReceiptRoute, ReceiptSession DEF Next

(* TypeInv, AdmissionInv and ReceiptInv together are inductive, given that  *)
(* leases are taken in queue order.                                         *)
LEMMA ReceiptsHold == Spec => []ReceiptIInv
<1>1. Init => TypeInv /\ AdmissionInv /\ ReceiptInv
  BY InitType, AdmissionInit, ReceiptInit
<1>2. ASSUME TypeInv /\ AdmissionInv /\ ReceiptInv, LeasedInOrder, [Next]_vars
      PROVE  (TypeInv /\ AdmissionInv /\ ReceiptInv)'
  <2>1. TypeInv' /\ AdmissionInv'
    BY <1>2, TypeStep, AdmissionStep DEF AdmissionIInv
  <2> QED BY <1>2, <2>1, ReceiptStep DEF ReceiptIInv, AdmissionInv
<1>3. Spec => []LeasedInOrder
  BY SystemLeaseOrder
<1> QED BY <1>1, <1>2, <1>3, PTL DEF Spec, ReceiptIInv

(* A row is committed only on proof that the session has the message: its   *)
(* receipt, the consumption of a guarded edit before the rewind, or the     *)
(* admission of a structured answer (commit, consumeEdit).                  *)
THEOREM CommitsAreProved == Spec => []CommitHasProof
<1>1. ReceiptIInv => CommitHasProof
  BY DEF ReceiptIInv, ReceiptInv
<1> QED BY <1>1, ReceiptsHold, PTL

(* What a session received can no longer be cancelled, retried or sent      *)
(* again: an edit expires or is rewound, never both (consumeEdit against    *)
(* the expiry statement of claimNext).                                      *)
THEOREM ReceivedStaysReceived == Spec => []ReceivedIsFinal
<1>1. ReceiptIInv => ReceivedIsFinal
  BY DEF ReceiptIInv, ReceiptInv, ReceivedIsSent, ReceivedIsFinal
<1> QED BY <1>1, ReceiptsHold, PTL

(* Every session receives its messages in the order in which they were      *)
(* queued, whatever is retried, crashes or arrives late.                    *)
THEOREM ReceivedInOrder == Spec => []ReceiptsInOrder
<1>1. ReceiptIInv => ReceiptsInOrder
  BY DEF ReceiptIInv, ReceiptInv
<1> QED BY <1>1, ReceiptsHold, PTL

=============================================================================
