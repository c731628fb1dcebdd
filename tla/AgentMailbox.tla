---------------------------- MODULE AgentMailbox ----------------------------
(***************************************************************************)
(* Delivery of queued follow-ups to Eve sessions: mailbox workers that run  *)
(* dispatchNextAgentMailboxMessage (server/agent-mailbox/service.ts), the   *)
(* signed HTTP call to the runtime (eve-runtime.ts) and the route that      *)
(* answers it (agent/channels/eve.ts), the runtime's receipt hook and edit  *)
(* adapter (agent/hooks/mailbox-commit.ts, agent/lib/mailbox-edit-          *)
(* admission.ts), and the owner who cancels and retries.                    *)
(*                                                                          *)
(* The Eve session itself is a library: it is modelled from how this code   *)
(* drives it.  An accepted send enters the session's durable inbox; the     *)
(* driver takes the head at a waiting boundary, or inside the running turn  *)
(* when it is a steer for that turn, and publishes message.received.        *)
(*                                                                          *)
(* Faults (a worker crash, a worker slower than its lease, a database call  *)
(* that fails) are drawn from a budget so that behaviours are finite.       *)
(***************************************************************************)
EXTENDS MailboxStore, Sequences

CONSTANTS
    Dispatchers,  \* concurrent mailbox workers
    GuardModes,   \* what runtimes advertise: {"edit-v1"}, or both in a roll-out
    MaxTurns,     \* bound on the turns of a session
    MaxFaults     \* bound on crashes, slow workers and failed database calls

ASSUME GuardModesAssumption == GuardModes \subseteq {"none", "edit-v1"}

ASSUME BoundsAssumption == MaxTurns \in Nat /\ MaxFaults \in Nat

VARIABLES
    disp,      \* each worker's position in dispatchNext and what it holds
    calls,     \* delivery requests on the wire or inside the route
    sess,      \* each session's boundary, turn and edit gate
    inbox,     \* each session's durable inbox
    received,  \* history: message.received events, in order, with their turn
    sends,     \* history: how often item i entered a durable inbox
    faults     \* faults spent

runtimeVars == <<sess, inbox, received>>
vars == <<row, pay, prior, disp, calls, sess, inbox, received, sends, faults>>

NoItem == 0

Outcomes == {"none", "rejected", "busy", "ambiguous"}

DispatcherType ==
    [pc    : {"idle", "expired", "reaped", "claimed", "defer", "fail", "begin",
              "wait", "accept", "commit", "catch"},
     item  : Items \cup {NoItem},
     token : Tokens \cup {NoToken},
     guard : {"none", "edit-v1"},
     out   : Outcomes]

Idle == [pc |-> "idle", item |-> NoItem, token |-> NoToken,
         guard |-> "none", out |-> "none"]

CallType ==
    [item : Items, token : Tokens, stage : {"posted", "checked"},
     mode : {"turn", "steer"}]

SessionType ==
    [phase   : {"waiting", "running", "terminal"},
     turn    : 0..MaxTurns,
     gate    : {"closed", "open"},          \* the head edit passed consumeEdit
     receipt : Items \cup {NoItem}]         \* message.received hook in progress

MessageType == [item : Items, mode : {"turn", "steer"}]

TypeOK ==
    /\ StoreTypeOK
    /\ disp \in [Dispatchers -> DispatcherType]
    /\ calls \subseteq CallType
    /\ sess \in [Sessions -> SessionType]
    /\ inbox \in [Sessions -> Seq(MessageType)]
    /\ received \in [Sessions -> Seq([item : Items, turn : 0..MaxTurns])]
    /\ sends \in [Items -> Nat]
    /\ faults \in 0..MaxFaults

Init ==
    /\ StoreInit
    /\ disp = [d \in Dispatchers |-> Idle]
    /\ calls = {}
    /\ sess \in [Sessions -> [phase : {"waiting", "running"}, turn : {0},
                              gate : {"closed"}, receipt : {NoItem}]]
    /\ inbox = [s \in Sessions |-> <<>>]
    /\ received = [s \in Sessions |-> <<>>]
    /\ sends = [i \in Items |-> 0]
    /\ faults = 0

Fault == faults < MaxFaults /\ faults' = faults + 1

-----------------------------------------------------------------------------
(* Clients and the owner. *)

ClientStep(i) ==
    /\ \/ EnqueueBegin(i)
       \/ EnqueueRefused(i)
       \/ EnqueueInserted(i)
       \/ CancelOwned(i)
       \/ RetryOwned(i)
    /\ UNCHANGED <<disp, calls, runtimeVars, sends, faults>>

(* A lease normally outlives its holder's work.  It expires for free once   *)
(* the holder is gone, and as a fault while the holder is merely slow.      *)
LeaseEnds(i) ==
    /\ LeaseExpires(i)
    /\ IF \E d \in Dispatchers : disp[d].item = i /\ disp[d].token = row[i].token
       THEN Fault ELSE UNCHANGED faults
    /\ UNCHANGED <<disp, calls, runtimeVars, sends>>

ClockStep(i) ==
    /\ EditDeadlinePasses(i) \/ BecomesAvailable(i)
    /\ UNCHANGED <<disp, calls, runtimeVars, sends, faults>>

-----------------------------------------------------------------------------
(* dispatchNextAgentMailboxMessage, worker d. *)

Goto(d, pc) == disp' = [disp EXCEPT ![d].pc = pc]

Raise(d, out) == disp' = [disp EXCEPT ![d].pc = "catch", ![d].out = out]

Return(d) == disp' = [disp EXCEPT ![d] = Idle]

Outside == <<calls, runtimeVars, sends, faults>>

ClaimExpires(d) ==
    /\ disp[d].pc = "idle"
    /\ ExpireGuardedEdits
    /\ Goto(d, "expired")
    /\ UNCHANGED Outside

ClaimReaps(d) ==
    /\ disp[d].pc = "expired"
    /\ ReapExpiredLeases
    /\ Goto(d, "reaped")
    /\ UNCHANGED Outside

(* A UUID nobody has been handed.                                           *)
FreshToken(t) ==
    /\ \A e \in Dispatchers : disp[e].token # t
    /\ \A c \in calls : c.token # t
    /\ \A i \in Items : row[i].token # t

ClaimsItem(d) ==
    /\ disp[d].pc = "reaped"
    /\ \E t \in Tokens, i \in Items :
          /\ FreshToken(t)
          /\ Claim(i, t)
          /\ disp' = [disp EXCEPT ![d] = [Idle EXCEPT !.pc = "claimed",
                                                      !.item = i, !.token = t]]
    /\ UNCHANGED Outside

ClaimsNothing(d) ==
    /\ disp[d].pc = "reaped"
    /\ \A i \in Items : ~ Claimable(i)
    /\ Return(d)
    /\ UNCHANGED <<storeVars, Outside>>

SteersInto(i, s) ==
    pay[i].kind = "steer" /\ pay[i].target = sess[s].turn

(* What a boundary reader may conclude: a tail event need not carry a turn  *)
(* id, so a steerable session may also look merely busy.                    *)
Admits(i) ==
    LET s == pay[i].sess
    IN  \/ sess[s].phase = "waiting"
        \/ sess[s].phase = "running" /\ SteersInto(i, s)

InspectAdmits(d) ==
    /\ disp[d].pc = "claimed"
    /\ Admits(disp[d].item)
    /\ \E g \in GuardModes :
          disp' = [disp EXCEPT ![d].pc = "begin", ![d].guard = g]
    /\ UNCHANGED <<storeVars, Outside>>

InspectFindsTerminal(d) ==
    /\ disp[d].pc = "claimed"
    /\ sess[pay[disp[d].item].sess].phase = "terminal"
    /\ Goto(d, "fail")
    /\ UNCHANGED <<storeVars, Outside>>

(* The session is running, or it could not be inspected.                    *)
InspectDefers(d) ==
    /\ disp[d].pc = "claimed"
    /\ Goto(d, "defer")
    /\ UNCHANGED <<storeVars, Outside>>

(* A lost lease makes the store throw; the worker then only reports.        *)
Defers(d) ==
    /\ disp[d].pc = "defer"
    /\ \/ Defer(disp[d].item, disp[d].token)
       \/ ~ CanDefer(disp[d].item, disp[d].token) /\ UNCHANGED storeVars
    /\ Return(d)
    /\ UNCHANGED Outside

FailsTerminal(d) ==
    /\ disp[d].pc = "fail"
    /\ \/ Fail(disp[d].item, disp[d].token)
       \/ ~ Holds(disp[d].item, disp[d].token) /\ UNCHANGED storeVars
    /\ Return(d)
    /\ UNCHANGED Outside

(* beginAdmission, then the request leaves.  A request that never reaches   *)
(* the route is CallLost.                                                   *)
Begins(d) ==
    /\ disp[d].pc = "begin"
    /\ BeginAdmission(disp[d].item, disp[d].token, disp[d].guard)
    /\ calls' = calls \cup {[item |-> disp[d].item, token |-> disp[d].token,
                             stage |-> "posted", mode |-> "turn"]}
    /\ Goto(d, "wait")
    /\ UNCHANGED <<runtimeVars, sends, faults>>

BeginThrows(d) ==
    /\ disp[d].pc = "begin"
    /\ \/ ~ CanBeginAdmission(disp[d].item, disp[d].token) /\ UNCHANGED faults
       \/ Fault
    /\ Raise(d, "none")
    /\ UNCHANGED <<storeVars, calls, runtimeVars, sends>>

(* AbortSignal.timeout, or a connection that broke.                         *)
CallTimesOut(d) ==
    /\ disp[d].pc = "wait"
    /\ Raise(d, "ambiguous")
    /\ UNCHANGED <<storeVars, Outside>>

AcceptsAndCommits(d) ==
    /\ disp[d].pc = "accept"
    /\ \/ Accept(disp[d].item, disp[d].token)
       \/ /\ ~ Holds(disp[d].item, disp[d].token)
          /\ row[disp[d].item].status = "committed"
          /\ UNCHANGED storeVars
    /\ Goto(d, "commit")
    /\ UNCHANGED Outside

(* accept falls back to finding the row committed by the receipt hook.      *)
Accepts(d) ==
    LET i == disp[d].item
    IN  /\ disp[d].pc = "accept"
        /\ \/ Accept(i, disp[d].token)
           \/ /\ ~ Holds(i, disp[d].token)
              /\ row[i].status = "committed"
              /\ UNCHANGED storeVars
        /\ IF pay[i].kind = "respond" THEN Goto(d, "commit") ELSE Return(d)
        /\ UNCHANGED Outside

AcceptThrows(d) ==
    LET i == disp[d].item
    IN  /\ disp[d].pc = "accept"
        /\ \/ /\ ~ Holds(i, disp[d].token)
              /\ row[i].status # "committed"
              /\ UNCHANGED faults
           \/ Fault
        /\ Raise(d, "none")
        /\ UNCHANGED <<storeVars, calls, runtimeVars, sends>>

CommitsResponse(d) ==
    /\ disp[d].pc = "commit"
    /\ \/ Commit(disp[d].item)
       \/ ~ CanCommit(disp[d].item) /\ UNCHANGED storeVars
    /\ Return(d)
    /\ UNCHANGED Outside

CatchTimeoutAsRejected(i, t, out) ==
    CASE out \in {"rejected", "ambiguous"} -> Fail(i, t)
      [] out = "busy"     -> DeferRejectedAdmission(i, t)
      [] OTHER            -> MarkSubmissionAmbiguous(i, t)

(* The transition the error asks for; each is fenced by the token, so a row *)
(* that was committed, cancelled or reaped meanwhile is left as it is.      *)
CatchTransition(i, t, out) ==
    CASE out = "rejected" -> Fail(i, t)
      [] out = "busy"     -> DeferRejectedAdmission(i, t)
      [] OTHER            -> MarkSubmissionAmbiguous(i, t)

Catches(d) ==
    LET i == disp[d].item
        t == disp[d].token
    IN  /\ disp[d].pc = "catch"
        /\ IF Holds(i, t) THEN CatchTransition(i, t, disp[d].out)
                          ELSE UNCHANGED storeVars
        /\ Return(d)
        /\ UNCHANGED Outside

Crashes(d) ==
    /\ disp[d].pc # "idle"
    /\ Fault
    /\ Return(d)
    /\ UNCHANGED <<storeVars, calls, runtimeVars, sends>>

DispatcherStep(d) ==
    \/ ClaimExpires(d) \/ ClaimReaps(d) \/ ClaimsItem(d) \/ ClaimsNothing(d)
    \/ InspectAdmits(d) \/ InspectFindsTerminal(d) \/ InspectDefers(d)
    \/ Defers(d) \/ FailsTerminal(d)
    \/ Begins(d) \/ BeginThrows(d) \/ CallTimesOut(d)
    \/ Accepts(d) \/ AcceptThrows(d) \/ CommitsResponse(d) \/ Catches(d)

-----------------------------------------------------------------------------
(* The delivery route. *)

(* The response reaches the worker only if it is still waiting for it.      *)
Answer(c, pc, out) ==
    disp' = [d \in Dispatchers |->
               IF /\ disp[d].pc = "wait"
                  /\ disp[d].item = c.item
                  /\ disp[d].token = c.token
               THEN [disp[d] EXCEPT !.pc = pc, !.out = out]
               ELSE disp[d]]

CallLost(c) ==
    /\ c.stage = "posted"
    /\ calls' = calls \ {c}
    /\ UNCHANGED <<storeVars, disp, runtimeVars, sends, faults>>

(* The second inspection, made inside the route.                            *)
RouteAdmits(c) ==
    /\ c.stage = "posted"
    /\ Admits(c.item)
    /\ calls' = (calls \ {c}) \cup
          {[c EXCEPT !.stage = "checked",
                     !.mode = IF sess[pay[c.item].sess].phase = "running"
                              THEN "steer" ELSE "turn"]}
    /\ UNCHANGED <<storeVars, disp, runtimeVars, sends, faults>>

RouteBusy(c) ==
    /\ c.stage = "posted"
    /\ sess[pay[c.item].sess].phase = "running"
    /\ calls' = calls \ {c}
    /\ Answer(c, "catch", "busy")
    /\ UNCHANGED <<storeVars, runtimeVars, sends, faults>>

(* 410 for a terminal session, 404 when the boundary cannot be read, 401,   *)
(* 400, 413: definitive, nothing was admitted.                              *)
RouteRejects(c) ==
    /\ c.stage = "posted"
    /\ calls' = calls \ {c}
    /\ Answer(c, "catch", "rejected")
    /\ UNCHANGED <<storeVars, runtimeVars, sends, faults>>

(* 503: the inspection timed out; eve-runtime.ts calls it ambiguous.        *)
RouteInspectionTimesOut(c) ==
    /\ c.stage = "posted"
    /\ calls' = calls \ {c}
    /\ Answer(c, "catch", "ambiguous")
    /\ UNCHANGED <<storeVars, runtimeVars, sends, faults>>

EnterInbox(c) ==
    LET s == pay[c.item].sess
    IN  /\ sess[s].phase # "terminal"
        /\ inbox' = [inbox EXCEPT ![s] =
                        Append(@, [item |-> c.item, mode |-> c.mode])]
        /\ sends' = [sends EXCEPT ![c.item] = @ + 1]

RouteSends(c) ==
    /\ c.stage = "checked"
    /\ EnterInbox(c)
    /\ calls' = calls \ {c}
    /\ Answer(c, "accept", "none")
    /\ UNCHANGED <<storeVars, sess, received, faults>>

RouteSessionNotActive(c) ==
    /\ c.stage = "checked"
    /\ sess[pay[c.item].sess].phase = "terminal"
    /\ calls' = calls \ {c}
    /\ Answer(c, "catch", "rejected")
    /\ UNCHANGED <<storeVars, runtimeVars, sends, faults>>

(* send or respond threw (502), or named another session (409              *)
(* mailbox_session_identity_changed): the message may be in or not.         *)
RouteSendUnknown(c) ==
    /\ c.stage = "checked"
    /\ EnterInbox(c) \/ UNCHANGED <<inbox, sends>>
    /\ calls' = calls \ {c}
    /\ Answer(c, "catch", "ambiguous")
    /\ UNCHANGED <<storeVars, sess, received, faults>>

RouteStep(c) ==
    \/ RouteAdmits(c) \/ RouteBusy(c) \/ RouteRejects(c)
    \/ RouteInspectionTimesOut(c)
    \/ RouteSends(c) \/ RouteSessionNotActive(c) \/ RouteSendUnknown(c)

-----------------------------------------------------------------------------
(* The Eve session. *)

Dispatching == <<disp, calls, sends>>

HeadIs(s, kinds) ==
    /\ inbox[s] # <<>>
    /\ sess[s].receipt = NoItem
    /\ pay[Head(inbox[s]).item].kind \in kinds

(* The inbound adapter's deliver: consumeEdit decides before the rewind.    *)
EditConsumed(s) ==
    /\ HeadIs(s, {"edit"})
    /\ sess[s].phase = "waiting"
    /\ sess[s].gate = "closed"
    /\ ConsumeEdit(Head(inbox[s]).item)
    /\ sess' = [sess EXCEPT ![s].gate = "open"]
    /\ UNCHANGED <<Dispatching, inbox, received, faults>>

EditDropped(s) ==
    /\ HeadIs(s, {"edit"})
    /\ sess[s].phase = "waiting"
    /\ sess[s].gate = "closed"
    /\ ~ EditAdmissible(Head(inbox[s]).item)
    /\ inbox' = [inbox EXCEPT ![s] = Tail(@)]
    /\ UNCHANGED <<storeVars, Dispatching, sess, received, faults>>

(* The durable step is replayed before it was recorded.                     *)
StepReplayed(s) ==
    /\ sess[s].gate = "open"
    /\ Fault
    /\ sess' = [sess EXCEPT ![s].gate = "closed"]
    /\ UNCHANGED <<storeVars, Dispatching, inbox, received>>

TakesHead(s, turn) ==
    /\ inbox' = [inbox EXCEPT ![s] = Tail(@)]
    /\ received' = [received EXCEPT ![s] =
                      Append(@, [item |-> Head(inbox[s]).item, turn |-> turn])]
    /\ sess' = [sess EXCEPT ![s] =
                  [phase |-> "running", turn |-> turn, gate |-> "closed",
                   receipt |-> Head(inbox[s]).item]]
    /\ UNCHANGED <<storeVars, Dispatching, faults>>

(* The next turn: also for a steer whose turn has settled meanwhile.        *)
StartsTurn(s) ==
    /\ HeadIs(s, {"send", "steer", "edit"})
    /\ HeadIs(s, {"edit"}) => sess[s].gate = "open"
    /\ sess[s].phase = "waiting"
    /\ sess[s].turn < MaxTurns
    /\ TakesHead(s, sess[s].turn + 1)

SteersTurn(s) ==
    /\ HeadIs(s, {"steer"})
    /\ Head(inbox[s]).mode = "steer"
    /\ sess[s].phase = "running"
    /\ SteersInto(Head(inbox[s]).item, s)
    /\ TakesHead(s, sess[s].turn)

(* A structured answer resumes the parked turn without message.received.    *)
ResumesTurn(s) ==
    /\ HeadIs(s, {"respond"})
    /\ sess[s].phase = "waiting"
    /\ inbox' = [inbox EXCEPT ![s] = Tail(@)]
    /\ sess' = [sess EXCEPT ![s].phase = "running"]
    /\ UNCHANGED <<storeVars, Dispatching, received, faults>>

(* commitMailboxReceiptWithRetry succeeds within its attempts ...           *)
HookCommits(s) ==
    /\ sess[s].receipt # NoItem
    /\ Commit(sess[s].receipt)
    /\ sess' = [sess EXCEPT ![s].receipt = NoItem]
    /\ UNCHANGED <<Dispatching, inbox, received, faults>>

(* ... or the database stays away, or refuses, for all of them.             *)
HookGivesUp(s) ==
    /\ sess[s].receipt # NoItem
    /\ \/ Fault
       \/ ~ CanCommit(sess[s].receipt) /\ UNCHANGED faults
    /\ sess' = [sess EXCEPT ![s].receipt = NoItem]
    /\ UNCHANGED <<storeVars, Dispatching, inbox, received>>

TurnSettles(s) ==
    /\ sess[s].phase = "running"
    /\ sess[s].receipt = NoItem
    /\ sess' = [sess EXCEPT ![s].phase = "waiting"]
    /\ UNCHANGED <<storeVars, Dispatching, inbox, received, faults>>

(* completed, failed, or reset: what is still in the inbox is never taken.  *)
SessionEnds(s) ==
    /\ sess[s].phase # "terminal"
    /\ sess[s].receipt = NoItem
    /\ sess' = [sess EXCEPT ![s].phase = "terminal", ![s].gate = "closed"]
    /\ inbox' = [inbox EXCEPT ![s] = <<>>]
    /\ UNCHANGED <<storeVars, Dispatching, received, faults>>

SessionStep(s) ==
    \/ EditConsumed(s) \/ EditDropped(s) \/ StepReplayed(s)
    \/ StartsTurn(s) \/ SteersTurn(s) \/ ResumesTurn(s)
    \/ HookCommits(s) \/ HookGivesUp(s) \/ TurnSettles(s) \/ SessionEnds(s)

-----------------------------------------------------------------------------

Next ==
    \/ \E i \in Items : ClientStep(i) \/ LeaseEnds(i) \/ ClockStep(i)
    \/ \E d \in Dispatchers : DispatcherStep(d) \/ Crashes(d)
    \/ \E c \in calls : RouteStep(c) \/ CallLost(c)
    \/ \E s \in Sessions : SessionStep(s)

Spec == Init /\ [][Next]_vars

(* The worker process polls for ever, leases and deadlines are wall-clock   *)
(* times, and the hook's retry loop ends by itself.  Nothing is assumed of  *)
(* clients, of the network, or of how long a turn runs.                     *)
Fairness ==
    /\ \A d \in Dispatchers : WF_vars(DispatcherStep(d))
    /\ \A i \in Items : WF_vars(LeaseEnds(i)) /\ WF_vars(ClockStep(i))
    /\ \A s \in Sessions : WF_vars(HookCommits(s) \/ HookGivesUp(s))

FairSpec == Spec /\ Fairness

-----------------------------------------------------------------------------
(* Properties *)

ReceivedItems(s) == {received[s][n].item : n \in DOMAIN received[s]}

(* Whatever crashes, times out, is retried by its owner or taken over by     *)
(* another worker, an item enters its session's inbox at most once: the user *)
(* never sees one message answered twice (beginAdmission, claimNext,         *)
(* markSubmissionAmbiguous).                                                 *)
AtMostOnceAdmission == \A i \in Items : sends[i] <= 1

(* Nothing of item i is inside a session or on its way there.                *)
Untouched(i) == sends[i] = 0 /\ \A c \in calls : c.item # i

(* Item i may be delivered (again), or is about to be.                       *)
Quiet(i) ==
    \/ row[i].status \in NotRows \cup {"queued", "failed"}
    \/ row[i].status = "delivering" /\ row[i].admission = "none"

(* Why AtMostOnceAdmission holds: an item is open for delivery only while    *)
(* untouched, it has one request at most, a worker that has not begun        *)
(* admission holds a row without one, and a definitive refusal proves that   *)
(* its request is spent.                                                     *)
QuietIsUntouched == \A i \in Items : Quiet(i) => Untouched(i)

SentAndGone ==
    \A i \in Items : sends[i] = 0 \/ (sends[i] = 1 /\ \A c \in calls : c.item # i)

OneRequestPerItem == \A c, e \in calls : c.item = e.item => c = e

TokensDiffer ==
    \A d, e \in Dispatchers :
        d # e /\ disp[d].token = disp[e].token => disp[d].token = NoToken

PreAdmission == {"claimed", "defer", "fail", "begin"}

HoldsBeforeAdmission ==
    \A d \in Dispatchers :
        disp[d].pc \in PreAdmission /\ Holds(disp[d].item, disp[d].token)
        => row[disp[d].item].admission = "none"

RefusalIsDefinitive ==
    \A d \in Dispatchers :
        /\ disp[d].pc = "catch"
        /\ disp[d].out \in {"rejected", "busy"}
        /\ Holds(disp[d].item, disp[d].token)
        => Untouched(disp[d].item)

AdmissionInv ==
    /\ QuietIsUntouched /\ SentAndGone /\ OneRequestPerItem
    /\ TokensDiffer /\ HoldsBeforeAdmission /\ RefusalIsDefinitive

(* A message the session has received never goes back to a state from which  *)
(* it could be cancelled, retried or delivered again; in particular an       *)
(* expired edit is never one whose rewind took place (consumeEdit against    *)
(* the expiry statement of claimNext).                                       *)
ReceivedIsFinal ==
    \A s \in Sessions : \A i \in ReceivedItems(s) : row[i].status \in Deliverable

(* Sessions receive messages in the order in which they were queued, late    *)
(* requests of dead workers included.                                        *)
ReceiptsInOrder ==
    \A s \in Sessions : \A m, n \in DOMAIN received[s] :
        LET i == received[s][m].item
            j == received[s][n].item
        IN  m < n /\ j < i => j \notin prior[i]

(* An item is committed only on proof: the session received it, or its       *)
(* guarded edit was consumed, or it is an answer the runtime admitted.       *)
CommitHasProof ==
    \A i \in Items : row[i].status = "committed" =>
        /\ sends[i] = 1
        /\ \/ i \in ReceivedItems(pay[i].sess)
           \/ pay[i].kind = "respond"
           \/ row[i].guard = "edit-v1"

(* A guarded edit whose admission began does not stay undecided: it is       *)
(* consumed, expired, or handed back, even if its worker, its request or its *)
(* session is gone (the expiry statement of claimNext).                      *)
GuardedEditDecided ==
    \A i \in Items :
        (/\ row[i].guard = "edit-v1"
         /\ row[i].admission # "none"
         /\ row[i].status \in {"delivering", "accepted", "submission-ambiguous"})
        ~> (row[i].status \in Settled \cup {"queued", "failed"})

(* No lease is held for ever: a crashed worker's item is taken over before   *)
(* its admission and reaped after it, unless an older item that entered the  *)
(* table later has come to stand in front of it.                             *)
LeaseEventuallyEnds ==
    \A i \in Items :
        row[i].status = "delivering"
        ~> (row[i].status # "delivering" \/ \E b \in Items : Blocks(b, i))

=============================================================================
