--------------------------- MODULE RunProjection ---------------------------
(***************************************************************************)
(* projectAgentRunFrom (server/agent-runs/projection.ts): how a page of Eve *)
(* stream events moves the stored projection of an AgentRun forward.  An    *)
(* event is its type; the payload of a result is json or text, and usage is *)
(* the number of completed steps.                                           *)
(***************************************************************************)
EXTENDS Naturals, Sequences

(* The event types the projection reacts to.                                *)
Events ==
    {"turn.started", "message.completed", "result.completed", "step.completed",
     "input.requested", "authorization.required", "authorization.completed",
     "turn.cancelled", "turn.failed", "session.waiting", "session.completed"}

RunStatuses ==
    {"submitting", "running", "waiting-input", "waiting-authorization",
     "completed", "failed", "cancelled", "submission-ambiguous"}

Results == {"none", "text", "json"}

(* AgentRunProjection.                                                      *)
ProjectionType ==
    [status : RunStatuses, result : Results, failure : BOOLEAN,
     steps : Nat, count : Nat]

EmptyProjection ==
    [status |-> "running", result |-> "none", failure |-> FALSE,
     steps |-> 0, count |-> 0]

(* What session.waiting means depends on flags that live only as long as    *)
(* one page: the stored status is all that survives to the next.            *)
Begin(p) ==
    [p  |-> IF p.status = "submitting" THEN [p EXCEPT !.status = "running"] ELSE p,
     cancelled |-> p.status = "cancelled",
     input     |-> p.status = "waiting-input",
     auth      |-> p.status = "waiting-authorization"]

Parked(a) ==
    IF a.cancelled      THEN "cancelled"
    ELSE IF a.p.failure THEN "failed"
    ELSE IF a.input     THEN "waiting-input"
    ELSE IF a.auth      THEN "waiting-authorization"
    ELSE "completed"

Undecided(a) == ~ a.cancelled /\ ~ a.p.failure

Apply(a, e) ==
    CASE e = "turn.started" ->
            [a EXCEPT !.input = FALSE, !.auth = FALSE,
                      !.p.status = IF Undecided(a) THEN "running" ELSE @]
      [] e = "input.requested" ->
            [a EXCEPT !.input = TRUE, !.p.status = "waiting-input"]
      [] e = "authorization.required" ->
            [a EXCEPT !.auth = TRUE, !.p.status = "waiting-authorization"]
      [] e = "authorization.completed" ->
            [a EXCEPT !.auth = FALSE, !.p.status = "running"]
      [] e = "result.completed" -> [a EXCEPT !.p.result = "json"]
      [] e = "message.completed" ->
            [a EXCEPT !.p.result = IF @ = "none" THEN "text" ELSE @]
      [] e = "step.completed" -> [a EXCEPT !.p.steps = @ + 1]
      [] e = "turn.cancelled" ->
            [a EXCEPT !.cancelled = TRUE, !.p.status = "cancelled"]
      [] e = "turn.failed" ->
            [a EXCEPT !.p.failure = TRUE, !.p.status = "failed"]
      [] e = "session.completed" ->
            [a EXCEPT !.p.status = IF Undecided(a) THEN "completed" ELSE @]
      [] e = "session.waiting" -> [a EXCEPT !.p.status = Parked(a)]

(* The flags and the projection after each event of a page.                 *)
Accumulated(p, page) ==
    LET acc[n \in 0..Len(page)] ==
            IF n = 0 THEN Begin(p) ELSE Apply(acc[n - 1], page[n])
    IN  acc

(* projectAgentRunDelta: p is the stored projection, page the events after  *)
(* its count.                                                               *)
Project(p, page) ==
    [Accumulated(p, page)[Len(page)].p EXCEPT !.count = p.count + Len(page)]

(* projectAgentRun: the reference, the whole stream at once.                *)
ProjectAll(log) == Project(EmptyProjection, log)

=============================================================================
