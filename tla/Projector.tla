------------------------------ MODULE Projector ------------------------------
(***************************************************************************)
(* packages/projector/src/project.ts: the observable state of a case is a  *)
(* fold over a prefix of its canonical stream.  An event is a record whose *)
(* fields are the type and the correlations the fold reads, "none" when    *)
(* absent.  Labels, digests, references and totals that are only copied    *)
(* from an event into the state are left out.                              *)
(***************************************************************************)
EXTENDS Naturals, Sequences

Put(f, x, v) == [y \in DOMAIN f \cup {x} |-> IF y = x THEN v ELSE f[y]]
Empty == [x \in {} |-> x]

(* The states an intervention event reports, and the transitions a domain   *)
(* reader calls legal.                                                      *)
Outcomes == {"intervention.authorized", "intervention.rejected", "intervention.requested",
             "intervention.acknowledged", "intervention.succeeded", "intervention.failed",
             "intervention.timed_out"}

(* Defect: an execution that was never acknowledged may be called done.     *)
transitionsWithoutReceipt ==
  {<<"intervention.proposed", "intervention.authorized">>,
   <<"intervention.proposed", "intervention.rejected">>,
   <<"intervention.authorized", "intervention.requested">>}
  \cup ({"intervention.requested", "intervention.acknowledged"} \X
        {"intervention.acknowledged", "intervention.succeeded",
         "intervention.failed", "intervention.timed_out"})

INTERVENTION_TRANSITIONS ==
  {<<"intervention.proposed", "intervention.authorized">>,
   <<"intervention.proposed", "intervention.rejected">>,
   <<"intervention.authorized", "intervention.requested">>,
   <<"intervention.requested", "intervention.acknowledged">>}
  \cup ({"intervention.requested", "intervention.acknowledged"} \X
        {"intervention.failed", "intervention.timed_out"})
  \cup {<<"intervention.acknowledged", "intervention.succeeded">>}

Nothing ==
  [caseState |-> "active", milestone |-> "none", completed |-> {}, usage |-> 0,
   sessions |-> Empty, agents |-> Empty, memory |-> {},
   blocked |-> {}, badges |-> {}, decisions |-> {}, incidents |-> Empty,
   interventions |-> Empty, approvals |-> Empty, violations |-> {}]

(* Sessions appear with their first event, and follow the Runtime's.        *)
Session(state, e) ==
  LET seen == IF e.session = "none" \/ e.session \in DOMAIN state.sessions THEN state
              ELSE [state EXCEPT !.sessions = Put(@, e.session, "runtime.started")]
      Enter(s, case) == IF e.session = "none" THEN [s EXCEPT !.caseState = case]
                        ELSE [s EXCEPT !.caseState = case, !.sessions[e.session] = e.type]
  IN CASE e.type \in {"runtime.started", "runtime.resumed"} -> Enter(seen, "active")
       [] e.type = "runtime.waiting" ->
            Enter(seen, IF e.detail = "operator_approval" THEN "approval_required" ELSE "waiting")
       [] e.type = "runtime.completed" ->
            Enter(seen, IF e.detail = "terminal" THEN "completed" ELSE seen.caseState)
       [] e.type = "runtime.failed" -> Enter(seen, "failed")
       [] e.type = "runtime.controlled" -> Enter(seen, seen.caseState)
       [] OTHER -> seen

CASE_MILESTONES == {"review", "negotiation", "compliance", "logistics", "activation"}
Milestone(state, e) ==
  IF e.type # "case.milestone_changed" \/ e.detail \notin CASE_MILESTONES THEN state
  ELSE [state EXCEPT !.completed = @ \cup ({state.milestone} \ {"none"}),
                     !.milestone = e.detail]

(* A spawned agent needs a session; what an unknown agent does is dropped.  *)
Agents(state, e) ==
  CASE e.type = "agent.spawned" /\ e.agent # "none" /\ e.session # "none" ->
         [state EXCEPT !.agents = Put(@, e.agent, [state |-> e.type, parent |-> e.parent,
                                                   toolCalls |-> 0])]
    [] e.type \in {"agent.started", "agent.completed", "agent.failed"}
         /\ e.agent \in DOMAIN state.agents ->
         [state EXCEPT !.agents[e.agent].state = e.type]
    [] e.type = "tool.requested" /\ e.agent \in DOMAIN state.agents ->
         [state EXCEPT !.agents[e.agent].toolCalls = @ + 1]
    [] OTHER -> state

(* The decisions of the platform's services are shown as badges; memory     *)
(* events have none.                                                        *)
BadgeTypes == {"registry.version_resolved", "identity.allowed", "identity.denied",
               "gateway.routed", "gateway.denied", "armor.allowed", "armor.blocked",
               "armor.sanitized", "armor.flagged"}
Records(state, e, n) ==
  CASE e.type \in BadgeTypes -> [state EXCEPT !.badges = @ \cup {n}]
    [] e.type = "policy.evaluated" -> [state EXCEPT !.decisions = @ \cup {n}]
    [] e.type = "usage.recorded" -> [state EXCEPT !.usage = @ + e.amount]
    [] e.type = "memory.written" /\ e.ref # "none" -> [state EXCEPT !.memory = @ \cup {e.ref}]
    [] OTHER -> state

(* Model Armor's verdicts, and the one kind of use that is looked for.      *)
checkBlockedInputUse(state, e, n) ==
  IF e.input # "none" /\ e.input \in state.blocked
  THEN [state EXCEPT !.violations = @ \cup {n}] ELSE state
Screening(state, e, n) ==
  CASE e.type = "armor.blocked" -> [state EXCEPT !.blocked = @ \cup {e.input}]
    [] e.type = "tool.requested" -> checkBlockedInputUse(state, e, n)
    [] OTHER -> state

(* Incidents, with the events that are their evidence: the opening and what *)
(* became of them, not what they were opened for.                           *)
Incidents(state, e, n) ==
  CASE e.type = "incident.opened" /\ e.ref # "none" ->
         [state EXCEPT !.incidents = Put(@, e.ref, [state |-> e.type, evidence |-> {n},
                              class |-> IF e.detail = "none" THEN "context_drift" ELSE e.detail])]
    [] e.type \in {"incident.updated", "incident.resolved"} /\ e.ref \in DOMAIN state.incidents ->
         [state EXCEPT !.incidents[e.ref].state = e.type,
                       !.incidents[e.ref].evidence = @ \cup {n}]
    [] OTHER -> state

(* The approvals a human escalation asks for, bound to the evidence it      *)
(* names or to itself; a decision on an unknown one is dropped.             *)
decisionOf(e) == IF e.detail = "approved" THEN "approved" ELSE "rejected"
Approvals(state, e, n) ==
  CASE e.type = "human_escalation.opened" /\ e.ref # "none" ->
         [state EXCEPT !.approvals = Put(@, e.ref, [state |-> "pending",
                                           bound |-> IF e.amount = 0 THEN n ELSE e.amount])]
    [] e.type = "human_escalation.resolved" /\ e.ref \in DOMAIN state.approvals ->
         [state EXCEPT !.approvals[e.ref].state = decisionOf(e)]
    [] OTHER -> state

(* An outcome of an unknown intervention is a violation and nothing else;   *)
(* an illegal transition is a violation and still becomes the state.        *)
Interventions(state, e, n) ==
  CASE e.type = "intervention.proposed" /\ e.ref # "none" ->
         [state EXCEPT !.interventions = Put(@, e.ref, [state |-> e.type, incident |-> e.under])]
    [] e.type \in Outcomes /\ e.ref \notin DOMAIN state.interventions ->
         [state EXCEPT !.violations = @ \cup {n}]
    [] e.type \in Outcomes /\ e.ref \in DOMAIN state.interventions ->
         [state EXCEPT !.interventions[e.ref].state = e.type,
                       !.violations = IF <<state.interventions[e.ref].state, e.type>>
                                           \in INTERVENTION_TRANSITIONS
                                      THEN @ ELSE @ \cup {n}]
    [] OTHER -> state

Fold(state, e, n) ==
  LET shown  == Records(Agents(Milestone(Session(state, e), e), e), e, n)
      judged == Incidents(Screening(shown, e, n), e, n)
  IN Interventions(Approvals(judged, e, n), e, n)

(* The state after the first n events, and whether that is all of them.     *)
project(stream, n) ==
  LET States[k \in 0..n] == IF k = 0 THEN Nothing ELSE Fold(States[k - 1], stream[k], k)
  IN States[n]
atEdge(stream, n) == n = Len(stream)
=============================================================================
