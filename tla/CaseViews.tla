----------------------------- MODULE CaseViews -----------------------------
(***************************************************************************)
(* What the pages of a recorded case say of it (apps/web/src/lib): the     *)
(* case list and header, the workspace's questions, the incident panels,   *)
(* the approval inbox, the agent tree and the milestone rail.  Each is a   *)
(* function of the projected state and of the stream; positions count from *)
(* 1, and 0 is the event that is not there.  Wording is left out: an answer*)
(* is the position of the event it rests on.                               *)
(***************************************************************************)
EXTENDS Naturals, Sequences, FiniteSets, FiniteSetsExt

CASE_MILESTONES == {"review", "negotiation", "compliance", "logistics", "activation"}

ofType(stream, types) == {n \in DOMAIN stream : stream[n].type \in types}
First(positions) == IF positions = {} THEN 0 ELSE Min(positions)
Latest(positions) == IF positions = {} THEN 0 ELSE Max(positions)

pending(state) == {id \in DOMAIN state.approvals : state.approvals[id].state = "pending"}
open(state) == {id \in DOMAIN state.incidents : state.incidents[id].state = "incident.opened"}

(* Defect: what the Runtime waits for is said before who has to decide.     *)
nextActionByState(state) ==
  CASE state.caseState = "approval_required" -> "operator decides"
    [] state.caseState = "waiting" -> "runtime resumes"
    [] OTHER -> IF pending(state) # {} THEN "operator decides"
                ELSE IF open(state) # {} THEN "review incident" ELSE state.caseState

(* Who is asked goes first: an operator with a decision to make, then one   *)
(* with an incident to review; an updated incident is not open any more.    *)
nextAction(state) ==
  CASE pending(state) # {} -> "operator decides"
    [] pending(state) = {} /\ open(state) # {} -> "review incident"
    [] OTHER -> CASE state.caseState = "approval_required" -> "operator decides"
                  [] state.caseState = "waiting" -> "runtime resumes"
                  [] OTHER -> state.caseState

(* What an operator should look at first: the flags beside the state, and   *)
(* the rank in the list.                                                    *)
caseAttention(state) ==
  LET Worth(shown, weight) == IF shown THEN weight ELSE 0
  IN [flags |-> {f \in {"approval_required", "incident"} :
                   IF f = "incident" THEN open(state) # {} ELSE pending(state) # {}},
      priority |-> Worth(pending(state) # {}, 400) + Worth(open(state) # {}, 300)
                   + Worth(state.caseState = "failed", 250)
                   + Worth(state.caseState = "waiting", 100)
                   + Worth(state.caseState = "active", 50)]

(* The workspace's questions: the event each answer rests on, and whether   *)
(* there is an answer.                                                      *)
answerCaseQuestions(state, stream) ==
  LET lastRecordOf(types) == Latest(ofType(stream, types))
      happening == lastRecordOf({"tool.succeeded", "tool.failed", "runtime.waiting",
                                 "runtime.resumed", "runtime.completed", "agent.completed"})
      decision == lastRecordOf({"identity.allowed", "identity.denied", "gateway.routed",
                                "gateway.denied", "armor.blocked", "armor.sanitized",
                                "armor.allowed", "human_escalation.resolved",
                                "intervention.succeeded", "intervention.failed"})
      waiting == lastRecordOf({"runtime.waiting", "runtime.resumed", "runtime.completed"})
  IN [happening |-> [at |-> happening, answered |-> happening # 0],
      milestone |-> [at |-> lastRecordOf({"case.milestone_changed"}),
                     answered |-> state.milestone # "none"],
      decision  |-> [at |-> decision, answered |-> decision # 0],
      waiting   |-> [at |-> waiting,
                     answered |-> \/ waiting # 0 /\ stream[waiting].type = "runtime.waiting"
                                  \/ state.caseState = "completed"],
      trusted   |-> [at |-> lastRecordOf({"memory.written", "memory.recalled"}),
                     answered |-> state.memory # {}]]

(* The agents the projection knows: how deep each is nested, by the parents *)
(* on record (a chain is followed for 16 links, a parent that is unknown    *)
(* counts as one), its failures, and what it did last.                      *)
agentTree(state, stream) ==
  LET known == DOMAIN state.agents
      depthOf[guard \in 0..17] ==
        [a \in known |->
           LET parent == state.agents[a].parent
           IN IF parent = "none" \/ guard > 16 THEN 0
              ELSE 1 + (IF parent \in known THEN depthOf[guard + 1][parent] ELSE 0)]
      Did(a, types) == {n \in ofType(stream, types) : stream[n].agent = a}
  IN [a \in known |->
        [depth |-> depthOf[0][a],
         toolCallCount |-> state.agents[a].toolCalls,
         failureCount |-> Cardinality(Did(a, {"tool.failed"})),
         lastAction |-> Latest(Did(a, {"tool.succeeded", "tool.failed", "tool.requested",
                                       "agent.completed", "agent.started", "agent.spawned"}))]]

(* The milestone rail: each milestone's state and its first event.          *)
caseRail(state, stream) ==
  [m \in CASE_MILESTONES |->
     [state |-> CASE m = state.milestone -> "current"
                  [] m # state.milestone /\ m \in state.completed -> "done"
                  [] OTHER -> "pending",
      at |-> First({n \in ofType(stream, {"case.milestone_changed"}) : stream[n].detail = m})]]

(* An incident's panel: the first policy that looked at it, what was        *)
(* proposed for it, the first of its evidence, and the first opening of an  *)
(* incident of its class.                                                   *)
incidentViews(state, stream) ==
  [id \in DOMAIN state.incidents |->
     [policy |-> First({n \in state.decisions : stream[n].under = id}),
      interventions |-> {r \in DOMAIN state.interventions :
                           state.interventions[r].incident = id},
      firstEvidence |-> First(state.incidents[id].evidence),
      opened |-> First({n \in ofType(stream, {"incident.opened"}) :
                          stream[n].detail = state.incidents[id].class})]]

(* The guided walkthrough: one question each, answered by the first event   *)
(* of a type, by the last for the result; an answer the renderer does not   *)
(* draw is dropped.  under is "advisory" of an incident that is only that,  *)
(* and detail "simulated day" of a resume across one.                       *)
demoPhases(stream, entries) ==
  LET first(types) == First(ofType(stream, types))
      last(types) == Latest(ofType(stream, types))
      Or(preferred, other) == IF preferred # 0 THEN preferred ELSE other
      of(type, Is(_)) == First({n \in ofType(stream, {type}) : Is(stream[n])})
      anchors == {first({type}) : type \in {"case.created", "memory.written", "runtime.waiting",
                                            "armor.blocked", "gateway.routed", "tool.failed",
                                            "policy.evaluated", "intervention.proposed",
                                            "human_escalation.opened"}}
                 \cup {of("runtime.resumed", LAMBDA e : e.detail = "simulated day"),
                       Or(of("incident.opened", LAMBDA e : e.under # "advisory"),
                          first({"incident.opened"})),
                       Or(first({"identity.denied"}), first({"identity.allowed"})),
                       Or(last({"runtime.completed"}), last({"runtime.failed"}))}
  IN {n \in anchors \ {0} : entries[n].count > 0}

(* Whether an approval still authorizes what is about to be done, on the    *)
(* evidence up to the cursor: the binding is everything it was given for.   *)
approvalStatus(approval, binding, proposed, cursor) ==
  CASE approval.state # "approved" -> approval.state
    [] approval.state = "approved" /\ binding # proposed -> "changed"
    [] OTHER -> IF cursor < approval.bound THEN "later evidence" ELSE "usable"

(* The inbox: in a recorded case the action that ran is the one approved.   *)
approvalRows(state, cursor) ==
  [id \in DOMAIN state.approvals |->
     approvalStatus(state.approvals[id], <<id>>, <<id>>, cursor)]
=============================================================================
