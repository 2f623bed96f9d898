--------------------------- MODULE EnterpriseStory ---------------------------
(***************************************************************************)
(* apps/web/src/features/story/enterprise.ts: canonical events in,         *)
(* governance claims out.  A claim is the conclusion of a chain of events, *)
(* tied by the ids they carry; of an event this module reads               *)
(*   ref      the id of the intervention, incident or approval it is about,*)
(*   under    the id it names as its ground: the incident of a policy's    *)
(*            evaluation or of a proposal, the intervention that resolved  *)
(*            an incident, the approval a tool's request cites,            *)
(*   amount   an incident's threshold, 0 when it names none,               *)
(*   agent    the agent that acts, or the one an intervention aims at,     *)
(*   detail   the disposition, result, resolution or decision.             *)
(* Positions count from 1, and 0 is the event that is not there.           *)
(***************************************************************************)
EXTENDS Naturals, Sequences, FiniteSets, FiniteSetsExt

SLOTS == {"security", "warden", "runtime", "activation"}

ofType(stream, types) == {n \in DOMAIN stream : stream[n].type \in types}
First(positions) == IF positions = {} THEN 0 ELSE Min(positions)

(* The first event of the type that is about the id.                        *)
Step(stream, type, id) ==
  First({n \in ofType(stream, {type}) : id # "none" /\ stream[n].ref = id})

(* A proof: where the claim's cursor goes, and the chain, in claim order.   *)
Unproven == [primary |-> 0, evidence |-> <<>>]
Whole(chain) == \A i \in DOMAIN chain : chain[i] # 0

(* The claim of the first of the candidates whose chain is whole.           *)
Claim(chains, candidates, primary) ==
  LET proved == {n \in candidates : Whole(chains[n])}
  IN IF proved = {} THEN Unproven
     ELSE [primary |-> chains[Min(proved)][primary], evidence |-> chains[Min(proved)]]

(* Defect: what was asked for after the memory was refused counts too.      *)
EnforcementForever(stream, blocked) ==
  LET rejected == First({n \in ofType(stream, {"memory.rejected"}) :
                           n > blocked /\ stream[n].input = stream[blocked].input})
      leaked == \E n \in ofType(stream, {"tool.requested", "memory.written"}) : blocked < n
  IN IF leaked THEN <<blocked, 0>> ELSE <<blocked, rejected>>

(* A block that was enforced: the same input was refused as a memory, and   *)
(* no tool was asked for and nothing remembered between the two.            *)
Enforcement(stream, blocked) ==
  LET rejected == First({n \in ofType(stream, {"memory.rejected"}) :
                           n > blocked /\ stream[n].input = stream[blocked].input})
      leaked == \E n \in ofType(stream, {"tool.requested", "memory.written"}) :
                  blocked < n /\ n < rejected
  IN IF leaked THEN <<blocked, 0>> ELSE <<blocked, rejected>>

proveScreening(stream) ==
  LET blocked == {n \in ofType(stream, {"armor.blocked"}) : stream[n].input # "none"}
  IN Claim([n \in blocked |-> Enforcement(stream, n)], blocked, 1)

(* Enough failures of one tool, by the incident's agent, came before it;    *)
(* three when the incident names no threshold.                              *)
Repeated(stream, incident) ==
  LET failures == {n \in ofType(stream, {"tool.failed"}) :
                     n < incident /\ stream[n].agent = stream[incident].agent}
      threshold == IF stream[incident].amount = 0 THEN 3 ELSE stream[incident].amount
  IN \E tool \in {stream[n].tool : n \in failures} \ {"none"} :
       Cardinality({n \in failures : stream[n].tool = tool}) >= threshold

(* What a policy's evaluation led to: its incident, the first intervention  *)
(* proposed for it, that intervention's steps, and the incident's end.  The *)
(* order of the steps is not looked at, nor what the Runtime answered.      *)
Recovery(stream, policy) ==
  LET incident == Step(stream, "incident.opened", stream[policy].under)
      proposed == First({n \in ofType(stream, {"intervention.proposed"}) :
                           stream[n].under = stream[policy].under})
      Then(type) == IF proposed = 0 THEN 0 ELSE Step(stream, type, stream[proposed].ref)
      resolved == Step(stream, "incident.resolved", stream[policy].under)
  IN <<IF incident # 0 /\ Repeated(stream, incident) THEN incident ELSE 0, policy, proposed,
       Then("intervention.authorized"), Then("intervention.requested"),
       Then("intervention.acknowledged"), resolved>>

proveWarden(stream) ==
  LET permitted == {n \in ofType(stream, {"policy.evaluated"}) :
                      stream[n].detail = "auto_act" /\ stream[n].under # "none"}
  IN Claim([n \in permitted |-> Recovery(stream, n)], permitted, 2)

(* A control that was applied, its intervention's success, then a call that *)
(* worked, by the agent it was aimed at when the request names one, and an  *)
(* incident that closed as recovered.                                       *)
Effect(stream, controlled) ==
  LET id == stream[controlled].ref
      requested == Step(stream, "intervention.requested", id)
      target == IF requested = 0 THEN "none" ELSE stream[requested].agent
      progress == First({n \in ofType(stream, {"tool.succeeded"}) :
                           n > controlled /\ target \in {"none", stream[n].agent}})
      resolved == First({n \in ofType(stream, {"incident.resolved"}) :
                           stream[n].under = id /\ stream[n].detail = "recovered"})
  IN <<controlled, Step(stream, "intervention.succeeded", id), progress, resolved>>

proveRuntime(stream) ==
  LET applied == {n \in ofType(stream, {"runtime.controlled"}) :
                    stream[n].detail = "applied" /\ stream[n].ref # "none"}
  IN Claim([n \in applied |-> Effect(stream, n)], applied, 1)

(* An approval, the first request that cites it, and what became of the     *)
(* call; none of them has to come after another.                            *)
Activation(stream, opened) ==
  LET id == stream[opened].ref
      approved == First({n \in ofType(stream, {"human_escalation.resolved"}) :
                           stream[n].ref = id /\ stream[n].detail = "approved"})
      requested == First({n \in ofType(stream, {"tool.requested"}) : stream[n].under = id})
      OfCall(type) == First({n \in ofType(stream, {type}) :
                               /\ requested # 0 /\ stream[requested].call # "none"
                               /\ stream[n].call = stream[requested].call})
  IN <<opened, approved, requested, OfCall("identity.allowed"), OfCall("tool.succeeded")>>

proveActivation(stream) ==
  LET opened == {n \in ofType(stream, {"human_escalation.opened"}) : stream[n].ref # "none"}
  IN Claim([n \in opened |-> Activation(stream, n)], opened, 4)

PROVERS(stream) ==
  [slot \in SLOTS |-> CASE slot = "security" -> proveScreening(stream)
                        [] slot = "warden" -> proveWarden(stream)
                        [] slot = "runtime" -> proveRuntime(stream)
                        [] slot = "activation" -> proveActivation(stream)]

(* The proof path, in its order of display: where each step is anchored, 0  *)
(* when it was not reached.                                                 *)
proofPathFor(stream, proofs) ==
  <<First(ofType(stream, {"agent.spawned"})),
    First(ofType(stream, {"memory.recalled", "memory.written"})),
    proofs["security"].primary,
    proofs["runtime"].primary,
    First(ofType(stream, {"human_escalation.opened"})),
    proofs["activation"].primary>>

(* A tour stops at every step reached.                                      *)
tourFor(path) == {path[i] : i \in DOMAIN path} \ {0}

(* Defect: the last step in the order of display that the cursor is past.   *)
activeStepDisplayed(path, cursor) ==
  LET past == {i \in DOMAIN path : path[i] # 0 /\ path[i] <= cursor}
  IN IF past # {} THEN path[Max(past)] ELSE First(tourFor(path))

(* The anchor of the step the cursor is inside.                             *)
activeStep(path, cursor) ==
  LET past == {n \in tourFor(path) : n <= cursor}
  IN IF past # {} THEN Max(past) ELSE First(tourFor(path))

(* A chapter opens on the first event of its types, the result on the last. *)
chaptersFor(stream) ==
  LET Opens(types) == First(ofType(stream, types))
      results == ofType(stream, {"runtime.completed", "case.milestone_changed"})
  IN {Opens({"case.created"}), Opens({"armor.blocked"}), Opens({"agent.spawned"}),
      Opens({"memory.recalled", "memory.rejected"}), Opens({"incident.opened"}),
      Opens({"runtime.controlled", "intervention.succeeded"}),
      Opens({"human_escalation.opened"}), Opens({"identity.allowed"}),
      IF results = {} THEN 0 ELSE Max(results)} \ {0}

Told(stream, proofs) ==
  [cards    |-> [slot \in SLOTS |-> IF proofs[slot] = Unproven THEN "absent" ELSE "evidenced"],
   proofs   |-> proofs,
   path     |-> proofPathFor(stream, proofs),
   chapters |-> chaptersFor(stream)]

(* What did not load, or holds an event of a schema this build does not     *)
(* read, is not judged at all: the status says which.                       *)
enterpriseStory(status, stream) ==
  IF status = "loaded" THEN Told(stream, PROVERS(stream))
  ELSE [cards    |-> [slot \in SLOTS |-> status],
        proofs   |-> [slot \in SLOTS |-> Unproven],
        path     |-> <<0, 0, 0, 0, 0, 0>>,
        chapters |-> {}]
=============================================================================
