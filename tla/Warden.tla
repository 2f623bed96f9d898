------------------------------- MODULE Warden -------------------------------
(***************************************************************************)
(* The Warden (packages/warden): the policy that decides what may be done  *)
(* about an incident, and the lifecycle of the interventions it permits,   *)
(* up to the Control Adapter, which reaches each intervention id at most   *)
(* once.                                                                   *)
(*                                                                         *)
(* Interventions are values: whoever holds a copy may submit it again at   *)
(* any time.  Warden.execute is asynchronous; between its two awaits other *)
(* calls of it run.  What it has executed is a Map in the process.         *)
(***************************************************************************)
EXTENDS Naturals, FiniteSets, FiniteSetsExt

CONSTANTS
  Incidents,
  ClassOf,        (* ClassOf[n]: the incident class the detector found      *)
  AttemptBudget,  (* authorization.attemptBudget                            *)
  MaxAttempt,     (* bound: attempts are 1..MaxAttempt                      *)
  MaxProposals,   (* bound: proposals callers hold                          *)
  MaxRestarts     (* bound: times the process holding the Warden dies       *)

Classes == {"repeated_tool_failure", "no_progress_loop",
            "usage_threshold_breach", "context_drift"}

ASSUME WardenAssumption ==
  /\ ClassOf \in [Incidents -> Classes]
  /\ AttemptBudget \in Nat /\ MaxAttempt \in Nat /\ MaxProposals \in Nat /\ MaxRestarts \in Nat

----------------------------------------------------------------------------
(* The policy: DISPOSITION_RANK, the ceilings and evaluate.                 *)

observe == 0
recommend == 1
approval_required == 2
auto_act == 3
Dispositions == observe..auto_act

(* The only class the detector gives an action, an idempotent read retried. *)
hasTemplate(class) == class = "repeated_tool_failure"

ceilingForIncident(class) ==
  CASE class = "repeated_tool_failure" -> auto_act
    [] class \in {"no_progress_loop", "usage_threshold_breach"} -> approval_required
    [] class = "context_drift" -> observe

(* With nothing to do the strongest answer is to tell the operator.         *)
ceilingForAction(class) ==
  IF hasTemplate(class) THEN auto_act
  ELSE IF class = "context_drift" THEN observe ELSE recommend

weakest(a, b) == IF a <= b THEN a ELSE b

(* Defect: the budget is looked at only when no approval is recorded.       *)
evaluateUnbudgeted(class, approved, used) ==
  weakest(ceilingForIncident(class), ceilingForAction(class))

evaluate(class, approved, used) ==
  LET ceiling  == weakest(ceilingForIncident(class), ceilingForAction(class))
      budgeted == IF used >= AttemptBudget THEN weakest(ceiling, approval_required) ELSE ceiling
  IN IF budgeted = approval_required /\ approved
     THEN IF hasTemplate(class) THEN auto_act ELSE recommend
     ELSE budgeted

----------------------------------------------------------------------------

(* deriveInterventionId: the case and the action are those of the incident. *)
Ids == [incident : Incidents, attempt : 1..MaxAttempt]
NoId == [incident |-> "none", attempt |-> 0]

(* The states callers and execute's outcomes show.  on is the disposition   *)
(* of the evaluation an intervention was proposed on: its caller has both.  *)
(* fresh is history: that evaluation was what the policy still said.        *)
Settled == {"succeeded", "failed", "timed_out"}
States  == {"proposed", "authorized", "rejected", "requested"} \cup Settled
Intervention == [id : Ids, state : States, retryOf : Ids \cup {NoId},
                 on : Dispositions, fresh : BOOLEAN]

(* #executed's value for an id never requested.                             *)
Unseen == [id |-> NoId, state |-> "none", retryOf |-> NoId,
           on |-> observe, fresh |-> TRUE]

VARIABLES
  approved,   (* incidents with an operator approval on record              *)
  decisions,  (* policy evaluations callers hold                            *)
  held,       (* interventions callers hold                                 *)
  executed,   (* Warden.#executed: the intervention as its outcome has it   *)
  flight,     (* flight[i]: the await execute(i) is in, or "none"           *)
  requests,   (* requests[i]: calls of ControlAdapter.request for i         *)
  runtime,    (* runtime[i]: what the Runtime reported of i                 *)
  restarts

vars == <<approved, decisions, held, executed, flight, requests, runtime, restarts>>

Decision == [incident : Incidents, disposition : Dispositions]

TypeOK ==
  /\ approved \subseteq Incidents
  /\ decisions \subseteq Decision
  /\ held \subseteq Intervention
  /\ executed \in [Ids -> Intervention \cup {Unseen}]
  /\ flight \in [Ids -> {"none", "request", "observe"}]
  /\ requests \in [Ids -> 0..(MaxRestarts + 1)]
  /\ runtime \in [Ids -> {"nothing", "applied", "failed", "timed_out"}]
  /\ restarts \in 0..MaxRestarts

Init ==
  /\ approved = {} /\ decisions = {} /\ held = {}
  /\ executed = [i \in Ids |-> Unseen]
  /\ flight = [i \in Ids |-> "none"]
  /\ requests = [i \in Ids |-> 0]
  /\ runtime = [i \in Ids |-> "nothing"]
  /\ restarts = 0

(* Warden.executedInterventionIds, for one incident.                        *)
attemptsUsed(n) ==
  Cardinality({a \in 1..MaxAttempt : executed[[incident |-> n, attempt |-> a]] # Unseen})

current(n) == [incident |-> n, disposition |-> evaluate(ClassOf[n], n \in approved, attemptsUsed(n))]

RecordApproval(n) ==
  /\ approved' = approved \cup {n}
  /\ UNCHANGED <<decisions, held, executed, flight, requests, runtime, restarts>>

Evaluate(n) ==
  /\ decisions' = decisions \cup {current(n)}
  /\ UNCHANGED <<approved, held, executed, flight, requests, runtime, restarts>>

(* propose: the next attempt, on an evaluation that permits one, which its  *)
(* caller may have asked for long ago.                                      *)
Proposed(d, origin) ==
  /\ d \in decisions
  /\ d.disposition \in {auto_act, approval_required}
  /\ hasTemplate(ClassOf[d.incident])
  /\ attemptsUsed(d.incident) < MaxAttempt
  /\ Cardinality({i \in held : i.state = "proposed"}) < MaxProposals
  /\ held' = held \cup {[id |-> [incident |-> d.incident, attempt |-> attemptsUsed(d.incident) + 1],
                         state |-> "proposed", retryOf |-> origin,
                         on |-> d.disposition, fresh |-> d = current(d.incident)]}
  /\ UNCHANGED <<approved, decisions, executed, flight, requests, runtime, restarts>>

Propose(d) == Proposed(d, NoId)

(* retryOf: a new intervention, linked to the one that failed.              *)
Retry(o, d) ==
  /\ o \in held /\ o.state \in {"failed", "timed_out"} /\ o.id.incident = d.incident
  /\ Proposed(d, o.id)

(* transition(proposed, ...): the caller's verdict, given once for an id.   *)
(* It is the policy's when that was auto_act, else the operator's.          *)
Authorize(i, verdict) ==
  /\ i \in held /\ i.state = "proposed"
  /\ \A j \in held : j.id = i.id => j.state # "authorized" /\ j.state # "rejected"
  /\ verdict = "authorized" => i.on = auto_act \/ i.id.incident \in approved
  /\ held' = held \cup {[i EXCEPT !.state = verdict]}
  /\ UNCHANGED <<approved, decisions, executed, flight, requests, runtime, restarts>>

----------------------------------------------------------------------------
(* Warden.execute.                                                          *)

Reserve(i) ==
  /\ executed' = [executed EXCEPT ![i.id] = [i EXCEPT !.state = "requested"]]
  /\ flight' = [flight EXCEPT ![i.id] = "request"]
  /\ requests' = [requests EXCEPT ![i.id] = @ + 1]
  /\ UNCHANGED <<approved, decisions, held, runtime, restarts>>

(* Defect: the id is looked up only among the settled outcomes.             *)
ExecuteUnlessSettled(i) ==
  /\ i \in held /\ i.state = "authorized" /\ executed[i.id].state \notin Settled
  /\ requests[i.id] <= MaxRestarts + 1
  /\ Reserve(i)

(* Defect: the id is looked up only among the calls in flight.              *)
ExecuteUnlessInFlight(i) ==
  /\ i \in held /\ i.state = "authorized" /\ flight[i.id] = "none"
  /\ requests[i.id] <= MaxRestarts + 1
  /\ Reserve(i)

(* An id not seen before, authorized, with an adapter to ask: the id is     *)
(* reserved, and execute waits for the adapter.                             *)
Execute(i) ==
  /\ i \in held /\ executed[i.id] = Unseen /\ i.state = "authorized"
  /\ Reserve(i)

(* An id seen before: the caller is given the outcome as it stands.         *)
Redeliver(i) ==
  /\ i \in held /\ executed[i.id] # Unseen
  /\ held' = held \cup {executed[i.id]}
  /\ UNCHANGED <<approved, decisions, executed, flight, requests, runtime, restarts>>

Settle(id, outcome) ==
  LET settled == [executed[id] EXCEPT !.state = outcome]
  IN /\ executed' = [executed EXCEPT ![id] = settled]
     /\ held' = held \cup {settled}
     /\ flight' = [flight EXCEPT ![id] = "none"]
     /\ UNCHANGED <<approved, decisions, requests, restarts>>

(* The adapter rejects the request; the Runtime may have received it.       *)
RequestRejected(id) ==
  /\ flight[id] = "request"
  /\ Settle(id, "failed")
  /\ UNCHANGED runtime

(* Defect: an acknowledgement is taken for a success.                       *)
AcknowledgedIsDone(id) ==
  /\ flight[id] = "request"
  /\ Settle(id, "succeeded")
  /\ UNCHANGED runtime

RequestAcknowledged(id) ==
  /\ flight[id] = "request"
  /\ flight' = [flight EXCEPT ![id] = "observe"]
  /\ UNCHANGED <<approved, decisions, held, executed, requests, runtime, restarts>>

(* The Runtime's result decides, and a missing one is a timeout.            *)
Observed(id) ==
  /\ flight[id] = "observe"
  /\ \E result \in {"applied", "failed", "timed_out"} :
       /\ Settle(id, IF result = "applied" THEN "succeeded" ELSE result)
       /\ runtime' = [runtime EXCEPT ![id] = result]

(* The process dies: the Map and the calls in flight are gone.              *)
Restart ==
  /\ restarts < MaxRestarts
  /\ restarts' = restarts + 1
  /\ executed' = [i \in Ids |-> Unseen]
  /\ flight' = [i \in Ids |-> "none"]
  /\ UNCHANGED <<approved, decisions, held, requests, runtime>>

Next ==
  \/ \E n \in Incidents : RecordApproval(n) \/ Evaluate(n)
  \/ \E d \in decisions : Propose(d) \/ \E o \in held : Retry(o, d)
  \/ \E i \in held : \E verdict \in {"authorized", "rejected"} : Authorize(i, verdict)
  \/ \E i \in held : Execute(i) \/ Redeliver(i)
  \/ \E id \in Ids : RequestRejected(id) \/ RequestAcknowledged(id) \/ Observed(id)
  \/ Restart

Spec == Init /\ [][Next]_vars

----------------------------------------------------------------------------
(* Properties.                                                              *)

(* "One Intervention id reaches the Control Adapter at most once": a Warden *)
(* process asks once for an id, so that an id is asked for no oftener than  *)
(* there were processes.                                                    *)
AtMostOnce == \A id \in Ids : requests[id] <= restarts + 1

(* "succeeded requires the Runtime to have reported applied."               *)
SuccessIsAuthoritative ==
  \A id \in Ids : executed[id].state = "succeeded" => runtime[id] = "applied"

(* What reached the adapter was authorized: by a policy that found it safe  *)
(* or by an operator, and never over a rejection.                           *)
AuthorityPrecedesRequest ==
  \A id \in Ids : requests[id] > 0 =>
    /\ \E i \in held : i.id = id /\ i.state = "authorized"
                         /\ (i.on = auto_act \/ id.incident \in approved)
    /\ \A i \in held : i.id = id => i.state # "rejected"

(* An outcome, once settled, is never another one while the process lives.  *)
OutcomeIsFinal ==
  [][\A id \in Ids : executed[id].state \in Settled /\ restarts' = restarts
                      => executed'[id] = executed[id]]_vars

(* "The attempt budget is a hard stop, not a preference": of an incident no *)
(* operator approved, no more attempts than the budget reach the adapter,   *)
(* across restarts too, when each was proposed on what the policy then said.*)
BudgetIsHard ==
  \A n \in Incidents \ approved :
    (\A i \in held : i.id.incident = n => i.fresh) =>
      Cardinality({id \in Ids : id.incident = n /\ requests[id] > 0}) <= AttemptBudget
=============================================================================
