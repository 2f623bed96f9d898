---------------------------- MODULE WardenProofs ----------------------------
(***************************************************************************)
(* Proofs about Warden, for any incidents, budgets, attempts and restarts. *)
(***************************************************************************)
EXTENDS Warden, FiniteSetTheorems, TLAPS

----------------------------------------------------------------------------
(* Types.                                                                   *)

(* The attempts a caller counts are a natural number.                       *)
LEMMA UsedIsNat ==
  ASSUME WardenAssumption, NEW n
  PROVE  attemptsUsed(n) \in Nat
<1>1. IsFiniteSet(1..MaxAttempt)
  BY FS_Interval DEF WardenAssumption
<1>2. IsFiniteSet({a \in 1..MaxAttempt : executed[[incident |-> n, attempt |-> a]] # Unseen})
  BY <1>1, FS_Subset
<1> QED
  BY <1>2, FS_CardinalityType DEF attemptsUsed

(* The policy answers with a disposition.                                   *)
LEMMA EvaluateType ==
  ASSUME NEW class \in Classes, NEW a \in BOOLEAN, NEW used
  PROVE  evaluate(class, a, used) \in Dispositions
<1>1. ceilingForIncident(class) \in {observe, approval_required, auto_act}
  BY DEF ceilingForIncident, Classes
<1>2. ceilingForAction(class) \in {observe, recommend, auto_act}
  BY DEF ceilingForAction
<1> QED
  BY <1>1, <1>2 DEF evaluate, weakest, Dispositions, observe, recommend, approval_required, auto_act

(* A submitted intervention has an id, and reserving it keeps the types.    *)
LEMMA ReserveType ==
  ASSUME WardenAssumption, TypeOK, NEW i \in held, Reserve(i),
         requests[i.id] <= MaxRestarts
  PROVE  TypeOK'
<1>1. i \in Intervention /\ i.id \in Ids
  BY DEF TypeOK, Intervention
<1>2. [i EXCEPT !.state = "requested"] \in Intervention
  BY <1>1 DEF Intervention, States
<1>3. executed' \in [Ids -> Intervention \cup {Unseen}]
  BY <1>1, <1>2 DEF TypeOK, Reserve
<1>4. flight' \in [Ids -> {"none", "request", "observe"}]
  BY <1>1 DEF TypeOK, Reserve
<1>5. requests' \in [Ids -> 0..(MaxRestarts + 1)]
  BY <1>1 DEF TypeOK, Reserve, WardenAssumption
<1> QED
  BY <1>3, <1>4, <1>5 DEF TypeOK, Reserve

(* Settling a call in flight keeps the types of what it changes.            *)
LEMMA SettleType ==
  ASSUME TypeOK, NEW id \in Ids, NEW outcome \in Settled,
         executed[id] # Unseen, Settle(id, outcome)
  PROVE  /\ executed' \in [Ids -> Intervention \cup {Unseen}]
         /\ held' \subseteq Intervention
         /\ flight' \in [Ids -> {"none", "request", "observe"}]
<1>1. executed[id] \in Intervention
  BY DEF TypeOK
<1>2. [executed[id] EXCEPT !.state = outcome] \in Intervention
  BY <1>1 DEF Intervention, States
<1> QED
  BY <1>2 DEF TypeOK, Settle

(* What is proposed is an intervention of one of the attempts.              *)
LEMMA ProposedType ==
  ASSUME WardenAssumption, TypeOK, NEW d, NEW origin \in Ids \cup {NoId}, Proposed(d, origin)
  PROVE  TypeOK'
<1>1. d \in Decision
  BY DEF Proposed, TypeOK
<1>2. attemptsUsed(d.incident) + 1 \in 1..MaxAttempt
  BY UsedIsNat DEF Proposed, WardenAssumption
<1> DEFINE new == [id |-> [incident |-> d.incident, attempt |-> attemptsUsed(d.incident) + 1],
                   state |-> "proposed", retryOf |-> origin, on |-> d.disposition,
                   fresh |-> d = current(d.incident)]
<1>a. (d = current(d.incident)) \in BOOLEAN
  OBVIOUS
<1>3. new \in Intervention
  BY <1>a, <1>1, <1>2 DEF Intervention, Ids, States, Decision
<1>4. held' = held \cup {new}
  BY DEF Proposed
<1>5. held' \subseteq Intervention
  BY <1>3, <1>4 DEF TypeOK
<1> QED
  BY <1>5 DEF TypeOK, Proposed

----------------------------------------------------------------------------
(* The inductive invariant.                                                 *)

(* An id was requested at most once by this process and once by each of the *)
(* processes before it; a call in flight holds its reservation; a success   *)
(* was reported by the Runtime.                                             *)
Counted ==
  \A id \in Ids : requests[id] <= restarts + (IF executed[id] = Unseen THEN 0 ELSE 1)
FlightIsReserved ==
  \A id \in Ids : flight[id] # "none" => executed[id].state = "requested"
Inv == TypeOK /\ Counted /\ FlightIsReserved /\ SuccessIsAuthoritative

LEMMA InvInit == ASSUME WardenAssumption, Init PROVE Inv
<1>1. TypeOK
  BY DEF Init, TypeOK, WardenAssumption
<1>2. Counted
  BY DEF Init, Counted
<1>3. FlightIsReserved /\ SuccessIsAuthoritative
  BY DEF Init, FlightIsReserved, SuccessIsAuthoritative, Unseen
<1> QED
  BY <1>1, <1>2, <1>3 DEF Inv

(* A step of Warden.execute keeps all but the types as they were, or moves  *)
(* one id.                                                                  *)
LEMMA InvStep ==
  ASSUME WardenAssumption, Inv, [Next]_vars
  PROVE  Inv'
<1> USE DEF Inv
<1>1. ASSUME NEW n \in Incidents, RecordApproval(n)
      PROVE  Inv'
  BY <1>1 DEF RecordApproval, TypeOK, Counted, FlightIsReserved, SuccessIsAuthoritative
<1>2. ASSUME NEW n \in Incidents, Evaluate(n)
      PROVE  Inv'
  <2>1. current(n) \in Decision
    <3>1. ClassOf[n] \in Classes /\ (n \in approved) \in BOOLEAN
      BY DEF WardenAssumption
    <3>2. evaluate(ClassOf[n], n \in approved, attemptsUsed(n)) \in Dispositions
      BY <3>1, EvaluateType
    <3> QED
      BY <3>2 DEF current, Decision
  <2>2. TypeOK'
    BY <1>2, <2>1 DEF Evaluate, TypeOK
  <2> QED
    BY <1>2, <2>2 DEF Evaluate, Counted, FlightIsReserved, SuccessIsAuthoritative
<1>3. ASSUME NEW d, NEW origin \in Ids \cup {NoId}, Proposed(d, origin)
      PROVE  Inv'
  <2>1. TypeOK'
    BY <1>3, ProposedType
  <2> QED
    BY <1>3, <2>1 DEF Proposed, Counted, FlightIsReserved, SuccessIsAuthoritative
<1>4. ASSUME NEW d \in decisions, Propose(d)
      PROVE  Inv'
  BY <1>3, <1>4 DEF Propose
<1>5. ASSUME NEW d \in decisions, NEW o \in held, Retry(o, d)
      PROVE  Inv'
  <2>1. o.id \in Ids
    BY DEF TypeOK, Intervention
  <2> QED
    BY <1>3, <1>5, <2>1 DEF Retry
<1>6. ASSUME NEW i \in held, NEW verdict \in {"authorized", "rejected"}, Authorize(i, verdict)
      PROVE  Inv'
  <2>1. [i EXCEPT !.state = verdict] \in Intervention
    BY DEF TypeOK, Intervention, States
  <2>2. TypeOK'
    BY <1>6, <2>1 DEF Authorize, TypeOK
  <2> QED
    BY <1>6, <2>2 DEF Authorize, Counted, FlightIsReserved, SuccessIsAuthoritative
<1>7. ASSUME NEW i \in held, Execute(i)
      PROVE  Inv'
  <2>1. i.id \in Ids /\ executed[i.id] = Unseen /\ Reserve(i)
    BY <1>7 DEF TypeOK, Intervention, Execute
  <2>2. requests[i.id] <= restarts /\ restarts <= MaxRestarts /\ restarts \in Nat
    BY <2>1 DEF Counted, TypeOK, WardenAssumption
  <2>3. TypeOK'
    BY <2>1, <2>2, ReserveType DEF TypeOK, WardenAssumption
  <2>4. i \in Intervention
    BY DEF TypeOK
  <2>5. executed'[i.id] = [i EXCEPT !.state = "requested"]
    BY <2>1 DEF Reserve, TypeOK
  <2>6. executed'[i.id].state = "requested" /\ executed'[i.id] # Unseen
    BY <2>4, <2>5 DEF Intervention, Unseen
  <2>7. \A id \in Ids \ {i.id} : /\ executed'[id] = executed[id]
                                 /\ flight'[id] = flight[id]
                                 /\ requests'[id] = requests[id]
    BY <2>1 DEF Reserve, TypeOK
  <2>8. requests'[i.id] = requests[i.id] + 1 /\ restarts' = restarts /\ runtime' = runtime
    BY <2>1 DEF Reserve, TypeOK
  <2>9. Counted'
    BY <2>2, <2>6, <2>7, <2>8 DEF Counted, TypeOK
  <2>10. FlightIsReserved' /\ SuccessIsAuthoritative'
    BY <2>6, <2>7, <2>8 DEF FlightIsReserved, SuccessIsAuthoritative
  <2> QED
    BY <2>3, <2>9, <2>10
<1>8. ASSUME NEW i \in held, Redeliver(i)
      PROVE  Inv'
  <2>1. executed[i.id] \in Intervention
    BY <1>8 DEF Redeliver, TypeOK, Intervention
  <2>2. TypeOK'
    BY <1>8, <2>1 DEF Redeliver, TypeOK
  <2> QED
    BY <1>8, <2>2 DEF Redeliver, Counted, FlightIsReserved, SuccessIsAuthoritative
<1>9. ASSUME NEW id \in Ids, NEW outcome \in Settled, flight[id] # "none", Settle(id, outcome),
             outcome = "succeeded" => runtime'[id] = "applied",
             runtime' \in [Ids -> {"nothing", "applied", "failed", "timed_out"}],
             \A j \in Ids \ {id} : runtime'[j] = runtime[j]
      PROVE  Inv'
  <2>1. executed[id].state = "requested" /\ executed[id] # Unseen
    BY <1>9 DEF FlightIsReserved, Unseen
  <2>2. TypeOK'
    BY <1>9, <2>1, SettleType DEF TypeOK, Settle
  <2>3. executed[id] \in Intervention
    BY <2>1 DEF TypeOK
  <2>4. executed'[id] = [executed[id] EXCEPT !.state = outcome]
    BY <1>9 DEF Settle, TypeOK
  <2>5. executed'[id].state = outcome /\ executed'[id] # Unseen
    BY <2>3, <2>4 DEF Intervention, Unseen, Settled
  <2>6. \A j \in Ids \ {id} : executed'[j] = executed[j] /\ flight'[j] = flight[j]
    BY <1>9 DEF Settle, TypeOK
  <2>7. flight'[id] = "none" /\ requests' = requests /\ restarts' = restarts
    BY <1>9 DEF Settle, TypeOK
  <2>8. Counted'
    BY <2>1, <2>5, <2>6, <2>7 DEF Counted
  <2>9. FlightIsReserved'
    BY <2>6, <2>7 DEF FlightIsReserved
  <2>10. SuccessIsAuthoritative'
    BY <1>9, <2>5, <2>6 DEF SuccessIsAuthoritative
  <2> QED
    BY <2>2, <2>8, <2>9, <2>10
<1>10. ASSUME NEW id \in Ids, RequestRejected(id)
       PROVE  Inv'
  BY <1>9, <1>10 DEF RequestRejected, Settled, TypeOK
<1>11. ASSUME NEW id \in Ids, RequestAcknowledged(id)
       PROVE  Inv'
  BY <1>11 DEF RequestAcknowledged, TypeOK, Counted, FlightIsReserved, SuccessIsAuthoritative
<1>12. ASSUME NEW id \in Ids, Observed(id)
       PROVE  Inv'
  <2>1. PICK result \in {"applied", "failed", "timed_out"} :
          /\ Settle(id, IF result = "applied" THEN "succeeded" ELSE result)
          /\ runtime' = [runtime EXCEPT ![id] = result]
    BY <1>12 DEF Observed
  <2> QED
    BY <1>9, <1>12, <2>1 DEF Observed, Settled, TypeOK
<1>13. ASSUME Restart
       PROVE  Inv'
  <2>1. TypeOK'
    BY <1>13 DEF Restart, TypeOK, WardenAssumption
  <2>2. Counted'
    BY <1>13 DEF Restart, Counted, TypeOK, WardenAssumption
  <2>3. FlightIsReserved' /\ SuccessIsAuthoritative'
    BY <1>13 DEF Restart, FlightIsReserved, SuccessIsAuthoritative, Unseen
  <2> QED
    BY <2>1, <2>2, <2>3
<1>14. CASE UNCHANGED vars
  BY <1>14 DEF vars, TypeOK, Counted, FlightIsReserved, SuccessIsAuthoritative
<1> QED
  BY <1>1, <1>2, <1>4, <1>5, <1>6, <1>7, <1>8, <1>10, <1>11, <1>12, <1>13, <1>14 DEF Next

LEMMA InvHolds == WardenAssumption => (Spec => []Inv)
<1> SUFFICES ASSUME WardenAssumption PROVE Spec => []Inv
  OBVIOUS
<1>1. Init => Inv
  BY InvInit
<1>2. Inv /\ [Next]_vars => Inv'
  BY InvStep
<1> QED
  BY <1>1, <1>2, PTL DEF Spec

----------------------------------------------------------------------------
(* Results.                                                                 *)

(* Every variable keeps its type; in particular an id is requested no more  *)
(* often than the process has been started.                                 *)
THEOREM WardenTypes == WardenAssumption => (Spec => []TypeOK)
<1>1. Inv => TypeOK
  BY DEF Inv
<1> QED
  BY <1>1, InvHolds, PTL

(* A Warden process asks the Control Adapter at most once for an            *)
(* intervention id, whatever is submitted, resubmitted or retried: an id is *)
(* asked for no oftener than there were processes.                          *)
THEOREM RequestedOnce == WardenAssumption => (Spec => []AtMostOnce)
<1>1. ASSUME Inv, NEW id \in Ids PROVE requests[id] <= restarts + 1
  <2>1. requests[id] <= restarts + (IF executed[id] = Unseen THEN 0 ELSE 1)
    BY <1>1 DEF Inv, Counted
  <2>2. requests[id] \in Nat /\ restarts \in Nat
    BY <1>1 DEF Inv, TypeOK
  <2> QED
    BY <2>1, <2>2
<1>2. Inv => AtMostOnce
  BY <1>1 DEF AtMostOnce
<1> QED
  BY <1>2, InvHolds, PTL

(* An intervention is recorded as succeeded only when the Runtime reported  *)
(* that it was applied, restarts or not.                                    *)
THEOREM SuccessFromRuntime == WardenAssumption => (Spec => []SuccessIsAuthoritative)
<1>1. Inv => SuccessIsAuthoritative
  BY DEF Inv
<1> QED
  BY <1>1, InvHolds, PTL

(* While a Warden process lives, an outcome it has settled is never         *)
(* replaced.                                                                *)
THEOREM SettledIsFinal == WardenAssumption => (Spec => OutcomeIsFinal)
<1> SUFFICES ASSUME WardenAssumption PROVE Spec => OutcomeIsFinal
  OBVIOUS
<1> DEFINE Final == \A id \in Ids : executed[id].state \in Settled /\ restarts' = restarts
                                    => executed'[id] = executed[id]
<1>1. ASSUME Inv, [Next]_vars PROVE Final
  <2> USE <1>1 DEF Inv
  <2>1. ASSUME NEW i \in held, Execute(i) PROVE Final
    <3>1. executed[i.id].state = "none"
      BY <2>1 DEF Execute, Unseen
    <3> QED
      BY <2>1, <3>1 DEF Execute, Reserve, TypeOK, Settled
  <2>2. ASSUME NEW id \in Ids, flight[id] # "none",
               NEW outcome, Settle(id, outcome)
        PROVE  Final
    BY <2>2 DEF Settle, FlightIsReserved, TypeOK, Settled
  <2>3. ASSUME NEW id \in Ids, RequestRejected(id) \/ Observed(id) PROVE Final
    BY <2>2, <2>3 DEF RequestRejected, Observed
  <2>4. ASSUME Restart PROVE Final
    BY <2>4 DEF Restart, TypeOK
  <2>5. CASE UNCHANGED executed
    BY <2>5
  <2> QED
    BY <2>1, <2>3, <2>4, <2>5 DEF Next, vars, RecordApproval, Evaluate, Propose, Retry, Proposed,
       Authorize, Redeliver, RequestAcknowledged
<1>2. Inv /\ [Next]_vars => [Final]_vars
  BY <1>1
<1> QED
  BY <1>2, InvHolds, PTL DEF Spec, OutcomeIsFinal

----------------------------------------------------------------------------
(* Authority.                                                               *)

(* An authorized intervention was allowed to be, a rejected one has no      *)
(* authorized copy, and what was executed was authorized.                   *)
Backed(i) == i.on = auto_act \/ i.id.incident \in approved
AuthInv ==
  /\ \A i \in held : i.state = "authorized" => Backed(i)
  /\ \A i, j \in held : i.id = j.id /\ i.state = "authorized" => j.state # "rejected"
  /\ \A id \in Ids : requests[id] > 0 => \E i \in held : i.id = id /\ i.state = "authorized"
  /\ \A id \in Ids : executed[id].state \notin {"authorized", "rejected"}

(* Every step keeps what authority there was, and gives none by itself.     *)
LEMMA AuthStep == ASSUME Inv, AuthInv, [Next]_vars PROVE AuthInv'
<1> USE DEF Inv
<1>1. ASSUME NEW n \in Incidents, RecordApproval(n) \/ Evaluate(n) PROVE AuthInv'
  BY <1>1 DEF RecordApproval, Evaluate, AuthInv, Backed
<1>2. ASSUME NEW d, NEW origin, Proposed(d, origin) PROVE AuthInv'
  BY <1>2 DEF Proposed, AuthInv, Backed
<1>3. ASSUME NEW i \in held, NEW verdict \in {"authorized", "rejected"}, Authorize(i, verdict)
      PROVE  AuthInv'
  <2> DEFINE k == [i EXCEPT !.state = verdict]
  <2>1. k.id = i.id /\ k.on = i.on /\ k.state = verdict
    BY DEF TypeOK, Intervention
  <2>2. held' = held \cup {k}
    BY <1>3 DEF Authorize
  <2>3. verdict = "authorized" => Backed(k)
    BY <1>3, <2>1 DEF Authorize, Backed
  <2>4. \A j \in held : j.id = k.id => j.state # "authorized" /\ j.state # "rejected"
    BY <1>3, <2>1 DEF Authorize
  <2>5. UNCHANGED <<approved, executed, requests>>
    BY <1>3 DEF Authorize
  <2> HIDE DEF k
  <2>6. (\A j \in held : j.state = "authorized" => Backed(j))'
    BY <2>1, <2>2, <2>3, <2>5 DEF AuthInv, Backed
  <2>7. (\A a, b \in held : a.id = b.id /\ a.state = "authorized" => b.state # "rejected")'
    BY <2>1, <2>2, <2>4 DEF AuthInv
  <2> QED
    BY <2>2, <2>5, <2>6, <2>7 DEF AuthInv
<1>4. ASSUME NEW i \in held, Execute(i) PROVE AuthInv'
  <2>1. i.id \in Ids /\ i \in Intervention /\ i.state = "authorized"
    BY <1>4 DEF Execute, TypeOK, Intervention
  <2>2. executed' = [executed EXCEPT ![i.id] = [i EXCEPT !.state = "requested"]]
    BY <1>4 DEF Execute, Reserve
  <2>3. executed'[i.id].state = "requested"
    BY <2>1, <2>2 DEF TypeOK, Intervention
  <2>4. \A id \in Ids : executed'[id].state \notin {"authorized", "rejected"}
    BY <2>1, <2>2, <2>3 DEF TypeOK, AuthInv
  <2>5. \A id \in Ids : id # i.id => requests'[id] = requests[id]
    BY <1>4 DEF Execute, Reserve, TypeOK
  <2>6. UNCHANGED <<held, approved>>
    BY <1>4 DEF Execute, Reserve
  <2> QED
    BY <2>1, <2>4, <2>5, <2>6 DEF AuthInv, Backed
<1>5. ASSUME NEW i \in held, Redeliver(i) PROVE AuthInv'
  <2>1. i.id \in Ids
    BY DEF TypeOK, Intervention
  <2> QED
    BY <1>5, <2>1 DEF Redeliver, AuthInv, Backed
<1>6. ASSUME NEW id \in Ids, flight[id] # "none", NEW outcome \in Settled, Settle(id, outcome)
      PROVE  AuthInv'
  <2>1. executed[id].state = "requested" /\ executed[id] \in Intervention
    BY <1>6 DEF FlightIsReserved, TypeOK, Unseen
  <2> DEFINE k == [executed[id] EXCEPT !.state = outcome]
  <2>2. k.state = outcome /\ outcome \notin {"authorized", "rejected"}
    BY <2>1 DEF Intervention, Settled
  <2>3. held' = held \cup {k} /\ executed' = [executed EXCEPT ![id] = k]
    BY <1>6 DEF Settle
  <2>4. UNCHANGED <<approved, requests>>
    BY <1>6 DEF Settle
  <2> HIDE DEF k
  <2>5. \A j \in Ids : executed'[j].state \notin {"authorized", "rejected"}
    BY <2>2, <2>3 DEF AuthInv, TypeOK
  <2> QED
    BY <2>2, <2>3, <2>4, <2>5 DEF AuthInv, Backed
<1>7. ASSUME NEW id \in Ids, RequestRejected(id) \/ Observed(id) PROVE AuthInv'
  BY <1>6, <1>7 DEF RequestRejected, Observed, Settled
<1>8. ASSUME NEW id \in Ids, RequestAcknowledged(id) PROVE AuthInv'
  BY <1>8 DEF RequestAcknowledged, AuthInv, Backed
<1>9. ASSUME Restart PROVE AuthInv'
  BY <1>9 DEF Restart, AuthInv, Backed, Unseen
<1>10. CASE UNCHANGED vars
  BY <1>10 DEF vars, AuthInv, Backed
<1> QED
  BY <1>1, <1>2, <1>3, <1>4, <1>5, <1>7, <1>8, <1>9, <1>10 DEF Next, Propose, Retry

(* What reached the adapter had been authorized, by a policy that found it  *)
(* safe or over an operator's approval, and never over a rejection, however *)
(* often copies are resubmitted and whatever restarts.                      *)
THEOREM RequestsAreAuthorized == WardenAssumption => (Spec => []AuthorityPrecedesRequest)
<1> SUFFICES ASSUME WardenAssumption PROVE Spec => []AuthorityPrecedesRequest
  OBVIOUS
<1>1. Init => AuthInv
  BY DEF Init, AuthInv, Unseen
<1>2. Inv /\ AuthInv /\ [Next]_vars => AuthInv'
  BY AuthStep
<1>3. AuthInv => AuthorityPrecedesRequest
  BY DEF AuthInv, AuthorityPrecedesRequest, Backed
<1> QED
  BY <1>1, <1>2, <1>3, InvHolds, PTL DEF Spec

----------------------------------------------------------------------------
(* The attempt budget.                                                      *)

(* Without an approval the policy acts by itself only below the budget.     *)
LEMMA ActsBelowBudget ==
  ASSUME WardenAssumption, NEW class \in Classes, NEW used \in Nat,
         evaluate(class, FALSE, used) = auto_act
  PROVE  used < AttemptBudget
<1> DEFINE ceiling == weakest(ceilingForIncident(class), ceilingForAction(class))
<1>1. ceiling \in Dispositions
  <2>1. ceilingForIncident(class) \in {observe, approval_required, auto_act}
    BY DEF ceilingForIncident, Classes
  <2>2. ceilingForAction(class) \in {observe, recommend, auto_act}
    BY DEF ceilingForAction
  <2> QED
    BY <2>1, <2>2 DEF weakest, Dispositions, observe, recommend, approval_required, auto_act
<1>2. evaluate(class, FALSE, used)
        = IF used >= AttemptBudget THEN weakest(ceiling, approval_required) ELSE ceiling
  BY DEF evaluate
<1> HIDE DEF ceiling
<1>3. weakest(ceiling, approval_required) # auto_act
  BY <1>1 DEF weakest, Dispositions, observe, approval_required, auto_act
<1>4. ~ used >= AttemptBudget
  BY <1>2, <1>3
<1> QED
  BY <1>4 DEF WardenAssumption

(* An intervention the policy let act by itself, while it still said so and *)
(* no operator has approved the incident, is within the budget.  (One never *)
(* seen was let do nothing.)                                                *)
Within(i) ==
  i.fresh /\ i.on = auto_act /\ i.id.incident \notin approved => i.id.attempt <= AttemptBudget
BudgetInv == (\A i \in held : Within(i)) /\ \A id \in Ids : Within(executed[id])

(* A copy in another state is as far within the budget as the original.     *)
LEMMA CopyWithin ==
  ASSUME NEW i \in Intervention, NEW state
  PROVE  LET k == [i EXCEPT !.state = state]
         IN  k.id = i.id /\ k.on = i.on /\ k.fresh = i.fresh
BY DEF Intervention

(* What is proposed is numbered by the attempts its evaluation counted.     *)
LEMMA ProposedWithin ==
  ASSUME WardenAssumption, Inv, BudgetInv, NEW d, NEW origin, Proposed(d, origin)
  PROVE  BudgetInv'
<1> DEFINE n   == d.incident
           used == attemptsUsed(n)
           new == [id |-> [incident |-> n, attempt |-> used + 1],
                   state |-> "proposed", retryOf |-> origin, on |-> d.disposition,
                   fresh |-> d = current(n)]
<1>1. n \in Incidents /\ held' = held \cup {new} /\ UNCHANGED <<approved, executed>>
  BY DEF Proposed, Inv, TypeOK, Decision
<1>2. ASSUME d = current(n), d.disposition = auto_act, n \notin approved
      PROVE  used + 1 <= AttemptBudget
  <2>1. used \in Nat /\ ClassOf[n] \in Classes
    BY <1>1, UsedIsNat DEF WardenAssumption
  <2>2. evaluate(ClassOf[n], FALSE, used) = auto_act
    <3>1. current(n).disposition = evaluate(ClassOf[n], n \in approved, used)
      BY DEF current
    <3>2. (n \in approved) = FALSE
      BY <1>2
    <3> QED
      BY <1>2, <3>1, <3>2
  <2>3. used < AttemptBudget
    BY <2>1, <2>2, ActsBelowBudget
  <2> QED
    BY <2>1, <2>3 DEF WardenAssumption
<1>3. /\ new.fresh <=> d = current(n)
      /\ new.on = d.disposition /\ new.id.incident = n /\ new.id.attempt = used + 1
  OBVIOUS
<1>4. PICK k : /\ held' = held \cup {k}
               /\ k.fresh <=> d = current(n)
               /\ k.on = d.disposition /\ k.id.incident = n /\ k.id.attempt = used + 1
  BY <1>1, <1>3
<1> HIDE DEF new, used
<1>5. k.fresh /\ k.on = auto_act /\ k.id.incident \notin approved' => k.id.attempt <= AttemptBudget
  BY <1>1, <1>2, <1>4
<1> QED
  BY <1>1, <1>4, <1>5 DEF BudgetInv, Within

LEMMA BudgetStep ==
  ASSUME WardenAssumption, Inv, BudgetInv, [Next]_vars PROVE BudgetInv'
<1> USE DEF Inv
<1>1. ASSUME NEW n \in Incidents, RecordApproval(n) \/ Evaluate(n) PROVE BudgetInv'
  BY <1>1 DEF RecordApproval, Evaluate, BudgetInv, Within
<1>2. ASSUME NEW d, NEW origin, Proposed(d, origin) PROVE BudgetInv'
  BY <1>2, ProposedWithin
<1>3. ASSUME NEW i \in held, NEW verdict \in {"authorized", "rejected"}, Authorize(i, verdict)
      PROVE  BudgetInv'
  <2> DEFINE k == [i EXCEPT !.state = verdict]
  <2>1. k.id = i.id /\ k.on = i.on /\ k.fresh = i.fresh
    BY CopyWithin DEF TypeOK
  <2>2. held' = held \cup {k} /\ UNCHANGED <<approved, executed>>
    BY <1>3 DEF Authorize
  <2> HIDE DEF k
  <2> QED
    BY <2>1, <2>2 DEF BudgetInv, Within
<1>4. ASSUME NEW i \in held, Execute(i) PROVE BudgetInv'
  <2> DEFINE k == [i EXCEPT !.state = "requested"]
  <2>1. k.id = i.id /\ k.on = i.on /\ k.fresh = i.fresh
    BY CopyWithin DEF TypeOK
  <2>2. executed' = [executed EXCEPT ![i.id] = k] /\ UNCHANGED <<held, approved>>
    BY <1>4 DEF Execute, Reserve
  <2> HIDE DEF k
  <2> QED
    BY <2>1, <2>2 DEF BudgetInv, Within, TypeOK
<1>5. ASSUME NEW i \in held, Redeliver(i) PROVE BudgetInv'
  <2>1. i.id \in Ids
    BY DEF TypeOK, Intervention
  <2> QED
    BY <1>5, <2>1 DEF Redeliver, BudgetInv, Within
<1>6. ASSUME NEW id \in Ids, flight[id] # "none", NEW outcome, Settle(id, outcome)
      PROVE  BudgetInv'
  <2> DEFINE k == [executed[id] EXCEPT !.state = outcome]
  <2>1. executed[id] \in Intervention
    BY <1>6 DEF FlightIsReserved, TypeOK, Unseen
  <2>2. k.id = executed[id].id /\ k.on = executed[id].on /\ k.fresh = executed[id].fresh
    BY <2>1, CopyWithin
  <2>3. /\ held' = held \cup {k} /\ executed' = [executed EXCEPT ![id] = k]
        /\ approved' = approved
    BY <1>6 DEF Settle
  <2> HIDE DEF k
  <2> QED
    BY <2>2, <2>3 DEF BudgetInv, Within, TypeOK
<1>7. ASSUME NEW id \in Ids, RequestRejected(id) \/ Observed(id) PROVE BudgetInv'
  BY <1>6, <1>7 DEF RequestRejected, Observed
<1>8. ASSUME NEW id \in Ids, RequestAcknowledged(id) PROVE BudgetInv'
  BY <1>8 DEF RequestAcknowledged, BudgetInv, Within
<1>9. ASSUME Restart PROVE BudgetInv'
  <2>1. Unseen.on # auto_act
    BY DEF Unseen, observe, auto_act
  <2> QED
    BY <1>9, <2>1 DEF Restart, BudgetInv, Within
<1>10. CASE UNCHANGED vars
  BY <1>10 DEF vars, BudgetInv, Within
<1> QED
  BY <1>1, <1>2, <1>3, <1>4, <1>5, <1>7, <1>8, <1>9, <1>10 DEF Next, Propose, Retry

(* Of an incident no operator approved, no more attempts than the budget    *)
(* reach the adapter, across restarts too, when each was proposed on what   *)
(* the policy then said.                                                    *)
THEOREM AttemptsAreBudgeted == WardenAssumption => (Spec => []BudgetIsHard)
<1> SUFFICES ASSUME WardenAssumption PROVE Spec => []BudgetIsHard
  OBVIOUS
<1>1. Init => BudgetInv
  <2>1. Unseen.on # auto_act
    BY DEF Unseen, observe, auto_act
  <2> QED
    BY <2>1 DEF Init, BudgetInv, Within
<1>2. Inv /\ BudgetInv /\ [Next]_vars => BudgetInv'
  BY BudgetStep
<1>3. Init => AuthInv
  BY DEF Init, AuthInv, Unseen
<1>4. Inv /\ AuthInv /\ [Next]_vars => AuthInv'
  BY AuthStep
<1>5. ASSUME Inv, AuthInv, BudgetInv PROVE BudgetIsHard
  <2> SUFFICES ASSUME NEW n \in Incidents \ approved, \A i \in held : i.id.incident = n => i.fresh
               PROVE  Cardinality({id \in Ids : id.incident = n /\ requests[id] > 0}) <= AttemptBudget
    BY DEF BudgetIsHard
  <2> DEFINE asked    == {id \in Ids : id.incident = n /\ requests[id] > 0}
             attempts == 1..AttemptBudget
             number   == [id \in asked |-> id.attempt]
  <2>1. IsFiniteSet(attempts) /\ Cardinality(attempts) = AttemptBudget
    BY FS_Interval DEF WardenAssumption
  <2>2. ASSUME NEW id \in asked PROVE id.attempt \in attempts
    <3>1. PICK i \in held : i.id = id /\ i.state = "authorized"
      BY <1>5 DEF AuthInv
    <3>2. i.on = auto_act /\ i.fresh
      BY <1>5, <3>1 DEF AuthInv, Backed
    <3>3. i.id.attempt <= AttemptBudget
      BY <1>5, <3>1, <3>2 DEF BudgetInv, Within
    <3> QED
      BY <3>1, <3>3 DEF Ids, WardenAssumption
  <2>3. \A a, b \in asked : a.attempt = b.attempt => a = b
    BY DEF Ids
  <2> HIDE DEF asked, attempts
  <2>4. number \in Injection(asked, attempts)
    BY <2>2, <2>3 DEF Injection, IsInjective
  <2>5. Cardinality(asked) <= Cardinality(attempts)
    BY <2>1, <2>4, FS_Injection
  <2> QED
    BY <2>1, <2>5 DEF asked
<1> QED
  BY <1>1, <1>2, <1>3, <1>4, <1>5, InvHolds, PTL DEF Spec
=============================================================================
