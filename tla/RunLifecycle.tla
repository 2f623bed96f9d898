---------------------------- MODULE RunLifecycle ----------------------------
(***************************************************************************)
(* What the run controller promises, with no executor, route or file: a    *)
(* run takes the single slot when it is admitted, may start running, and   *)
(* leaves the slot once, for good.                                         *)
(***************************************************************************)
CONSTANTS Runs, Final
VARIABLE life

Holding == {r \in Runs : life[r] \in {"admitted", "running"}}

LifeInit == life = [r \in Runs |-> "none"]

Admit(r) ==
  /\ life[r] = "none"
  /\ Holding = {}
  /\ life' = [life EXCEPT ![r] = "admitted"]

Begin(r) ==
  /\ life[r] = "admitted"
  /\ life' = [life EXCEPT ![r] = "running"]

Finish(r) ==
  /\ r \in Holding
  /\ \E outcome \in Final : life' = [life EXCEPT ![r] = outcome]

LifeNext == \E r \in Runs : Admit(r) \/ Begin(r) \/ Finish(r)

LifeSpec == LifeInit /\ [][LifeNext]_life
=============================================================================
