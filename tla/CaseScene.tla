----------------------------- MODULE CaseScene -----------------------------
(***************************************************************************)
(* What every page of a case is computed from: the canonical stream, its   *)
(* projection, and the renderer session it compiles to.                    *)
(***************************************************************************)
EXTENDS Canonicalizer, Projector

(* What the schema leaves to the sources: orders are numbers, and what a    *)
(* meter records is a count.                                                *)
Countable(e) ==
  /\ e.key \in Nat /\ e.instant \in Nat /\ e.text \in Nat
  /\ e.type = "usage.recorded" => e.amount \in Nat

Scene == INSTANCE SceneCompiler
=============================================================================
