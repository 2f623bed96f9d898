----------------------------- MODULE MCLivePage -----------------------------
EXTENDS LivePage, TLC

CONSTANTS r1, r2, s1, s2

Item(r, s, kind, terminal) ==
  [run |-> r, sequence |-> s, event |-> [kind |-> kind, terminal |-> terminal]]

(* What a call posts: a step, a call with the end after it, an end under the *)
(* number of either; an item that names another run is not stored.          *)
PageBatches ==
  {<<Item(r1, 1, "step", "none")>>,
   <<Item(r1, 1, "model_call", "none"), Item(r1, 2, "run_end", "succeeded")>>,
   <<Item(r1, 1, "run_end", "failed"), Item(r2, 1, "run_end", "succeeded")>>}

(* Ticks differ in nothing but when they began.                             *)
TickSymmetry == Permutations(Slots)
=============================================================================
