---------------------------- MODULE MCRunLedger ----------------------------
(* Instances of RunLedger small enough for TLC.                             *)
EXTENDS RunLedger, TLC

CONSTANTS r1, r2

LedgerSymmetry == Permutations(Runs)
=============================================================================
