-------------------------- MODULE MCRunController --------------------------
(***************************************************************************)
(* Instances of RunController small enough for TLC.                        *)
(***************************************************************************)
EXTENDS RunController, TLC

CONSTANTS r1, r2
=============================================================================
