---------------------------- MODULE MCAdkSession ----------------------------
(* AdkSession's constants are two numbers: its .cfg files give them.        *)
EXTENDS AdkSession
=============================================================================
