------------------------------ MODULE MCWarden ------------------------------
(* An instance of Warden small enough for TLC: an incident of the one class *)
(* an intervention can be proposed for.                                     *)
EXTENDS Warden

OneClass == [n \in {"failing"} |-> "repeated_tool_failure"]
=============================================================================
