----------------------------- MODULE MCFlowGate -----------------------------
(* The gate with a ceiling of two bytes and packets of two bytes: the      *)
(* stream passes the ceiling, parks and is let in again several times.     *)
EXTENDS FlowGate
=============================================================================
