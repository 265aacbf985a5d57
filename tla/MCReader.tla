------------------------------ MODULE MCReader ------------------------------
(* Instances of Reader for TLC: how much an execution may emit. *)
EXTENDS Reader, MCNonodoModel
=============================================================================
