---------------------------- MODULE MCRollupAPI ----------------------------
(* An instance of RollupAPI for TLC. *)
EXTENDS RollupAPI

TwoInputs == 0 .. 1
=============================================================================
