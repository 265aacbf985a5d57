----------------------------- MODULE MCInputter -----------------------------
(* An instance of Inputter for TLC: two inputs share a block. *)
EXTENDS Inputter

FourInputs == 0 .. 3
TwoInABlock == [i \in FourInputs |-> <<1, 2, 2, 4>>[i + 1]]
=============================================================================
