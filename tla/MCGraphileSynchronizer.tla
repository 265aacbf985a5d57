----------------------- MODULE MCGraphileSynchronizer -----------------------
(* Instances of GraphileSynchronizer for TLC: what the node's feeds hold. *)
EXTENDS GraphileSynchronizer

voucher(i, k) == [table |-> "voucher", input |-> i, index |-> k]
notice(i, k) == [table |-> "notice", input |-> i, index |-> k]
report(i, k) == [table |-> "report", input |-> i, index |-> k]
input(i) == [table |-> "input", input |-> i, index |-> 0]

(***************************************************************************)
(* Two inputs; the first one has two vouchers and two reports, which pages *)
(* of two entries keep together or tear apart.                             *)
(***************************************************************************)
SourceSeveralOutputs ==
  [outputs |-> <<voucher(0, 0), notice(0, 1), voucher(0, 2), voucher(1, 0)>>,
   inputs  |-> <<input(0)>>,
   reports |-> <<report(0, 0), report(0, 1), report(1, 0)>>]

(* At most one row of each table for an input. *)
SourceOneOutput ==
  [outputs |-> <<voucher(0, 0), notice(0, 1), voucher(1, 0)>>,
   inputs  |-> <<input(0), input(1), input(2)>>,
   reports |-> <<report(0, 0), report(1, 0)>>]

NoneUndecodable == {}
LastOutputUndecodable == {voucher(1, 0)}
=============================================================================
