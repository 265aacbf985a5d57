------------------------------- MODULE MCNode -------------------------------
(***************************************************************************)
(* Instances of Node for TLC.  The lists are those of a host without the   *)
(* inputter, of a host with a chain of its own, and of the GraphQL server  *)
(* of a v1 node, whose servers behind are left out.  Two inputs share a    *)
(* block, and two outputs an input.                                        *)
(***************************************************************************)
EXTENDS Node

ThreeInputs == 0 .. 2
TwoInABlock == [i \in ThreeInputs |-> <<1, 2, 2>>[i + 1]]

Lists ==
  {<<"server", "http", "http", "command">>,
   <<"inputter", "http">>,
   <<"synchronizer", "listener">>}

output(i, k) == [table |-> "notice", input |-> i, index |-> k]
FourOutputs == <<output(0, 0), output(0, 1), output(1, 0), output(2, 0)>>
FourthUndecodable == {output(2, 0)}
=============================================================================
