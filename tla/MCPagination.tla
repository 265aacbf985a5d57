---------------------------- MODULE MCPagination ----------------------------
(* Instances of Pagination for TLC: the arguments that clients give. *)
EXTENDS Pagination

LimitsAroundTable == {-1, 0, 1, 2, 3, 7}
CursorsAroundTable == -1 .. 6
=============================================================================
