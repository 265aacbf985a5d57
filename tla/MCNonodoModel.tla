---------------------------- MODULE MCNonodoModel ----------------------------
(* Instances of NonodoModel for TLC: how much an execution may emit. *)
EXTENDS NonodoModel

TwoVouchersAndReport == [voucher |-> 2, notice |-> 0, report |-> 1]
VoucherAndReport == [voucher |-> 1, notice |-> 0, report |-> 1]
=============================================================================
