---------------------------- MODULE Convenience ----------------------------
(***************************************************************************)
(* The convenience database and the create-or-update rule of               *)
(* ConvenienceService, shared by every module that writes outputs.         *)
(*                                                                         *)
(* A row of convenience_vouchers, convenience_notices, convenience_reports *)
(* or convenience_inputs is reduced to its table and its position: the     *)
(* input it belongs to and its index within that input (always 0 in the    *)
(* inputs table).  (input, index) is the PRIMARY KEY of the three output   *)
(* tables, so a set of rows is a state of the tables.  Contents, and the   *)
(* application address (one application per deployment), are left out: an  *)
(* UPDATE that hits its row leaves this state as it is.                    *)
(***************************************************************************)
EXTENDS Naturals

Tables == {"voucher", "notice", "report", "input"}

Row == [table : Tables, input : Nat, index : Nat]

(* Mutant of RowsOfInput: the lookup does not keep to its own table. *)
RowsOfInputAnyTable(db, row) == {r \in db : r.input = row.input}

(***************************************************************************)
(* The Find...ByAppContractAndIndex queries: the rows of the input, at     *)
(* WHATEVER output index.                                                  *)
(***************************************************************************)
RowsOfInput(db, row) ==
  {r \in db : r.table = row.table /\ r.input = row.input}

(***************************************************************************)
(* CreateVoucher, CreateNotice, CreateReport and CreateInput.  When the    *)
(* lookup in seen finds a row the service issues UPDATE ... WHERE          *)
(* input_index AND output_index, which changes nothing when that very row  *)
(* is absent; only when it finds none does it INSERT.                      *)
(***************************************************************************)
Found(seen, row) == RowsOfInput(seen, row) # {}

Created(seen, db, row) == IF Found(seen, row) THEN db ELSE db \cup {row}

(***************************************************************************)
(* The same for a batch whose lookups all read seen: the repositories run  *)
(* Find on the connection pool and only the INSERT or UPDATE inside the    *)
(* open transaction, so no lookup sees what the batch wrote before it.     *)
(***************************************************************************)
CreatedAll(seen, batch) == seen \cup {row \in batch : ~Found(seen, row)}
=============================================================================
