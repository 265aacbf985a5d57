------------------------------- MODULE Reader -------------------------------
(***************************************************************************)
(* The GraphQL reader of a host: AdapterV1 over the database that          *)
(* NonodoModel writes.  A query for an input and its outputs, or for an    *)
(* output and its input, is resolved by a statement for each object and    *)
(* each connection, with no transaction around them and without the mutex: *)
(* finish goes on in between.                                              *)
(*                                                                         *)
(* A query is followed from its first statement to one other: fields do    *)
(* not depend on each other, and the items of a list are resolved each     *)
(* like one by itself.  Pages are Pagination's matter: a connection has    *)
(* room for all rows here.                                                 *)
(***************************************************************************)
EXTENDS NonodoModel

VARIABLE query  \* a query between two statements: its input, what it has read

readerVars == <<vars, query>>

Connections == Outputs \cup {"report"}

(* "owed" is history: what the execution emitted that the status is of. *)
NoQuery == [of |-> 0, status |-> "none", owed |-> NoneEmitted, rows |-> {}]

ReaderInit == Init /\ query = NoQuery

-----------------------------------------------------------------------------
(* Query.input, or an edge of Query.inputs: FindByIndex, and no row is an  *)
(* error.                                                                  *)
AskInput(i) ==
  /\ query = NoQuery
  /\ status[i] # "absent"
  /\ query' = [of |-> i, status |-> status[i], owed |-> recorded[i], rows |-> {}]
  /\ UNCHANGED vars

(* GetVouchers, GetNotices and GetReports with the filter on the input. *)
WhereInput(table, i) == {row \in rows : row.table = table /\ row.input = i}

(* Its field vouchers, notices or reports ends the query. *)
ResolveConnection(table) ==
  /\ query.status # "none"
  /\ query' = NoQuery
  /\ UNCHANGED vars

(* Query.voucher, notice or report, or an edge of their connections ... *)
AskOutput(row) ==
  /\ query = NoQuery
  /\ query' = [NoQuery EXCEPT !.of = row.input, !.rows = {row}]
  /\ UNCHANGED vars

(* ... and its field input. *)
ResolveInput ==
  /\ query.rows # {}
  /\ query' = NoQuery
  /\ UNCHANGED vars

Resolve ==
  \/ \E i \in Inputs : AskInput(i)
  \/ \E table \in Connections : ResolveConnection(table)
  \/ \E row \in rows : AskOutput(row)
  \/ ResolveInput

ReaderNext == (Next /\ UNCHANGED query) \/ Resolve

ReaderSpec == ReaderInit /\ [][ReaderNext]_readerVars

(* Queries are not fair; calls and the application are (see NonodoModel). *)
FairReaderSpec == ReaderSpec /\ WF_vars(Statement) /\ WF_vars(FinishAndGetNext)

-----------------------------------------------------------------------------
(***************************************************************************)
(* An answer that shows an input as accepted or rejected shows every       *)
(* report of that execution, and as accepted its first voucher and its     *)
(* first notice, though they are read apart: finish writes the verdict     *)
(* last, and a query reads it before the outputs.                          *)
(***************************************************************************)
Owed(table) == {RowOf(table, query.of, k) : k \in Kept(table, query.owed[table])}

ShowsOwed(table) ==
  Keeps(query.status, table) => Owed(table) \subseteq WhereInput(table, query.of)

ShownWithOutputs ==
  [][\A table \in Connections : ResolveConnection(table) => ShowsOwed(table)]_readerVars

(***************************************************************************)
(* While no statement fails and the process lives, no answer shows a       *)
(* voucher or a notice of an input that it shows as rejected or ended by   *)
(* an exception, whichever of the two was read first; and the input of     *)
(* every output is there.                                                  *)
(***************************************************************************)
OnlyReports(shown) == \A row \in shown : row.table = "report"

ShownOutputsAreAccepted ==
  [][/\ \A table \in Connections :
          ResolveConnection(table) /\ query.status \in {"rejected", "exception"}
            => OnlyReports(WhereInput(table, query.of))
     /\ ResolveInput => /\ status[query.of] # "absent"
                        /\ status[query.of] \in {"rejected", "exception"} => OnlyReports(query.rows)
    ]_readerVars
=============================================================================
