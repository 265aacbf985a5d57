---------------------------- MODULE Reader_proofs ----------------------------
(***************************************************************************)
(* Proofs about Reader: queries are not seen by the model, so what holds   *)
(* of the model holds beside them; and what a query read of an input stays *)
(* true enough for the outputs it reads next, through failed statements    *)
(* and restarts.                                                           *)
(***************************************************************************)
EXTENDS Reader, NonodoModel_proofs

(* A step beside queries is a step of the model, or none. *)
LEMMA StepOfModel == [ReaderNext]_readerVars => [Next]_vars
BY DEF ReaderNext, Resolve, AskInput, ResolveConnection, AskOutput, ResolveInput, readerVars

(* Queries change nothing the model's calls look at. *)
THEOREM RunsModel == ReaderSpec => Spec
<1>1. ReaderInit => Init
  BY DEF ReaderInit
<1> QED BY <1>1, StepOfModel, PTL DEF ReaderSpec, Spec

(* No statement of any call deletes a row of the output tables. *)
LEMMA RowsStay == [Next]_vars => rows \subseteq rows'
<1> SUFFICES ASSUME [Next]_vars PROVE rows \subseteq rows'
  OBVIOUS
<1>1. StoreOutput => rows \subseteq rows'
  BY CreatedRow DEF StoreOutput
<1>2. StoreReport => rows \subseteq rows'
  BY DEF StoreReport
<1>3. \A i \in Inputs : AddAdvanceInput(i) => rows' = rows
  BY DEF AddAdvanceInput
<1>4. \A table : AddOutput(table) => rows' = rows
  BY DEF AddOutput
<1>5. \A verdict : Finish(verdict) => rows' = rows
  BY DEF Finish
<1>6. AddInspectInput \/ RegisterException \/ LoopEnd \/ RecordVerdict \/ CountProcessed => rows' = rows
  BY DEF AddInspectInput, RegisterException, LoopEnd, RecordVerdict, CountProcessed
<1>7. PickInspect \/ PickAdvance \/ GoIdle \/ DbError \/ Crash => rows' = rows
  BY DEF PickInspect, PickAdvance, GoIdle, DbError, Crash
<1>8. UNCHANGED vars => rows' = rows
  BY DEF vars
<1> QED
  BY <1>1, <1>2, <1>3, <1>4, <1>5, <1>6, <1>7, <1>8 DEF Next, Statement, FinishAndGetNext

-----------------------------------------------------------------------------
(***************************************************************************)
(* The invariant of a query: from the statement that reads the verdict on, *)
(* what is owed with that verdict is in the tables.                        *)
(***************************************************************************)
OwedThere ==
  \A table \in Connections : Keeps(query.status, table) => Owed(table) \subseteq rows

(* What is owed is there however many rows are added. *)
LEMMA OwedStays ==
  ASSUME OwedThere, UNCHANGED query, rows \subseteq rows'
  PROVE  OwedThere'
<1>1. \A table : Owed(table)' = Owed(table)
  BY DEF Owed
<1> QED BY <1>1 DEF OwedThere

(* A query that ends, or that begins with an output, is owed nothing. *)
LEMMA NothingOwed == query'.status = "none" => OwedThere'
BY DEF OwedThere, Keeps

(* Reading an input reads a verdict whose outputs were written before it. *)
LEMMA AskedIsOwed ==
  ASSUME VerdictAfterOutputs, NEW i \in Inputs, AskInput(i)
  PROVE  OwedThere'
<1>1. /\ query'.status = status[i] /\ query'.of = i /\ query'.owed = recorded[i]
      /\ rows' = rows
  BY DEF AskInput, vars
<1>2. \A table : Owed(table)' = {RowOf(table, i, k) : k \in Kept(table, recorded[i][table])}
  BY <1>1 DEF Owed
<1>3. ASSUME NEW table \in Connections, Keeps(status[i], table) PROVE Owed(table)' \subseteq rows
  BY <1>2, <1>3 DEF VerdictAfterOutputs, Connections
<1> QED BY <1>1, <1>3 DEF OwedThere

LEMMA OwedStep ==
  ASSUME OwedThere, VerdictAfterOutputs, [ReaderNext]_readerVars
  PROVE  OwedThere'
<1>1. CASE Next /\ UNCHANGED query
  BY <1>1, RowsStay, OwedStays
<1>2. ASSUME NEW i \in Inputs, AskInput(i) PROVE OwedThere'
  BY <1>2, AskedIsOwed
<1>3. ASSUME NEW table, ResolveConnection(table) PROVE OwedThere'
  BY <1>3, NothingOwed DEF ResolveConnection, NoQuery
<1>4. ASSUME NEW row, AskOutput(row) PROVE OwedThere'
  BY <1>4, NothingOwed DEF AskOutput, NoQuery
<1>5. CASE ResolveInput
  BY <1>5, NothingOwed DEF ResolveInput, NoQuery
<1>6. CASE UNCHANGED readerVars
  BY <1>6, OwedStays DEF readerVars, vars
<1> QED
  BY <1>1, <1>2, <1>3, <1>4, <1>5, <1>6 DEF ReaderNext, Resolve

(* With what is owed in the tables, each connection shows its part. *)
LEMMA OwedIsShown == OwedThere => \A table \in Connections : ShowsOwed(table)
<1> SUFFICES ASSUME OwedThere, NEW table \in Connections, Keeps(query.status, table),
                    NEW row \in Owed(table)
             PROVE  row \in WhereInput(table, query.of)
  BY DEF ShowsOwed
<1>1. row.table = table /\ row.input = query.of
  BY DEF Owed, RowOf
<1>2. row \in rows
  BY DEF OwedThere
<1> QED BY <1>1, <1>2 DEF WhereInput

(***************************************************************************)
(* Through failed statements and restarts, an answer that shows a verdict  *)
(* shows all reports of that execution and, where it is accepted, its      *)
(* first voucher and its first notice, whatever finish does between the    *)
(* two statements of the query.                                            *)
(***************************************************************************)
THEOREM AnswersAreWhole == ReaderSpec => ShownWithOutputs
<1>1. ReaderInit => OwedThere
  BY DEF ReaderInit, NoQuery, OwedThere, Keeps
<1>2. OwedThere =>
        [\A table \in Connections : ResolveConnection(table) => ShowsOwed(table)]_readerVars
  BY OwedIsShown
<1>3. ReaderSpec => []OwedThere
  BY <1>1, OwedStep, RunsModel, VerdictsComeLast, PTL DEF ReaderSpec
<1> QED BY <1>2, <1>3, PTL DEF ReaderSpec, ShownWithOutputs
=============================================================================
