--------------------------- MODULE CleanRun_proofs ---------------------------
(***************************************************************************)
(* Proofs about runs in which no statement fails and the process lives:    *)
(* the tables then hold outputs of accepted inputs only, verdicts stay,    *)
(* inspects count what was processed when they were handed out, and the    *)
(* answers to queries agree, for any inputs and any number of outputs.     *)
(***************************************************************************)
EXTENDS Reader_proofs

NoFaults == MaxDbErrors = 0 /\ MaxCrashes = 0

FaultFree == NoFaults /\ dbErrors = 0 /\ crashes = 0

(* The input handed out has no verdict until its call gets to that.        *)
VerdictDue ==
  /\ state.kind = "advance"
  /\ call.stage \in {"none", "verdict"} \/ (call.op = "finish" /\ call.stage \in OutputTables)

NoVerdictYet == VerdictDue => status[state.of] = "unprocessed"

ExceptionFirst ==
  call.op = "exception" /\ call.stage = "report" => status[state.of] = "exception"

(* Vouchers and notices are written by an accepting finish alone.          *)
OnlyAcceptWrites ==
  call.stage \in Outputs => call.op = "finish" /\ call.verdict = "accepted"

(* Rows belong to inputs with a verdict, and to the one being finished.    *)
Writing(i) ==
  state.kind = "advance" /\ state.of = i /\ call.stage \in OutputTables \cup {"verdict"}

RowsHaveVerdict ==
  \A row \in rows : row.input \in Inputs /\ (status[row.input] \in Verdicts \/ Writing(row.input))

OutputsAccepted ==
  \A row \in rows : row.table # "report" =>
    \/ status[row.input] = "accepted"
    \/ Writing(row.input) /\ call.op = "finish" /\ call.verdict = "accepted"

(* Of the input handed out there are the reports this call has written.    *)
ReportsOfThisCall ==
  state.kind = "advance" =>
    \A row \in rows : row.table = "report" /\ row.input = state.of =>
      /\ call.stage \notin Outputs \cup {"none"}
      /\ ~(call.op = "exception" /\ call.stage = "verdict")
      /\ call.stage = "report" => row.index < call.stored

CleanInv ==
  /\ FaultFree /\ NoVerdictYet /\ ExceptionFirst /\ OnlyAcceptWrites
  /\ RowsHaveVerdict /\ OutputsAccepted /\ ReportsOfThisCall

Base == TypeOK /\ CallMatchesVerdict /\ CleanInv

-----------------------------------------------------------------------------
(* A step while no call runs, or of a call about no input, keeps it all.   *)
LEMMA IdleStepIsClean ==
  ASSUME Base, UNCHANGED <<status, rows, dbErrors, crashes>>,
         call.stage \notin OutputTables \cup {"verdict"},
         call'.stage \notin OutputTables \cup {"verdict"},
         state'.kind = "advance" => /\ state.kind = "advance" /\ state'.of = state.of
                                    /\ call.stage = "none"
  PROVE  CleanInv'
<1> USE DEF Base, CleanInv
<1>1. FaultFree' /\ NoVerdictYet' /\ ExceptionFirst' /\ OnlyAcceptWrites'
  BY DEF FaultFree, NoFaults, NoVerdictYet, VerdictDue, ExceptionFirst, OnlyAcceptWrites, OutputTables
<1>2. RowsHaveVerdict' /\ OutputsAccepted'
  BY DEF RowsHaveVerdict, OutputsAccepted, Writing
<1>3. ReportsOfThisCall'
  BY DEF ReportsOfThisCall, OutputTables
<1> QED BY <1>1, <1>2, <1>3

(* finish and registerException begin with the input as it was.            *)
LEMMA CallBeginsClean ==
  ASSUME Base, NEW verdict \in Verdicts, NEW op \in {"finish", "exception"},
         op = "exception" <=> verdict = "exception",
         op = "exception" => state.kind # "idle",
         call = NoCall,
         call' = [op |-> op, verdict |-> verdict, stage |-> FirstStage(verdict), stored |-> 0],
         UNCHANGED <<status, rows, state, dbErrors, crashes>>
  PROVE  CleanInv'
<1> USE DEF Base, CleanInv
<1>1. /\ call'.op = op /\ call'.verdict = verdict /\ call'.stage = FirstStage(verdict)
      /\ call'.stored = 0 /\ call.stage = "none"
  BY DEF NoCall
<1>2. state.kind \in {"idle", "advance", "inspect"}
  BY DEF TypeOK
<1>3. CASE state.kind = "advance"
  <2>1. /\ verdict = "accepted" => FirstStage(verdict) = "voucher"
        /\ verdict = "rejected" => FirstStage(verdict) = "report"
        /\ verdict = "exception" => FirstStage(verdict) = "verdict"
    BY <1>3 DEF FirstStage
  <2>2. status[state.of] = "unprocessed"
    BY <1>1, <1>3 DEF NoVerdictYet, VerdictDue
  <2>3. FaultFree' /\ NoVerdictYet' /\ ExceptionFirst' /\ OnlyAcceptWrites'
    BY <1>1, <2>1, <2>2 DEF FaultFree, NoFaults, NoVerdictYet, ExceptionFirst, OnlyAcceptWrites,
       Outputs, Verdicts
  <2>4. RowsHaveVerdict' /\ OutputsAccepted'
    BY <1>1 DEF RowsHaveVerdict, OutputsAccepted, Writing, OutputTables, Outputs
  <2>5. ReportsOfThisCall'
    BY <1>1, <1>3 DEF ReportsOfThisCall
  <2> QED BY <2>3, <2>4, <2>5
<1>4. CASE state.kind # "advance"
  <2>1. FirstStage(verdict) \in {"pick", "count"}
    BY <1>2, <1>4 DEF FirstStage
  <2> QED
    BY <1>1, <1>4, <2>1, IdleStepIsClean DEF OutputTables, Outputs
<1> QED BY <1>3, <1>4

(* What a written row is, and where it is written. *)
LEMMA RowAtFields ==
  ASSUME NEW table, NEW k
  PROVE  /\ RowAt(table, k).table = table /\ RowAt(table, k).index = k
         /\ RowAt(table, k).input = state.of
BY DEF RowAt, RowOf

LEMMA StoreOutputIsClean ==
  ASSUME Base, StoreOutput
  PROVE  CleanInv'
<1> USE DEF Base, CleanInv
<1> DEFINE new == RowAt(call.stage, call.stored)
<1>1. /\ call.stage \in Outputs /\ rows' \subseteq rows \cup {new}
      /\ UNCHANGED <<status, state, dbErrors, crashes>>
  BY DEF StoreOutput, Created
<1>2. call'.op = call.op /\ call'.verdict = call.verdict /\ call'.stage = call.stage
  BY DEF StoreOutput, TypeOK
<1>3. state.kind = "advance" /\ state.of \in Inputs /\ Writing(state.of)
  BY <1>1 DEF TypeOK, Writing, OutputTables
<1>4. call.op = "finish" /\ call.verdict = "accepted"
  BY <1>1 DEF OnlyAcceptWrites
<1>5. new.input = state.of /\ new.table # "report"
  BY <1>1, RowAtFields DEF Outputs
<1>6. \A i : Writing(i)' <=> Writing(i)
  BY <1>1, <1>2 DEF Writing
<1> HIDE DEF new
<1>7. FaultFree' /\ NoVerdictYet' /\ ExceptionFirst' /\ OnlyAcceptWrites'
  BY <1>1, <1>2 DEF FaultFree, NoFaults, NoVerdictYet, VerdictDue, ExceptionFirst, OnlyAcceptWrites
<1>8. RowsHaveVerdict'
  BY <1>1, <1>3, <1>5, <1>6 DEF RowsHaveVerdict
<1>9. OutputsAccepted'
  BY <1>1, <1>2, <1>3, <1>4, <1>5, <1>6 DEF OutputsAccepted
<1>10. ReportsOfThisCall'
  BY <1>1, <1>2, <1>5 DEF ReportsOfThisCall
<1> QED BY <1>7, <1>8, <1>9, <1>10

(* saveAllReports never meets a row of its own key. *)
LEMMA ReportIsNew ==
  ASSUME Base, StoreReport
  PROVE  RowAt("report", call.stored) \notin rows
<1>1. call.stage = "report" /\ state.kind = "advance" /\ call.stored \in Nat
  BY DEF StoreReport, Base, TypeOK
<1> QED BY <1>1, RowAtFields DEF Base, CleanInv, ReportsOfThisCall

LEMMA StoreReportIsClean ==
  ASSUME Base, StoreReport
  PROVE  CleanInv'
<1> USE DEF Base, CleanInv
<1> DEFINE new == RowAt("report", call.stored)
<1>1. /\ call.stage = "report" /\ rows' = rows \cup {new}
      /\ call' = [call EXCEPT !.stored = @ + 1]
      /\ UNCHANGED <<status, state, dbErrors, crashes>>
  BY ReportIsNew DEF StoreReport
<1>2. /\ call'.op = call.op /\ call'.verdict = call.verdict /\ call'.stage = call.stage
      /\ call'.stored = call.stored + 1 /\ call.stored \in Nat
  BY <1>1 DEF TypeOK
<1>3. state.kind = "advance" /\ state.of \in Inputs /\ Writing(state.of)
  BY <1>1 DEF TypeOK, Writing, OutputTables
<1>4. new.input = state.of /\ new.table = "report" /\ new.index = call.stored
  BY RowAtFields
<1>5. \A i : Writing(i)' <=> Writing(i)
  BY <1>1, <1>2 DEF Writing
<1>6. \A row \in rows : row \in Row
  BY DEF TypeOK
<1> HIDE DEF new
<1>7. FaultFree' /\ NoVerdictYet' /\ ExceptionFirst' /\ OnlyAcceptWrites'
  BY <1>1, <1>2 DEF FaultFree, NoFaults, NoVerdictYet, VerdictDue, ExceptionFirst, OnlyAcceptWrites
<1>8. RowsHaveVerdict'
  BY <1>1, <1>3, <1>4, <1>5 DEF RowsHaveVerdict
<1>9. OutputsAccepted'
  BY <1>1, <1>2, <1>4, <1>5 DEF OutputsAccepted
<1>10. ReportsOfThisCall'
  BY <1>1, <1>2, <1>3, <1>4, <1>6 DEF ReportsOfThisCall, Outputs, Row
<1> QED BY <1>7, <1>8, <1>9, <1>10

LEMMA LoopEndIsClean ==
  ASSUME Base, LoopEnd
  PROVE  CleanInv'
<1> USE DEF Base, CleanInv
<1>1. /\ call.stage \in OutputTables /\ MoveOn
      /\ UNCHANGED <<status, rows, state, dbErrors, crashes>>
  BY DEF LoopEnd, OutputTables
<1>2. /\ call'.stage = StageAfter(call.stage) /\ call'.stored = 0
      /\ call'.op = call.op /\ call'.verdict = call.verdict
  BY <1>1, MoveOnOK
<1>3. state.kind = "advance" /\ call.op \in {"finish", "exception"}
  BY <1>1 DEF TypeOK, CallMatchesVerdict, OutputTables, Outputs
<1>4. FaultFree'
  BY <1>1 DEF FaultFree, NoFaults
<1>5. CASE call.stage \in Outputs
  <2>1. /\ call.op = "finish" /\ call.verdict = "accepted"
        /\ call'.stage \in {"notice", "report"}
    BY <1>2, <1>5 DEF OnlyAcceptWrites, StageAfter, Outputs
  <2>2. NoVerdictYet' /\ ExceptionFirst' /\ OnlyAcceptWrites'
    BY <1>1, <1>2, <2>1 DEF NoVerdictYet, VerdictDue, ExceptionFirst, OnlyAcceptWrites
  <2>3. RowsHaveVerdict' /\ OutputsAccepted'
    BY <1>1, <1>2, <2>1 DEF RowsHaveVerdict, OutputsAccepted, Writing, OutputTables, Outputs
  <2>4. ReportsOfThisCall'
    BY <1>1, <1>5 DEF ReportsOfThisCall
  <2> QED BY <1>4, <2>2, <2>3, <2>4
<1>6. CASE call.stage = "report" /\ call.op = "finish"
  <2>1. call'.stage = "verdict"
    BY <1>2, <1>6 DEF StageAfter
  <2>2. NoVerdictYet' /\ ExceptionFirst' /\ OnlyAcceptWrites'
    BY <1>1, <1>2, <1>6, <2>1 DEF NoVerdictYet, VerdictDue, ExceptionFirst, OnlyAcceptWrites, Outputs
  <2>3. RowsHaveVerdict' /\ OutputsAccepted'
    BY <1>1, <1>2, <2>1 DEF RowsHaveVerdict, OutputsAccepted, Writing, OutputTables
  <2>4. ReportsOfThisCall'
    BY <1>1, <1>2, <1>6, <2>1 DEF ReportsOfThisCall, Outputs
  <2> QED BY <1>4, <2>2, <2>3, <2>4
<1>7. CASE call.stage = "report" /\ call.op = "exception"
  <2>1. call'.stage = "idle" /\ status[state.of] = "exception"
    BY <1>2, <1>7 DEF StageAfter, ExceptionFirst
  <2>2. NoVerdictYet' /\ ExceptionFirst' /\ OnlyAcceptWrites'
    BY <1>1, <1>2, <1>7, <2>1 DEF NoVerdictYet, VerdictDue, ExceptionFirst, OnlyAcceptWrites, Outputs
  <2>3. RowsHaveVerdict' /\ OutputsAccepted'
    BY <1>1, <1>2, <1>7, <2>1 DEF RowsHaveVerdict, OutputsAccepted, Writing, Verdicts
  <2>4. ReportsOfThisCall'
    BY <1>1, <1>2, <1>7, <2>1 DEF ReportsOfThisCall, Outputs
  <2> QED BY <1>4, <2>2, <2>3, <2>4
<1> QED BY <1>1, <1>3, <1>5, <1>6, <1>7 DEF OutputTables

LEMMA RecordVerdictIsClean ==
  ASSUME Base, RecordVerdict
  PROVE  /\ CleanInv'
         /\ status[state.of] = "unprocessed" /\ state.of \in Inputs
<1> USE DEF Base, CleanInv
<1> DEFINE o == state.of
<1>1. /\ call.stage = "verdict" /\ MoveOn /\ status' = [status EXCEPT ![o] = call.verdict]
      /\ UNCHANGED <<rows, state, dbErrors, crashes>>
  BY DEF RecordVerdict
<1>2. /\ call'.stage = StageAfter(call.stage) /\ call'.stored = 0
      /\ call'.op = call.op /\ call'.verdict = call.verdict
  BY <1>1, MoveOnOK
<1>3. /\ state.kind = "advance" /\ o \in Inputs /\ call.verdict \in Verdicts
      /\ call.op \in {"finish", "exception"}
  BY <1>1 DEF TypeOK, CallMatchesVerdict
<1>4. status[o] = "unprocessed"
  BY <1>1, <1>3 DEF NoVerdictYet, VerdictDue
<1>5. status'[o] = call.verdict /\ \A i \in Inputs \ {o} : status'[i] = status[i]
  BY <1>1, <1>3 DEF TypeOK
<1>6. /\ call.op = "finish" => call'.stage = "pick"
      /\ call.op = "exception" => call'.stage = "report" /\ call.verdict = "exception"
  BY <1>1, <1>2 DEF StageAfter, CallMatchesVerdict
<1>7. FaultFree' /\ NoVerdictYet' /\ ExceptionFirst' /\ OnlyAcceptWrites'
  BY <1>1, <1>2, <1>3, <1>5, <1>6
     DEF FaultFree, NoFaults, NoVerdictYet, VerdictDue, ExceptionFirst, OnlyAcceptWrites, OutputTables,
         Outputs
<1>8. \A row \in rows : row.input # o => status[row.input] \in Verdicts /\ row.input \in Inputs
  BY <1>1 DEF RowsHaveVerdict, Writing
<1>9. \A row \in rows : row.input = o /\ row.table # "report" => call.verdict = "accepted"
  BY <1>4 DEF OutputsAccepted
<1>10. RowsHaveVerdict'
  BY <1>1, <1>3, <1>5, <1>8 DEF RowsHaveVerdict
<1>11. OutputsAccepted'
  <2> SUFFICES ASSUME NEW row \in rows, row.table # "report"
               PROVE  status'[row.input] = "accepted"
    BY <1>1 DEF OutputsAccepted
  <2>1. row.input = o => status'[row.input] = "accepted"
    BY <1>5, <1>9
  <2>2. row.input # o => status[row.input] = "accepted"
    BY <1>1 DEF OutputsAccepted, Writing
  <2> QED BY <1>5, <1>8, <2>1, <2>2
<1>12. ReportsOfThisCall'
  BY <1>1, <1>2, <1>3, <1>6 DEF ReportsOfThisCall, Outputs
<1> QED BY <1>3, <1>4, <1>7, <1>10, <1>11, <1>12

(* An input without a verdict has no rows yet when it is picked.           *)
LEMMA PickAdvanceIsClean ==
  ASSUME Base, PickAdvance
  PROVE  CleanInv'
<1> USE DEF Base, CleanInv
<1>1. PICK i \in FindByStatus : state' = [Idle EXCEPT !.kind = "advance", !.of = i]
  BY DEF PickAdvance
<1>2. /\ state'.kind = "advance" /\ state'.of = i /\ i \in Inputs /\ status[i] = "unprocessed"
      /\ call.stage = "pick" /\ call'.stage = "none" /\ call'.op = "none"
      /\ UNCHANGED <<status, rows, dbErrors, crashes>>
  BY <1>1 DEF Idle, FindByStatus, Unprocessed, PickAdvance, NoCall
<1>3. \A row \in rows : row.input \in Inputs /\ status[row.input] \in Verdicts
  BY <1>2 DEF RowsHaveVerdict, Writing, OutputTables, Outputs
<1>4. FaultFree' /\ NoVerdictYet' /\ ExceptionFirst' /\ OnlyAcceptWrites'
  BY <1>2 DEF FaultFree, NoFaults, NoVerdictYet, ExceptionFirst, OnlyAcceptWrites, Outputs
<1>5. RowsHaveVerdict'
  BY <1>2, <1>3 DEF RowsHaveVerdict
<1>6. OutputsAccepted'
  BY <1>2 DEF OutputsAccepted, Writing, OutputTables, Outputs
<1>7. ReportsOfThisCall'
  BY <1>2, <1>3 DEF ReportsOfThisCall, Verdicts
<1> QED BY <1>4, <1>5, <1>6, <1>7

LEMMA AddInputIsClean ==
  ASSUME Base, NEW i \in Inputs, AddAdvanceInput(i)
  PROVE  CleanInv'
<1> USE DEF Base, CleanInv
<1>1. /\ status[i] = "absent" /\ UNCHANGED <<rows, state, call, dbErrors, crashes>>
      /\ \A j \in Inputs \ {i} : status'[j] = status[j]
      /\ status'[i] = "unprocessed"
  BY DEF AddAdvanceInput, TypeOK
<1>2. state.kind = "advance" => state.of \in Inputs \ {i}
  BY <1>1 DEF TypeOK
<1>3. \A row \in rows : row.input \in Inputs \ {i}
  BY <1>1, <1>2 DEF RowsHaveVerdict, Writing, Verdicts
<1>4. FaultFree' /\ NoVerdictYet' /\ OnlyAcceptWrites'
  BY <1>1, <1>2 DEF FaultFree, NoFaults, NoVerdictYet, VerdictDue, OnlyAcceptWrites
<1>5. ExceptionFirst'
  BY <1>1, <1>2 DEF ExceptionFirst, TypeOK
<1>6. RowsHaveVerdict' /\ OutputsAccepted'
  BY <1>1, <1>3 DEF RowsHaveVerdict, OutputsAccepted, Writing
<1>7. ReportsOfThisCall'
  BY <1>1 DEF ReportsOfThisCall
<1> QED BY <1>4, <1>5, <1>6, <1>7

(***************************************************************************)
(* Every step keeps the run clean.                                         *)
(***************************************************************************)
LEMMA CleanStep ==
  ASSUME Base, [Next]_vars
  PROVE  CleanInv'
<1>1. ASSUME NEW i \in Inputs, AddAdvanceInput(i) PROVE CleanInv'
  BY <1>1, AddInputIsClean
<1>2. CASE AddInspectInput
  BY <1>2, IdleStepIsClean DEF AddInspectInput, NoCall, OutputTables, Outputs
<1>3. ASSUME NEW table \in Outputs \cup {"report"}, AddOutput(table) PROVE CleanInv'
  <2>1. state'.kind = state.kind /\ state'.of = state.of
    BY <1>3 DEF AddOutput, Base, TypeOK
  <2> QED BY <1>3, <2>1, IdleStepIsClean DEF AddOutput, NoCall, OutputTables, Outputs
<1>4. ASSUME NEW verdict \in {"accepted", "rejected"}, Finish(verdict) PROVE CleanInv'
  BY <1>4, CallBeginsClean DEF Finish, Verdicts
<1>5. CASE RegisterException
  BY <1>5, CallBeginsClean DEF RegisterException, Verdicts
<1>6. CASE StoreOutput
  BY <1>6, StoreOutputIsClean
<1>7. CASE StoreReport
  BY <1>7, StoreReportIsClean
<1>8. CASE LoopEnd
  BY <1>8, LoopEndIsClean
<1>9. CASE RecordVerdict
  BY <1>9, RecordVerdictIsClean
<1>10. CASE CountProcessed
  <2>1. /\ call.stage = "count" /\ state.kind = "inspect" /\ MoveOn
        /\ UNCHANGED <<status, rows, state, dbErrors, crashes>>
    BY <1>10 DEF CountProcessed, Base, TypeOK
  <2>2. call'.stage \in {"pick", "idle"}
    BY <2>1, MoveOnOK DEF StageAfter, Base
  <2> QED BY <2>1, <2>2, IdleStepIsClean DEF OutputTables, Outputs
<1>11. CASE PickInspect
  <2>1. /\ call.stage = "pick" /\ call'.stage = "none" /\ state'.kind = "inspect"
        /\ UNCHANGED <<status, rows, dbErrors, crashes>>
    BY <1>11 DEF PickInspect, NoCall, Idle
  <2> QED BY <2>1, IdleStepIsClean DEF OutputTables, Outputs
<1>12. CASE PickAdvance
  BY <1>12, PickAdvanceIsClean
<1>13. CASE GoIdle
  <2>1. /\ call.stage \in {"pick", "idle"} /\ call'.stage = "none" /\ state'.kind = "idle"
        /\ UNCHANGED <<status, rows, dbErrors, crashes>>
    BY <1>13 DEF GoIdle, NothingToPick, NoCall, Idle
  <2> QED BY <2>1, IdleStepIsClean DEF OutputTables, Outputs
<1>14. ~DbError /\ ~Crash
  BY DEF DbError, Crash, Base, CleanInv, FaultFree, NoFaults
<1>15. CASE UNCHANGED vars
  BY <1>15 DEF vars, Base, CleanInv, FaultFree, NoFaults, NoVerdictYet, VerdictDue, ExceptionFirst,
     OnlyAcceptWrites, RowsHaveVerdict, OutputsAccepted, Writing, ReportsOfThisCall
<1> QED
  BY <1>1, <1>2, <1>3, <1>4, <1>5, <1>6, <1>7, <1>8, <1>9, <1>10, <1>11, <1>12, <1>13, <1>14, <1>15
     DEF Next, Statement, FinishAndGetNext

LEMMA CleanInit == NoFaults /\ Init => CleanInv
BY DEF NoFaults, Init, CleanInv, FaultFree, NoVerdictYet, VerdictDue, ExceptionFirst,
   OnlyAcceptWrites, RowsHaveVerdict, OutputsAccepted, ReportsOfThisCall, Idle, NoCall,
   Outputs

(* A run of the model without faults is clean throughout. *)
THEOREM CleanRun == NoFaults /\ Spec => []Base
<1>1. NoFaults /\ Init /\ IInv => Base
  BY CleanInit DEF IInv, Base
<1>2. Base /\ IInv' /\ [Next]_vars => Base'
  BY CleanStep DEF IInv, Base
<1> QED BY <1>1, <1>2, InvariantHolds, PTL DEF Spec

(***************************************************************************)
(* The verdict that inputRepository.Update wrote is never replaced while   *)
(* no statement fails: what is handed out has none yet, and finish lets go *)
(* of it with its verdict.                                                 *)
(***************************************************************************)
LEMMA VerdictStays ==
  ASSUME Base, [Next]_vars, NEW i \in Processed
  PROVE  status'[i] = status[i]
<1>1. i \in Inputs /\ status[i] \in Verdicts
  BY DEF Processed
<1>2. ASSUME NEW j \in Inputs, AddAdvanceInput(j) PROVE status'[i] = status[i]
  BY <1>1, <1>2 DEF AddAdvanceInput, Base, TypeOK, Verdicts
<1>3. CASE RecordVerdict
  BY <1>1, <1>3, RecordVerdictIsClean DEF RecordVerdict, Base, TypeOK, Verdicts
<1>4. \A table : AddOutput(table) => status' = status
  BY DEF AddOutput
<1>5. \A verdict : Finish(verdict) => status' = status
  BY DEF Finish
<1>6. AddInspectInput \/ RegisterException \/ StoreOutput \/ StoreReport \/ LoopEnd => status' = status
  BY DEF AddInspectInput, RegisterException, StoreOutput, StoreReport, LoopEnd
<1>7. CountProcessed \/ PickInspect \/ PickAdvance \/ GoIdle \/ DbError \/ Crash => status' = status
  BY DEF CountProcessed, PickInspect, PickAdvance, GoIdle, DbError, Crash
<1>8. UNCHANGED vars => status' = status
  BY DEF vars
<1> QED
  BY <1>2, <1>3, <1>4, <1>5, <1>6, <1>7, <1>8 DEF Next, Statement, FinishAndGetNext

THEOREM VerdictsAreFinal == NoFaults /\ Spec => VerdictIsFinal
<1>1. Base /\ [Next]_vars => [\A i \in Inputs : i \in Processed => status'[i] = status[i]]_vars
  BY VerdictStays
<1> QED BY <1>1, CleanRun, PTL DEF Spec, VerdictIsFinal

-----------------------------------------------------------------------------
(***************************************************************************)
(* What a query has read is still so: the verdict, if it was one, and the  *)
(* output it began with.                                                   *)
(***************************************************************************)
ReadIsCurrent ==
  /\ query.status \in Verdicts => query.of \in Inputs /\ status[query.of] = query.status
  /\ \A row \in query.rows : row \in rows /\ row.input = query.of

LEMMA ReadStaysCurrent ==
  ASSUME Base, ReadIsCurrent, [ReaderNext]_readerVars
  PROVE  ReadIsCurrent'
<1>1. CASE UNCHANGED query
  <2>1. rows \subseteq rows'
    BY StepOfModel, RowsStay
  <2>2. query.status \in Verdicts => status'[query.of] = status[query.of]
    BY StepOfModel, VerdictStays DEF ReadIsCurrent, Processed
  <2> QED BY <1>1, <2>1, <2>2 DEF ReadIsCurrent
<1>2. ASSUME NEW i \in Inputs, AskInput(i) PROVE ReadIsCurrent'
  BY <1>2 DEF AskInput, ReadIsCurrent, vars
<1>3. ASSUME NEW row \in rows, AskOutput(row) PROVE ReadIsCurrent'
  BY <1>3 DEF AskOutput, NoQuery, ReadIsCurrent, Verdicts, vars
<1>4. ASSUME query' = NoQuery PROVE ReadIsCurrent'
  BY <1>4 DEF NoQuery, ReadIsCurrent, Verdicts
<1> QED
  BY <1>1, <1>2, <1>3, <1>4 DEF ReaderNext, Resolve, ResolveConnection, ResolveInput, readerVars

(* An input without acceptance has neither vouchers nor notices.           *)
LEMMA UnacceptedHasReportsOnly ==
  ASSUME Base, NEW row \in rows, status[row.input] \in {"rejected", "exception"}
  PROVE  row.table = "report"
<1>1. SUFFICES ASSUME row.table # "report" PROVE FALSE
  OBVIOUS
<1>2. Writing(row.input) /\ call.op = "finish"
  BY <1>1 DEF Base, CleanInv, OutputsAccepted
<1>3. VerdictDue /\ state.of = row.input
  BY <1>2 DEF Writing, VerdictDue
<1> QED BY <1>3 DEF Base, CleanInv, NoVerdictYet

LEMMA ReadingsAgree ==
  ASSUME Base, ReadIsCurrent
  PROVE  /\ \A table \in Connections : query.status \in {"rejected", "exception"} =>
              OnlyReports(WhereInput(table, query.of))
         /\ query.rows # {} =>
              /\ status[query.of] # "absent"
              /\ status[query.of] \in {"rejected", "exception"} => OnlyReports(query.rows)
<1>1. ASSUME query.status \in {"rejected", "exception"}, NEW row \in rows, row.input = query.of
      PROVE  row.table = "report"
  BY <1>1, UnacceptedHasReportsOnly DEF ReadIsCurrent, Verdicts
<1>2. ASSUME query.rows # {} PROVE status[query.of] # "absent"
  <2>1. PICK row \in query.rows : row \in rows /\ row.input = query.of
    BY <1>2 DEF ReadIsCurrent
  <2>2. status[query.of] \in Verdicts \/ Writing(query.of)
    BY <2>1 DEF Base, CleanInv, RowsHaveVerdict
  <2> QED BY <2>2 DEF Base, TypeOK, Writing, Verdicts
<1>3. ASSUME status[query.of] \in {"rejected", "exception"}, NEW row \in query.rows
      PROVE  row.table = "report"
  BY <1>3, UnacceptedHasReportsOnly DEF ReadIsCurrent
<1> QED BY <1>1, <1>2, <1>3 DEF OnlyReports, WhereInput

(***************************************************************************)
(* A rejected input has no vouchers and no notices, as rollup.yaml says of *)
(* POST /finish, while no statement fails: an accept that failed half way  *)
(* is the only way to leave some.                                          *)
(***************************************************************************)
THEOREM RejectedHaveNoOutputs == NoFaults /\ Spec => []RejectedDiscardsOutputs
<1>1. Base => RejectedDiscardsOutputs
  BY UnacceptedHasReportsOnly DEF RejectedDiscardsOutputs
<1> QED BY <1>1, CleanRun, PTL

(***************************************************************************)
(* While no statement fails, whatever finish does between the statements   *)
(* of a query, no answer shows a voucher or a notice of an input that it   *)
(* shows as rejected or ended by an exception.                             *)
(***************************************************************************)
THEOREM AnswersAgree == NoFaults /\ ReaderSpec => ShownOutputsAreAccepted
<1>1. ReaderInit => ReadIsCurrent
  BY DEF ReaderInit, NoQuery, ReadIsCurrent, Verdicts
<1>2. NoFaults /\ ReaderSpec => []Base
  BY RunsModel, CleanRun, PTL
<1>3. NoFaults /\ ReaderSpec => []ReadIsCurrent
  BY <1>1, <1>2, ReadStaysCurrent, PTL DEF ReaderSpec
<1>4. Base /\ ReadIsCurrent =>
      [/\ \A table \in Connections :
            ResolveConnection(table) /\ query.status \in {"rejected", "exception"}
              => OnlyReports(WhereInput(table, query.of))
       /\ ResolveInput => /\ status[query.of] # "absent"
                          /\ status[query.of] \in {"rejected", "exception"} => OnlyReports(query.rows)
      ]_readerVars
  BY ReadingsAgree DEF ResolveInput
<1> QED BY <1>2, <1>3, <1>4, PTL DEF ReaderSpec, ShownOutputsAreAccepted

-----------------------------------------------------------------------------
(***************************************************************************)
(* The invariant of inspects: an answered one counts what it was handed    *)
(* out with, but while its call is about to count; and nothing gets a      *)
(* verdict while an inspect is handed out.                                 *)
(***************************************************************************)
AnsweredAsHanded ==
  \A k \in DOMAIN inspects : inspects[k].status \in Verdicts =>
    \/ inspects[k].count = inspects[k].handout
    \/ call.stage = "count" /\ state.of = k

NothingSinceHandout ==
  state.kind = "inspect" /\ call.stage \in {"none", "count"} =>
    inspects[state.of].handout = Cardinality(Processed)

InspectInv == AnsweredAsHanded /\ NothingSinceHandout

(* A step that leaves inspects and verdicts alone, and no inspect at hand. *)
LEMMA OtherStepKeepsInspects ==
  ASSUME InspectInv, UNCHANGED inspects, Processed' = Processed, call.stage # "count",
         state'.kind = "inspect" /\ call'.stage \in {"none", "count"} =>
           state.kind = "inspect" /\ state'.of = state.of /\ call.stage = "none"
  PROVE  InspectInv'
BY DEF InspectInv, AnsweredAsHanded, NothingSinceHandout

(* finish and registerException of an inspect mark it, and count next.     *)
LEMMA MarkKeepsInspects ==
  ASSUME TypeOK, InspectInv, NEW verdict \in Verdicts, MarkInspect(verdict), call = NoCall,
         call'.stage = FirstStage(verdict), UNCHANGED <<state, status>>
  PROVE  InspectInv'
<1>1. Processed' = Processed /\ call.stage = "none"
  BY DEF Processed, NoCall
<1>2. CASE state.kind = "inspect"
  <2>1. /\ call'.stage = "count" /\ state.of \in DOMAIN inspects
        /\ inspects' = [inspects EXCEPT ![state.of].status = verdict]
    BY <1>2 DEF FirstStage, MarkInspect, TypeOK
  <2>2. inspects[state.of] \in InspectInput
    BY <2>1 DEF TypeOK
  <2>3. /\ DOMAIN inspects' = DOMAIN inspects
        /\ \A k \in DOMAIN inspects \ {state.of} : inspects'[k] = inspects[k]
        /\ inspects'[state.of] = [inspects[state.of] EXCEPT !.status = verdict]
    BY <2>1
  <2>4. inspects'[state.of].handout = inspects[state.of].handout
    BY <2>2, <2>3 DEF InspectInput
  <2>5. AnsweredAsHanded'
    BY <1>1, <2>1, <2>3 DEF InspectInv, AnsweredAsHanded
  <2>6. NothingSinceHandout'
    BY <1>1, <1>2, <2>1, <2>4 DEF InspectInv, NothingSinceHandout
  <2> QED BY <2>5, <2>6 DEF InspectInv
<1>3. CASE state.kind # "inspect"
  BY <1>1, <1>3, OtherStepKeepsInspects DEF MarkInspect
<1> QED BY <1>2, <1>3

LEMMA CountKeepsInspects ==
  ASSUME TypeOK, InspectInv, CountProcessed
  PROVE  InspectInv'
<1>1. /\ call.stage = "count" /\ state.kind = "inspect" /\ state.of \in DOMAIN inspects
      /\ MoveOn /\ AnswerInspect(Cardinality(Processed)) /\ UNCHANGED <<state, status>>
  BY DEF CountProcessed, TypeOK, getProcessedInputCount
<1>2. call'.stage \in {"pick", "idle"}
  BY <1>1, MoveOnOK DEF StageAfter
<1>3. inspects[state.of] \in InspectInput
  BY <1>1 DEF TypeOK
<1>4. /\ DOMAIN inspects' = DOMAIN inspects
      /\ \A k \in DOMAIN inspects \ {state.of} : inspects'[k] = inspects[k]
      /\ inspects'[state.of] = [inspects[state.of] EXCEPT
           !.count = Cardinality(Processed), !.reports = state.emitted.report]
  BY <1>1 DEF AnswerInspect
<1>5. inspects'[state.of].count = Cardinality(Processed)
  BY <1>3, <1>4 DEF InspectInput
<1>6. inspects'[state.of].handout = Cardinality(Processed)
  BY <1>1, <1>3, <1>4 DEF InspectInput, InspectInv, NothingSinceHandout
<1>7. AnsweredAsHanded'
  <2> SUFFICES ASSUME NEW k \in DOMAIN inspects, inspects'[k].status \in Verdicts
               PROVE  inspects'[k].count = inspects'[k].handout
    BY <1>4 DEF AnsweredAsHanded
  <2>1. CASE k = state.of
    BY <1>5, <1>6, <2>1
  <2>2. CASE k # state.of
    BY <1>4, <2>2 DEF InspectInv, AnsweredAsHanded
  <2> QED BY <2>1, <2>2
<1>8. NothingSinceHandout'
  BY <1>2 DEF NothingSinceHandout
<1> QED BY <1>7, <1>8 DEF InspectInv

LEMMA PickKeepsInspects ==
  ASSUME TypeOK, InspectInv, PickInspect
  PROVE  InspectInv'
<1>1. PICK k \in FirstInspect :
        /\ state' = [Idle EXCEPT !.kind = "inspect", !.of = k]
        /\ inspects' = [j \in DOMAIN inspects |->
             [inspects[j] EXCEPT !.handout = IF j = k THEN Cardinality(Processed) ELSE @]]
  BY DEF PickInspect
<1>2. /\ state'.of = k /\ k \in DOMAIN inspects /\ inspects[k].status = "unprocessed"
      /\ call.stage = "pick" /\ call'.stage = "none" /\ Processed' = Processed
  BY <1>1 DEF Idle, FirstInspect, WaitingInspects, PickInspect, NoCall, Processed, TypeOK
<1>3. \A j \in DOMAIN inspects : inspects[j] \in InspectInput
  BY DEF TypeOK
<1>4. \A j \in DOMAIN inspects :
        /\ inspects'[j].status = inspects[j].status
        /\ inspects'[j].count = inspects[j].count
        /\ j # k => inspects'[j].handout = inspects[j].handout
        /\ j = k => inspects'[j].handout = Cardinality(Processed)
  BY <1>1, <1>3 DEF InspectInput
<1>5. DOMAIN inspects' = DOMAIN inspects
  BY <1>1
<1>6. AnsweredAsHanded'
  BY <1>2, <1>4, <1>5 DEF InspectInv, AnsweredAsHanded, Verdicts
<1>7. NothingSinceHandout'
  BY <1>2, <1>4 DEF NothingSinceHandout
<1> QED BY <1>6, <1>7 DEF InspectInv

LEMMA AddKeepsInspects ==
  ASSUME TypeOK, InspectInv, AddInspectInput
  PROVE  InspectInv'
<1> DEFINE new == [status |-> "unprocessed", reports |-> 0, count |-> 0, handout |-> 0]
<1>1. /\ call.stage = "none" /\ inspects' = Append(inspects, new)
      /\ UNCHANGED <<state, call>> /\ Processed' = Processed
  BY DEF AddInspectInput, NoCall, Processed
<1>2. /\ \A k \in DOMAIN inspects : inspects'[k] = inspects[k]
      /\ \A k \in DOMAIN inspects' \ DOMAIN inspects : inspects'[k] = new
  BY <1>1 DEF TypeOK
<1>3. AnsweredAsHanded'
  BY <1>1, <1>2 DEF InspectInv, AnsweredAsHanded, Verdicts
<1>4. NothingSinceHandout'
  BY <1>1, <1>2 DEF InspectInv, NothingSinceHandout, TypeOK
<1> QED BY <1>3, <1>4 DEF InspectInv

LEMMA InspectStep ==
  ASSUME Base, InspectInv, [Next]_vars
  PROVE  InspectInv'
<1> USE DEF Base
<1>1. ASSUME NEW i \in Inputs, AddAdvanceInput(i) PROVE InspectInv'
  <2>1. Processed' = Processed
    BY <1>1 DEF AddAdvanceInput, Processed, TypeOK, Verdicts
  <2> QED BY <1>1, <2>1, OtherStepKeepsInspects DEF AddAdvanceInput, NoCall
<1>2. CASE AddInspectInput
  BY <1>2, AddKeepsInspects
<1>3. ASSUME NEW table \in Outputs \cup {"report"}, AddOutput(table) PROVE InspectInv'
  <2>1. state'.kind = state.kind /\ state'.of = state.of /\ Processed' = Processed
    BY <1>3 DEF AddOutput, TypeOK, Processed
  <2> QED BY <1>3, <2>1, OtherStepKeepsInspects DEF AddOutput, NoCall
<1>4. ASSUME NEW verdict \in {"accepted", "rejected"}, Finish(verdict) PROVE InspectInv'
  BY <1>4, MarkKeepsInspects DEF Finish, Verdicts
<1>5. CASE RegisterException
  BY <1>5, MarkKeepsInspects DEF RegisterException, Verdicts
<1>6. CASE StoreOutput \/ StoreReport \/ LoopEnd \/ RecordVerdict
  <2>1. state.kind = "advance" /\ call.stage # "count" /\ UNCHANGED <<state, inspects>>
    BY <1>6 DEF StoreOutput, StoreReport, LoopEnd, RecordVerdict, TypeOK, Outputs
  <2> QED BY <2>1 DEF InspectInv, AnsweredAsHanded, NothingSinceHandout
<1>7. CASE CountProcessed
  BY <1>7, CountKeepsInspects
<1>8. CASE PickInspect
  BY <1>8, PickKeepsInspects
<1>9. CASE PickAdvance \/ GoIdle
  <2>1. call.stage # "count" /\ Processed' = Processed /\ UNCHANGED inspects
    BY <1>9 DEF PickAdvance, GoIdle, NothingToPick, Processed
  <2>2. PickAdvance => state'.kind = "advance"
    <3>1. ASSUME NEW i, state' = [Idle EXCEPT !.kind = "advance", !.of = i]
          PROVE  state'.kind = "advance"
      BY <3>1 DEF Idle
    <3> QED BY <3>1 DEF PickAdvance
  <2>3. GoIdle => state'.kind = "idle"
    BY DEF GoIdle, Idle
  <2> QED BY <1>9, <2>1, <2>2, <2>3, OtherStepKeepsInspects
<1>10. ~DbError /\ ~Crash
  BY DEF DbError, Crash, CleanInv, FaultFree, NoFaults
<1>11. CASE UNCHANGED vars
  BY <1>11 DEF vars, InspectInv, AnsweredAsHanded, NothingSinceHandout, Processed
<1> QED
  BY <1>1, <1>2, <1>3, <1>4, <1>5, <1>6, <1>7, <1>8, <1>9, <1>10, <1>11
     DEF Next, Statement, FinishAndGetNext

(***************************************************************************)
(* While no statement fails, an answered inspect counts the inputs that    *)
(* were processed when the application was handed it, for any number of    *)
(* inputs and inspects.                                                    *)
(***************************************************************************)
THEOREM AnswersCountHandout == NoFaults /\ Spec => []AnswerMatchesHandout
<1>1. Init => InspectInv
  BY DEF Init, InspectInv, AnsweredAsHanded, NothingSinceHandout, Idle
<1>2. InspectInv => AnswerMatchesHandout
  BY DEF InspectInv, AnsweredAsHanded, AnswerMatchesHandout, NoCall
<1>3. NoFaults /\ Spec => []InspectInv
  BY <1>1, InspectStep, CleanRun, PTL DEF Spec
<1> QED BY <1>2, <1>3, PTL
=============================================================================
