----------------------------- MODULE NonodoModel -----------------------------
(***************************************************************************)
(* NonodoModel: the host-mode rollups state machine.  The inputter adds    *)
(* advance inputs to the database, the inspect API adds inspects to a list *)
(* in memory, and the application, over the rollup API, finishes what it   *)
(* was handed and is handed the next thing to do, inspects first.          *)
(*                                                                         *)
(* Every method holds the mutex to its end, so calls do not interleave;    *)
(* but a call that writes is a series of database statements outside any   *)
(* transaction.  Each statement is a step here: readers of the database    *)
(* see what lies between, a statement can fail, and the process can stop.  *)
(***************************************************************************)
EXTENDS Convenience, Integers, Sequences, FiniteSets

CONSTANTS
  Inputs,       \* indices of the advance inputs the chain will deliver
  MaxInspects,  \* bound: inspects requested while the process lives
  MaxEmitted,   \* bound: MaxEmitted[t], outputs in table t per execution
  MaxDbErrors,  \* bound: statements that fail
  MaxCrashes    \* bound: times the process stops

ASSUME ConstantsAssumption ==
  /\ Inputs \in SUBSET Nat /\ IsFiniteSet(Inputs)
  /\ {MaxInspects, MaxDbErrors, MaxCrashes} \subseteq Nat
  /\ MaxEmitted \in [{"voucher", "notice", "report"} -> Nat]

Outputs == {"voucher", "notice"}
Verdicts == {"accepted", "rejected", "exception"}

VARIABLES
  status,    \* convenience_inputs.status, "absent" before the input is added
  id,        \* convenience_inputs.id: order of insertion, 0 before that
  rows,      \* rows of the three output tables
  inspects,  \* NonodoModel.inspects
  state,     \* NonodoModel.state: idle, or what was handed out and its outputs
  call,      \* the call that holds the mutex: which, and its next statement
  recorded,  \* history: what the execution whose verdict is recorded emitted
  dbErrors,  \* how many statements failed so far
  crashes    \* how many times the process stopped so far

vars == <<status, id, rows, inspects, state, call, recorded, dbErrors, crashes>>

NoneEmitted == [voucher |-> 0, notice |-> 0, report |-> 0]
Idle == [kind |-> "idle", of |-> 0, emitted |-> NoneEmitted]
NoCall == [op |-> "none", verdict |-> "accepted", stage |-> "none", stored |-> 0]

Processed == {i \in Inputs : status[i] \in Verdicts}

Init ==
  /\ status = [i \in Inputs |-> "absent"]
  /\ id = [i \in Inputs |-> 0]
  /\ rows = {}
  /\ inspects = <<>>
  /\ state = Idle
  /\ call = NoCall
  /\ recorded = [i \in Inputs |-> NoneEmitted]
  /\ dbErrors = 0
  /\ crashes = 0

(* AddAdvanceInput; Create leaves an index that is already there alone. *)
AddAdvanceInput(i) ==
  /\ call = NoCall
  /\ status[i] = "absent"
  /\ status' = [status EXCEPT ![i] = "unprocessed"]
  /\ id' = [id EXCEPT ![i] = Cardinality({j \in Inputs : id[j] > 0}) + 1]
  /\ UNCHANGED <<rows, inspects, state, call, recorded, dbErrors, crashes>>

(* "handout" is history: how many inputs were processed when it was picked. *)
AddInspectInput ==
  /\ call = NoCall
  /\ Len(inspects) < MaxInspects
  /\ inspects' = Append(inspects,
       [status |-> "unprocessed", reports |-> 0, count |-> 0, handout |-> 0])
  /\ UNCHANGED <<status, id, rows, state, call, recorded, dbErrors, crashes>>

(* AddVoucher, AddNotice and AddReport accumulate in the state. *)
Emits(kind) == IF kind = "advance" THEN Outputs \cup {"report"}
               ELSE IF kind = "inspect" THEN {"report"} ELSE {}

AddOutput(table) ==
  /\ call = NoCall
  /\ table \in Emits(state.kind)
  /\ state.emitted[table] < MaxEmitted[table]
  /\ state' = [state EXCEPT !.emitted[table] = @ + 1]
  /\ UNCHANGED <<status, id, rows, inspects, call, recorded, dbErrors, crashes>>

(* Mutants of FirstStage: the verdict is not looked at; it is written first. *)
FirstStageNoVerdictCheck(verdict) ==
  IF state.kind = "idle" THEN "pick"
  ELSE IF state.kind = "inspect" THEN "count"
  ELSE IF verdict = "exception" THEN "verdict"
  ELSE "voucher"

FirstStageVerdictFirst(verdict) ==
  IF state.kind = "idle" THEN "pick"
  ELSE IF state.kind = "inspect" THEN "count"
  ELSE "verdict"

(* Mutant of FirstStage: an exception goes the way of a rejection. *)
FirstStageExceptionAsReject(verdict) ==
  IF state.kind = "idle" THEN "pick"
  ELSE IF state.kind = "inspect" THEN "count"
  ELSE IF verdict = "accepted" THEN "voucher"
  ELSE "report"

(***************************************************************************)
(* FinishAndGetNext and RegisterException: the stages of finish and        *)
(* registerException in each state, each stage one loop or statement.      *)
(* An accepted advance writes vouchers, notices, reports and then its      *)
(* verdict; an exception writes the verdict BEFORE the reports.            *)
(***************************************************************************)
FirstStage(verdict) ==
  IF state.kind = "idle" THEN "pick"
  ELSE IF state.kind = "inspect" THEN "count"
  ELSE CASE verdict = "accepted"  -> "voucher"
         [] verdict = "rejected"  -> "report"
         [] verdict = "exception" -> "verdict"

StageAfter(stage) ==
  CASE stage = "voucher" -> "notice"
    [] stage = "notice"  -> "report"
    [] stage = "report"  -> IF call.op = "finish" THEN "verdict" ELSE "idle"
    [] stage = "verdict" -> IF call.op = "finish" THEN "pick" ELSE "report"
    [] stage = "count"   -> IF call.op = "finish" THEN "pick" ELSE "idle"

MoveOn == call' = [call EXCEPT !.stage = StageAfter(@), !.stored = 0]

(* Mutant of MarkInspect: the inspect stays unprocessed. *)
MarkInspectNever(verdict) == inspects' = inspects

(* finish of the inspect state sets the status before anything can fail. *)
MarkInspect(verdict) ==
  inspects' = IF state.kind = "inspect"
              THEN [inspects EXCEPT ![state.of].status = verdict]
              ELSE inspects

Finish(verdict) ==
  /\ call = NoCall
  /\ call' = [op |-> "finish", verdict |-> verdict, stage |-> FirstStage(verdict), stored |-> 0]
  /\ MarkInspect(verdict)
  /\ UNCHANGED <<status, id, rows, state, recorded, dbErrors, crashes>>

RegisterException ==
  /\ call = NoCall
  /\ state.kind # "idle"
  /\ call' = [op |-> "exception", verdict |-> "exception",
              stage |-> FirstStage("exception"), stored |-> 0]
  /\ MarkInspect("exception")
  /\ UNCHANGED <<status, id, rows, state, recorded, dbErrors, crashes>>

RowOf(table, i, k) == [table |-> table, input |-> i, index |-> k]
RowAt(table, k) == RowOf(table, state.of, k)

(* One turn of the loops over vouchers and notices: HandleOutput, whose    *)
(* lookup is by input: only the first of an input's vouchers is inserted.  *)
StoreOutput ==
  /\ call.stage \in Outputs
  /\ call.stored < state.emitted[call.stage]
  /\ rows' = Created(rows, rows, RowAt(call.stage, call.stored))
  /\ call' = [call EXCEPT !.stored = @ + 1]
  /\ UNCHANGED <<status, id, inspects, state, recorded, dbErrors, crashes>>

(* One turn of saveAllReports: a plain INSERT, an error when the row exists. *)
StoreReport ==
  /\ call.stage = "report"
  /\ call.stored < state.emitted.report
  /\ IF RowAt("report", call.stored) \in rows
     THEN call' = NoCall /\ UNCHANGED rows
     ELSE /\ rows' = rows \cup {RowAt("report", call.stored)}
          /\ call' = [call EXCEPT !.stored = @ + 1]
  /\ UNCHANGED <<status, id, inspects, state, recorded, dbErrors, crashes>>

LoopEnd ==
  /\ call.stage \in Outputs \cup {"report"}
  /\ call.stored = state.emitted[call.stage]
  /\ MoveOn
  /\ UNCHANGED <<status, id, rows, inspects, state, recorded, dbErrors, crashes>>

(* inputRepository.Update of the advance input's status. *)
RecordVerdict ==
  /\ call.stage = "verdict"
  /\ status' = [status EXCEPT ![state.of] = call.verdict]
  /\ recorded' = [recorded EXCEPT ![state.of] = state.emitted]
  /\ MoveOn
  /\ UNCHANGED <<id, rows, inspects, state, dbErrors, crashes>>

(* getProcessedInputCount, and what an inspect keeps of its execution. *)
AnswerInspect(count) ==
  inspects' = [inspects EXCEPT ![state.of].count = count, ![state.of].reports = state.emitted.report]

(* Mutant of getProcessedInputCount: the filter on the status is dropped. *)
CountAllInputs == Cardinality({i \in Inputs : status[i] # "absent"})
getProcessedInputCount == Cardinality(Processed)

CountProcessed ==
  /\ call.stage = "count"
  /\ AnswerInspect(getProcessedInputCount)
  /\ MoveOn
  /\ UNCHANGED <<status, id, rows, state, recorded, dbErrors, crashes>>

(* What the next call is about: the first unprocessed inspect, if any ... *)
WaitingInspects == {k \in 1 .. Len(inspects) : inspects[k].status = "unprocessed"}

(* Mutant of FirstInspect: Go's index, one less than TLA+'s. *)
FirstInspectFromZero == {k - 1 : k \in WaitingInspects}

FirstInspect == {k \in WaitingInspects : \A j \in WaitingInspects : k <= j}

PickInspect ==
  /\ call.stage = "pick"
  /\ \E k \in FirstInspect :
       /\ state' = [Idle EXCEPT !.kind = "inspect", !.of = k]
       /\ inspects' = [j \in DOMAIN inspects |->
            [inspects[j] EXCEPT !.handout = IF j = k THEN Cardinality(Processed) ELSE @]]
  /\ call' = NoCall
  /\ UNCHANGED <<status, id, rows, recorded, dbErrors, crashes>>

(* ... else FindByStatus: the lowest unprocessed index in the database ... *)
Unprocessed == {i \in Inputs : status[i] = "unprocessed"}

(* Mutants of FindByStatus: no ORDER BY; only the index after a processed one. *)
FindAnyByStatus == Unprocessed
FindNextByStatus == {i \in Unprocessed : i = 0 \/ i - 1 \in Processed}

FindByStatus == {i \in Unprocessed : \A j \in Unprocessed : i <= j}

PickAdvance ==
  /\ call.stage = "pick"
  /\ WaitingInspects = {}
  /\ \E i \in FindByStatus : state' = [Idle EXCEPT !.kind = "advance", !.of = i]
  /\ call' = NoCall
  /\ UNCHANGED <<status, id, rows, inspects, recorded, dbErrors, crashes>>

(* ... else nothing: the state is idle, and so it is after an exception. *)
NothingToPick ==
  \/ call.stage = "pick" /\ WaitingInspects = {} /\ FindByStatus = {}
  \/ call.stage = "idle"

(* Mutant of GoIdle: the finished state stays in force. *)
GoIdleKeepingState ==
  /\ NothingToPick
  /\ call' = NoCall
  /\ UNCHANGED <<status, id, rows, inspects, state, recorded, dbErrors, crashes>>

GoIdle ==
  /\ NothingToPick
  /\ state' = Idle
  /\ call' = NoCall
  /\ UNCHANGED <<status, id, rows, inspects, recorded, dbErrors, crashes>>

(***************************************************************************)
(* The statement that is next fails.  The call returns the error and       *)
(* leaves the state as it was, with everything it had accumulated; only    *)
(* registerException of an inspect ignores it, and answers -1 inputs.      *)
(***************************************************************************)
DbError ==
  /\ dbErrors < MaxDbErrors
  /\ dbErrors' = dbErrors + 1
  /\ \/ /\ call.stage \in Outputs \cup {"report"}
        /\ call.stored < state.emitted[call.stage]
        /\ call' = NoCall /\ UNCHANGED inspects
     \/ /\ call.stage = "verdict"
        /\ call' = NoCall /\ UNCHANGED inspects
     \/ /\ call.stage = "pick" /\ WaitingInspects = {}
        /\ call' = NoCall /\ UNCHANGED inspects
     \/ /\ call.stage = "count" /\ call.op = "finish"
        /\ call' = NoCall /\ UNCHANGED inspects
     \/ /\ call.stage = "count" /\ call.op = "exception"
        /\ AnswerInspect(-1) /\ MoveOn
  /\ UNCHANGED <<status, id, rows, state, recorded, crashes>>

(* The process stops: the database stays, memory goes. *)
Crash ==
  /\ crashes < MaxCrashes
  /\ crashes' = crashes + 1
  /\ inspects' = <<>>
  /\ state' = Idle
  /\ call' = NoCall
  /\ UNCHANGED <<status, id, rows, recorded, dbErrors>>

Statement ==
  \/ StoreOutput \/ StoreReport \/ LoopEnd \/ RecordVerdict \/ CountProcessed
  \/ PickInspect \/ PickAdvance \/ GoIdle

FinishAndGetNext == \E verdict \in {"accepted", "rejected"} : Finish(verdict)

Next ==
  \/ \E i \in Inputs : AddAdvanceInput(i)
  \/ AddInspectInput
  \/ \E table \in Outputs \cup {"report"} : AddOutput(table)
  \/ FinishAndGetNext
  \/ RegisterException
  \/ Statement
  \/ DbError
  \/ Crash

Spec == Init /\ [][Next]_vars

(* A call runs to its end; the application always calls finish again. *)
FairSpec == Spec /\ WF_vars(Statement) /\ WF_vars(FinishAndGetNext)

-----------------------------------------------------------------------------
(* The state is well formed: what is handed out exists, and a call that    *)
(* runs is about it.                                                       *)
Emitted ==
  {e \in [Outputs \cup {"report"} -> Nat] : \A table \in DOMAIN e : e[table] <= MaxEmitted[table]}

InspectInput ==
  [status : Verdicts \cup {"unprocessed"}, reports : Nat, count : Int, handout : Nat]

TypeOK ==
  /\ status \in [Inputs -> Verdicts \cup {"absent", "unprocessed"}]
  /\ id \in [Inputs -> 0 .. Cardinality(Inputs)]
  /\ \A i \in Inputs : status[i] = "absent" <=> id[i] = 0
  /\ rows \subseteq Row
  /\ inspects \in Seq(InspectInput)
  /\ state \in [kind : {"idle", "advance", "inspect"}, of : Nat, emitted : Emitted]
  /\ state.kind = "advance" => state.of \in Inputs /\ status[state.of] # "absent"
  /\ state.kind = "inspect" => state.of \in DOMAIN inspects
  /\ call \in [op : {"none", "finish", "exception"}, verdict : Verdicts,
               stage : Outputs \cup {"report", "verdict", "count", "pick", "idle", "none"},
               stored : Nat]
  /\ call.stage \in Outputs \cup {"report", "verdict"} => state.kind = "advance"
  /\ call.stage = "count" => state.kind = "inspect"
  /\ call.stage \in Outputs \cup {"report"} => call.stored <= state.emitted[call.stage]
  /\ recorded \in [Inputs -> Emitted]

(***************************************************************************)
(* finish writes what the execution emitted before its verdict: whatever   *)
(* statement failed and wherever the process stopped, an input recorded as *)
(* accepted or rejected has a row for each of its reports, and as accepted *)
(* one for its first voucher and its first notice.  (The second and later  *)
(* ones are lost even without a fault: see AcceptedKeepsOutputs.)          *)
(***************************************************************************)
Keeps(verdict, table) == verdict = "accepted" \/ (verdict = "rejected" /\ table = "report")

Kept(table, emitted) == {k \in 0 .. emitted - 1 : table \in Outputs => k = 0}

VerdictAfterOutputs ==
  \A i \in Inputs, table \in Outputs \cup {"report"} :
    Keeps(status[i], table) =>
      \A k \in Kept(table, recorded[i][table]) : RowOf(table, i, k) \in rows

(***************************************************************************)
(* rollup.yaml promises, of POST /voucher and POST /notice, many vouchers  *)
(* and notices for an input, each with its index: an accepted input has a  *)
(* row for every one of them.                                              *)
(***************************************************************************)
AcceptedKeepsOutputs ==
  \A i \in Inputs, table \in Outputs :
    status[i] = "accepted" =>
      \A k \in 0 .. recorded[i][table] - 1 : RowOf(table, i, k) \in rows

(***************************************************************************)
(* Inputs get their verdicts in index order, among those that were in the  *)
(* database in that order, through failed statements and restarts.         *)
(***************************************************************************)
InputOrder ==
  \A i, j \in Inputs :
    i < j /\ status[i] # "absent" /\ id[i] < id[j] /\ j \in Processed => i \in Processed

(***************************************************************************)
(* rollup.yaml promises, of POST /finish, that the vouchers and notices of *)
(* a rejected input are discarded: it has none in the database.            *)
(***************************************************************************)
RejectedDiscardsOutputs ==
  \A i \in Inputs : status[i] = "rejected" =>
    \A row \in rows : row.input = i => row.table = "report"

(***************************************************************************)
(* While no statement fails and the process lives: the verdict that        *)
(* inputRepository.Update wrote is never replaced ...                      *)
(***************************************************************************)
VerdictIsFinal ==
  [][\A i \in Inputs : i \in Processed => status'[i] = status[i]]_vars

(***************************************************************************)
(* ... an inspect that GetInspectInput can see answered (the mutex is      *)
(* free) counts the inputs that were processed when the application was    *)
(* handed the inspect: none is processed while it is being answered ...    *)
(***************************************************************************)
AnswerMatchesHandout ==
  call = NoCall => \A k \in DOMAIN inspects :
    inspects[k].status \in Verdicts => inspects[k].count = inspects[k].handout

(* ... every input added gets a verdict, although FinishAndGetNext serves  *)
(* every inspect that waits before it looks for an input ...               *)
EveryInputProcessed ==
  \A i \in Inputs : status[i] = "unprocessed" ~> i \in Processed

(* ... and every inspect of AddInspectInput is answered, by the finish or  *)
(* the exception of the application it was handed to.                      *)
EveryInspectAnswered ==
  \A k \in 1 .. MaxInspects :
    k \in WaitingInspects ~> (k <= Len(inspects) /\ inspects[k].status \in Verdicts)

(***************************************************************************)
(* Through failed statements and restarts it is the host of RollupsHost:   *)
(* finish never lets go of what it handed out before its verdict is        *)
(* recorded, and records no other's; what is next is chosen as promised.   *)
(***************************************************************************)
Host == INSTANCE RollupsHost WITH
  answers <- [k \in DOMAIN inspects |-> inspects[k].status],
  hand <- [kind |-> state.kind, of |-> state.of]

ImplementsHost == Host!Spec
=============================================================================
