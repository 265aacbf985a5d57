-------------------------- MODULE NonodoModel_proofs --------------------------
(***************************************************************************)
(* Proofs about NonodoModel: type correctness, the order of the verdicts   *)
(* and that a verdict comes after what it is about, for any set of inputs, *)
(* any number of outputs, failed statements and crashes; and that the      *)
(* model implements RollupsHost.                                           *)
(***************************************************************************)
EXTENDS NonodoModel, FiniteSetTheorems, SequenceTheorems, TLAPS

OutputTables == Outputs \cup {"report"}

Present == {i \in Inputs : id[i] > 0}

(***************************************************************************)
(* IdsBounded: the next id is larger than every id.  PickedInOrder: every  *)
(* input that precedes the one handed out has its verdict.                 *)
(***************************************************************************)
IdsBounded == \A i \in Inputs : id[i] <= Cardinality(Present)

PickedInOrder ==
  state.kind = "advance" =>
    \A i \in Inputs : i < state.of /\ status[i] # "absent" /\ id[i] < id[state.of] => i \in Processed

(***************************************************************************)
(* How many of the outputs for each table a running finish has written:    *)
(* all those of the loops before its stage, and call.stored of its stage.  *)
(***************************************************************************)
StagesAfter(table) ==
  CASE table = "voucher" -> {"notice", "report", "verdict", "pick"}
    [] table = "notice"  -> {"report", "verdict", "pick"}
    [] table = "report"  -> {"verdict", "pick"}

Written(table) ==
  IF call.stage = table THEN call.stored
  ELSE IF call.stage \in StagesAfter(table) THEN state.emitted[table] ELSE 0

FinishProgress ==
  call.op = "finish" /\ state.kind = "advance" =>
    /\ \A k \in 0 .. Written("report") - 1 : RowAt("report", k) \in rows
    /\ call.verdict = "accepted" => \A table \in Outputs : \A k \in 0 .. Written(table) - 1 :
         Found(rows, RowAt(table, k))

(***************************************************************************)
(* VerdictAfterOutputs as far as the lookup of ConvenienceService goes:    *)
(* for each voucher and notice of an accepted input it finds some row.     *)
(***************************************************************************)
VerdictAfterLookups ==
  \A i \in Inputs :
    /\ status[i] \in {"accepted", "rejected"} =>
         \A k \in 0 .. recorded[i]["report"] - 1 : RowOf("report", i, k) \in rows
    /\ status[i] = "accepted" =>
         \A table \in Outputs : \A k \in 0 .. recorded[i][table] - 1 :
           Found(rows, RowOf(table, i, k))

CallMatchesVerdict ==
  /\ call.op = "exception" <=> call.verdict = "exception"
  /\ call.op = "none" => call.stage = "none"

IInv ==
  /\ TypeOK
  /\ IdsBounded
  /\ PickedInOrder
  /\ CallMatchesVerdict
  /\ FinishProgress
  /\ InputOrder
  /\ VerdictAfterLookups

-----------------------------------------------------------------------------
(* Constants of the module that have the types the state needs. *)
LEMMA ConstantTypes ==
  /\ NoneEmitted \in Emitted
  /\ Idle \in [kind : {"idle", "advance", "inspect"}, of : Nat, emitted : Emitted]
  /\ NoCall \in [op : {"none", "finish", "exception"}, verdict : Verdicts,
                 stage : Outputs \cup {"report", "verdict", "count", "pick", "idle", "none"},
                 stored : Nat]
BY ConstantsAssumption DEF NoneEmitted, Emitted, Idle, NoCall, Verdicts, Outputs

(* The number of inputs present, and of inputs processed, is a number. *)
LEMMA Counts ==
  /\ IsFiniteSet(Present) /\ Cardinality(Present) \in Nat
  /\ Cardinality(Present) <= Cardinality(Inputs) /\ Cardinality(Inputs) \in Nat
  /\ Cardinality(Processed) \in Nat
<1>1. Present \subseteq Inputs /\ Processed \subseteq Inputs /\ IsFiniteSet(Inputs)
  BY ConstantsAssumption DEF Present, Processed
<1> QED BY <1>1, FS_Subset, FS_CardinalityType

(* The id that AddAdvanceInput gives is one more than the inputs there. *)
LEMMA NewId ==
  ASSUME TypeOK, NEW i \in Inputs, AddAdvanceInput(i)
  PROVE  /\ id'[i] = Cardinality(Present) + 1
         /\ Present' = Present \cup {i}
         /\ Cardinality(Present') = Cardinality(Present) + 1
         /\ Cardinality(Present') <= Cardinality(Inputs)
         /\ i \notin Present
<1>1. id' = [id EXCEPT ![i] = Cardinality(Present) + 1] /\ i \in DOMAIN id
  BY DEF AddAdvanceInput, Present, TypeOK
<1>2. id[i] = 0 /\ i \notin Present
  BY DEF AddAdvanceInput, TypeOK, Present
<1>3. \A j \in Inputs : id'[j] > 0 <=> j \in Present \cup {i}
  BY <1>1, Counts DEF TypeOK, Present
<1>4. Present' = Present \cup {i}
  BY <1>3 DEF Present
<1>5. Cardinality(Present') = Cardinality(Present) + 1
  BY <1>2, <1>4, Counts, FS_AddElement
<1>6. Present' \subseteq Inputs /\ IsFiniteSet(Inputs)
  BY <1>4, ConstantsAssumption DEF Present
<1>7. Cardinality(Present') <= Cardinality(Inputs)
  BY <1>6, FS_Subset
<1> QED BY <1>1, <1>2, <1>4, <1>5, <1>7

(* Setting fields of one inspect keeps the list a list of inspects. *)
LEMMA InspectUpdate ==
  ASSUME NEW seq \in Seq(InspectInput), NEW k \in DOMAIN seq, NEW e \in InspectInput
  PROVE  /\ [seq EXCEPT ![k] = e] \in Seq(InspectInput)
         /\ DOMAIN [seq EXCEPT ![k] = e] = DOMAIN seq
BY ExceptSeq

(* What a step of a call may change in the inspects. *)
LEMMA MarkInspectType ==
  ASSUME TypeOK, NEW verdict \in Verdicts, MarkInspect(verdict)
  PROVE  inspects' \in Seq(InspectInput) /\ DOMAIN inspects' = DOMAIN inspects
<1>1. CASE state.kind = "inspect"
  <2>1. inspects \in Seq(InspectInput) /\ state.of \in DOMAIN inspects
    BY <1>1 DEF TypeOK
  <2>2. inspects[state.of] \in InspectInput
    BY <2>1
  <2>3. [inspects[state.of] EXCEPT !.status = verdict] \in InspectInput
    BY <2>2 DEF InspectInput
  <2> QED BY <1>1, <2>1, <2>3, InspectUpdate DEF MarkInspect
<1>2. CASE state.kind # "inspect"
  BY <1>2 DEF MarkInspect, TypeOK
<1> QED BY <1>1, <1>2

(* The answer of an inspect keeps the list of inspects well formed. *)
LEMMA AnswerInspectType ==
  ASSUME TypeOK, state.kind = "inspect", NEW count \in Int, AnswerInspect(count)
  PROVE  inspects' \in Seq(InspectInput) /\ DOMAIN inspects' = DOMAIN inspects
<1> DEFINE old == inspects[state.of]
           new == [[old EXCEPT !.count = count] EXCEPT !.reports = state.emitted.report]
<1>1. inspects \in Seq(InspectInput) /\ state.of \in DOMAIN inspects
  BY DEF TypeOK
<1>2. old \in InspectInput /\ state.emitted.report \in Nat
  BY <1>1 DEF TypeOK, Emitted
<1>3. new \in InspectInput
  BY <1>2 DEF InspectInput
<1>4. inspects' = [inspects EXCEPT ![state.of] = new]
  BY <1>1 DEF AnswerInspect
<1> QED BY <1>1, <1>3, <1>4, InspectUpdate

-----------------------------------------------------------------------------
(* TypeOK by parts: the database, the memory, and the call in progress. *)
CallType == [op : {"none", "finish", "exception"}, verdict : Verdicts,
             stage : Outputs \cup {"report", "verdict", "count", "pick", "idle", "none"},
             stored : Nat]
StateType == [kind : {"idle", "advance", "inspect"}, of : Nat, emitted : Emitted]

DatabaseOK ==
  /\ status \in [Inputs -> Verdicts \cup {"absent", "unprocessed"}]
  /\ id \in [Inputs -> 0 .. Cardinality(Inputs)]
  /\ \A i \in Inputs : status[i] = "absent" <=> id[i] = 0
  /\ rows \subseteq Row
  /\ recorded \in [Inputs -> Emitted]

MemoryOK ==
  /\ inspects \in Seq(InspectInput)
  /\ state \in StateType
  /\ state.kind = "advance" => state.of \in Inputs /\ status[state.of] # "absent"
  /\ state.kind = "inspect" => state.of \in DOMAIN inspects

CallOK ==
  /\ call \in CallType
  /\ call.stage \in OutputTables => call.stored <= state.emitted[call.stage]
  /\ call.stage \in OutputTables \cup {"verdict"} => state.kind = "advance"
  /\ call.stage = "count" => state.kind = "inspect"

LEMMA TypeParts == TypeOK <=> DatabaseOK /\ MemoryOK /\ CallOK
BY DEF TypeOK, DatabaseOK, MemoryOK, CallOK, CallType, StateType, OutputTables

(* The same of the next state. *)
LEMMA TypePartsNext == TypeOK' <=> (DatabaseOK' /\ MemoryOK' /\ CallOK')
BY DEF TypeOK, DatabaseOK, MemoryOK, CallOK, CallType, StateType, OutputTables

(* A row that a call writes is a row. *)
LEMMA RowType ==
  ASSUME TypeOK, NEW table \in OutputTables, NEW k \in Nat
  PROVE  RowAt(table, k) \in Row
BY DEF RowAt, RowOf, Row, Tables, OutputTables, Outputs, TypeOK

(* The first and the following stages fit the state. *)
LEMMA FirstStageOK ==
  ASSUME TypeOK, NEW verdict \in Verdicts, NEW op \in {"finish", "exception"},
         call' = [op |-> op, verdict |-> verdict, stage |-> FirstStage(verdict), stored |-> 0],
         UNCHANGED state
  PROVE  CallOK'
<1>1. state \in StateType
  BY TypeParts DEF MemoryOK
<1>2. state.emitted \in Emitted /\ state.kind \in {"idle", "advance", "inspect"}
  BY <1>1 DEF StateType
<1>3. \A table \in OutputTables : 0 <= state.emitted[table]
  BY <1>2 DEF Emitted, OutputTables
<1>4. FirstStage(verdict) \in Outputs \cup {"report", "verdict", "count", "pick"}
  BY <1>2 DEF FirstStage, Verdicts, Outputs
<1>5. /\ FirstStage(verdict) \in OutputTables \cup {"verdict"} => state.kind = "advance"
      /\ FirstStage(verdict) = "count" => state.kind = "inspect"
  BY <1>2 DEF FirstStage, Verdicts, OutputTables, Outputs
<1> QED BY <1>3, <1>4, <1>5 DEF CallOK, CallType

(* The end of a loop or a statement leads to a stage that fits the state. *)
LEMMA MoveOnOK ==
  ASSUME TypeOK, MoveOn, UNCHANGED state,
         call.stage \in OutputTables \cup {"verdict", "count"}
  PROVE  /\ CallOK'
         /\ call'.stage = StageAfter(call.stage) /\ call'.stored = 0
         /\ call'.op = call.op /\ call'.verdict = call.verdict
<1>1. CallOK /\ state \in StateType
  BY TypeParts DEF MemoryOK
<1>2. \A table \in OutputTables : 0 <= state.emitted[table]
  BY <1>1 DEF Emitted, OutputTables, StateType
<1>3. /\ call'.stage = StageAfter(call.stage) /\ call'.stored = 0
      /\ call'.op = call.op /\ call'.verdict = call.verdict
      /\ call' = [call EXCEPT !.stage = StageAfter(call.stage), !.stored = 0]
  BY <1>1 DEF MoveOn, CallOK, CallType
<1>4. StageAfter(call.stage) \in Outputs \cup {"report", "verdict", "pick", "idle"}
  BY DEF StageAfter, OutputTables, Outputs
<1>5. call' \in CallType
  <2>1. call \in CallType
    BY <1>1 DEF CallOK
  <2>2. call' = [op |-> call.op, verdict |-> call.verdict,
                 stage |-> StageAfter(call.stage), stored |-> 0]
    BY <1>3, <2>1 DEF CallType
  <2>3. call.op \in {"none", "finish", "exception"} /\ call.verdict \in Verdicts
    BY <2>1 DEF CallType
  <2> QED BY <1>4, <2>2, <2>3 DEF CallType
<1>6. StageAfter(call.stage) \in OutputTables \cup {"verdict"} => state.kind = "advance"
  BY <1>1 DEF StageAfter, CallOK, OutputTables, Outputs
<1>7. StageAfter(call.stage) # "count"
  BY <1>4 DEF Outputs
<1> QED BY <1>2, <1>3, <1>5, <1>6, <1>7 DEF CallOK

(* When the mutex is free there is no call to be well formed. *)
LEMMA NoCallOK ==
  ASSUME call' = NoCall
  PROVE  CallOK'
BY ConstantTypes DEF CallOK, CallType, NoCall, OutputTables, Outputs

(* Every action keeps the state well formed. *)
LEMMA TypeStep ==
  ASSUME TypeOK, Next
  PROVE  TypeOK'
<1> USE TypeParts, TypePartsNext, ConstantTypes
<1>a. DatabaseOK /\ MemoryOK /\ CallOK
  OBVIOUS
<1>b. ASSUME UNCHANGED <<status, id, rows, recorded>> PROVE DatabaseOK'
  BY <1>a, <1>b DEF DatabaseOK
<1>c. ASSUME UNCHANGED <<inspects, state, status>> PROVE MemoryOK'
  BY <1>a, <1>c DEF MemoryOK
<1>d. ASSUME UNCHANGED <<call, state>> PROVE CallOK'
  BY <1>a, <1>d DEF CallOK
<1>1. ASSUME NEW i \in Inputs, AddAdvanceInput(i) PROVE TypeOK'
  <2>1. /\ status' = [status EXCEPT ![i] = "unprocessed"]
        /\ id' = [id EXCEPT ![i] = Cardinality(Present) + 1]
        /\ UNCHANGED <<rows, inspects, state, call, recorded>>
    BY <1>1 DEF AddAdvanceInput, Present
  <2>2. Cardinality(Present) + 1 \in 0 .. Cardinality(Inputs) /\ Cardinality(Present) + 1 # 0
    BY <1>1, NewId, Counts
  <2>3. DatabaseOK'
    BY <1>a, <2>1, <2>2 DEF DatabaseOK
  <2>4. MemoryOK'
    BY <1>a, <2>1 DEF MemoryOK, DatabaseOK
  <2> QED BY <1>d, <2>1, <2>3, <2>4
<1>2. CASE AddInspectInput
  <2>1. [status |-> "unprocessed", reports |-> 0, count |-> 0, handout |-> 0] \in InspectInput
    BY DEF InspectInput
  <2>2. inspects' \in Seq(InspectInput) /\ DOMAIN inspects \subseteq DOMAIN inspects'
    BY <1>2, <1>a, <2>1 DEF AddInspectInput, MemoryOK
  <2>3. UNCHANGED <<status, id, rows, recorded, state, call>>
    BY <1>2 DEF AddInspectInput
  <2>4. MemoryOK'
    BY <1>a, <2>2, <2>3 DEF MemoryOK
  <2> QED BY <1>b, <1>d, <2>3, <2>4
<1>3. ASSUME NEW table \in Outputs \cup {"report"}, AddOutput(table) PROVE TypeOK'
  <2>1. /\ UNCHANGED <<status, id, rows, inspects, call, recorded>> /\ call = NoCall
        /\ state' = [state EXCEPT !.emitted[table] = @ + 1]
        /\ state.emitted[table] < MaxEmitted[table]
    BY <1>3 DEF AddOutput
  <2>2. state \in StateType
    BY <1>a DEF MemoryOK
  <2>3. [state.emitted EXCEPT ![table] = @ + 1] \in Emitted
    BY <2>1, <2>2, ConstantsAssumption DEF StateType, Emitted, Outputs
  <2>4. /\ state'.emitted = [state.emitted EXCEPT ![table] = @ + 1]
        /\ state'.kind = state.kind /\ state'.of = state.of /\ state' \in StateType
    BY <2>1, <2>2, <2>3 DEF StateType
  <2>5. MemoryOK'
    BY <1>a, <2>1, <2>4 DEF MemoryOK
  <2>6. CallOK'
    BY <2>1, NoCallOK
  <2> QED BY <1>b, <2>1, <2>5, <2>6
<1>4. ASSUME NEW verdict \in {"accepted", "rejected"}, Finish(verdict) PROVE TypeOK'
  <2>1. UNCHANGED <<status, id, rows, state, recorded>> /\ verdict \in Verdicts
    BY <1>4 DEF Finish, Verdicts
  <2>2. inspects' \in Seq(InspectInput) /\ DOMAIN inspects' = DOMAIN inspects
    BY <1>4, <2>1, MarkInspectType DEF Finish
  <2>3. MemoryOK'
    BY <1>a, <2>1, <2>2 DEF MemoryOK
  <2>4. CallOK'
    BY <1>4, <2>1, FirstStageOK DEF Finish
  <2> QED BY <1>b, <2>1, <2>3, <2>4
<1>5. CASE RegisterException
  <2>1. UNCHANGED <<status, id, rows, state, recorded>> /\ "exception" \in Verdicts
    BY <1>5 DEF RegisterException, Verdicts
  <2>2. inspects' \in Seq(InspectInput) /\ DOMAIN inspects' = DOMAIN inspects
    BY <1>5, <2>1, MarkInspectType DEF RegisterException
  <2>3. MemoryOK'
    BY <1>a, <2>1, <2>2 DEF MemoryOK
  <2>4. CallOK'
    BY <1>5, <2>1, FirstStageOK DEF RegisterException
  <2> QED BY <1>b, <2>1, <2>3, <2>4
<1> DEFINE CallStored == call' = [call EXCEPT !.stored = @ + 1] /\ call.stage \in OutputTables
                         /\ call.stored < state.emitted[call.stage] /\ UNCHANGED state
<1>e. ASSUME CallStored PROVE CallOK'
  <2>1. state.emitted[call.stage] \in Nat
    BY <1>a, <1>e DEF MemoryOK, StateType, Emitted, OutputTables
  <2> QED BY <1>a, <1>e, <2>1 DEF CallOK, CallType
<1>6. CASE StoreOutput
  <2>1. UNCHANGED <<status, id, inspects, state, recorded>> /\ CallStored
    BY <1>6 DEF StoreOutput, OutputTables
  <2>2. rows' \subseteq Row
    BY <1>6, <1>a, RowType DEF StoreOutput, Created, DatabaseOK, CallOK, CallType, OutputTables
  <2> QED BY <1>a, <1>c, <1>e, <2>1, <2>2 DEF DatabaseOK
<1>7. CASE StoreReport
  <2>1. UNCHANGED <<status, id, inspects, state, recorded>>
    BY <1>7 DEF StoreReport
  <2>2. RowAt("report", call.stored) \in Row
    BY <1>a, RowType DEF OutputTables, CallOK, CallType
  <2>3. rows' \subseteq Row
    BY <1>7, <1>a, <2>2 DEF StoreReport, DatabaseOK
  <2>4. CallOK'
    <3>1. CASE call' = NoCall
      BY <3>1, NoCallOK
    <3>2. CASE call' = [call EXCEPT !.stored = @ + 1]
      BY <1>7, <1>e, <3>2 DEF StoreReport, OutputTables
    <3> QED BY <1>7, <3>1, <3>2 DEF StoreReport
  <2> QED BY <1>a, <1>c, <2>1, <2>3, <2>4 DEF DatabaseOK
<1>8. CASE LoopEnd
  <2>1. UNCHANGED <<status, id, rows, inspects, state, recorded>>
    BY <1>8 DEF LoopEnd
  <2>2. CallOK'
    BY <1>8, <2>1, MoveOnOK DEF LoopEnd, OutputTables
  <2> QED BY <1>b, <1>c, <2>1, <2>2
<1>9. CASE RecordVerdict
  <2>1. /\ UNCHANGED <<id, rows, inspects, state>> /\ call.stage = "verdict"
        /\ status' = [status EXCEPT ![state.of] = call.verdict]
        /\ recorded' = [recorded EXCEPT ![state.of] = state.emitted]
    BY <1>9 DEF RecordVerdict
  <2>2. state.kind = "advance" /\ state.of \in Inputs /\ status[state.of] # "absent"
    BY <1>a, <2>1 DEF CallOK, MemoryOK
  <2>3. call.verdict \in Verdicts /\ state.emitted \in Emitted /\ "absent" \notin Verdicts
    BY <1>a DEF CallOK, CallType, MemoryOK, StateType, Verdicts
  <2>4. DatabaseOK'
    BY <1>a, <2>1, <2>2, <2>3 DEF DatabaseOK
  <2>5. MemoryOK'
    BY <1>a, <2>1, <2>2, <2>3 DEF MemoryOK, DatabaseOK
  <2>6. CallOK'
    BY <1>9, <2>1, MoveOnOK DEF RecordVerdict
  <2> QED BY <2>4, <2>5, <2>6
<1>10. CASE CountProcessed
  <2>1. /\ UNCHANGED <<status, id, rows, state, recorded>> /\ state.kind = "inspect"
        /\ getProcessedInputCount \in Int
    BY <1>10, <1>a, Counts DEF CountProcessed, CallOK, getProcessedInputCount
  <2>2. inspects' \in Seq(InspectInput) /\ DOMAIN inspects' = DOMAIN inspects
    BY <1>10, <2>1, AnswerInspectType DEF CountProcessed
  <2>3. MemoryOK'
    BY <1>a, <2>1, <2>2 DEF MemoryOK
  <2>4. CallOK'
    BY <1>10, <2>1, MoveOnOK DEF CountProcessed
  <2> QED BY <1>b, <2>1, <2>3, <2>4
<1>11. CASE PickInspect
  <2>1. UNCHANGED <<status, id, rows, recorded>> /\ call' = NoCall
    BY <1>11 DEF PickInspect
  <2>2. PICK k \in FirstInspect :
          /\ state' = [Idle EXCEPT !.kind = "inspect", !.of = k]
          /\ inspects' = [j \in DOMAIN inspects |->
               [inspects[j] EXCEPT !.handout = IF j = k THEN Cardinality(Processed) ELSE @]]
    BY <1>11 DEF PickInspect
  <2>3. inspects \in Seq(InspectInput) /\ DOMAIN inspects = 1 .. Len(inspects)
    BY <1>a DEF MemoryOK
  <2>4. k \in DOMAIN inspects /\ k \in Nat
    BY <2>3 DEF FirstInspect, WaitingInspects
  <2>5. \A j \in 1 .. Len(inspects) : inspects'[j] \in InspectInput
    <3> SUFFICES ASSUME NEW j \in 1 .. Len(inspects) PROVE inspects'[j] \in InspectInput
      OBVIOUS
    <3>1. inspects[j] \in InspectInput
      BY <2>3
    <3>2. inspects'[j] = [inspects[j] EXCEPT !.handout =
                            IF j = k THEN Cardinality(Processed) ELSE @]
      BY <2>2, <2>3
    <3>3. (IF j = k THEN Cardinality(Processed) ELSE inspects[j].handout) \in Nat
      BY <3>1, Counts DEF InspectInput
    <3> QED BY <3>1, <3>2, <3>3 DEF InspectInput
  <2>6. inspects' \in Seq(InspectInput) /\ DOMAIN inspects' = DOMAIN inspects
    <3>1. inspects' \in [1 .. Len(inspects) -> InspectInput] /\ Len(inspects) \in Nat
      BY <2>2, <2>3, <2>5
    <3> QED BY <3>1, <2>3
  <2>7. state' \in StateType /\ state'.kind = "inspect" /\ state'.of = k
    BY <2>2, <2>4 DEF StateType, Idle
  <2>8. MemoryOK'
    BY <2>1, <2>4, <2>6, <2>7 DEF MemoryOK
  <2> QED BY <1>b, <2>1, <2>8, NoCallOK
<1>12. CASE PickAdvance
  <2>1. UNCHANGED <<status, id, rows, recorded, inspects>> /\ call' = NoCall
    BY <1>12 DEF PickAdvance
  <2>2. PICK i \in FindByStatus : state' = [Idle EXCEPT !.kind = "advance", !.of = i]
    BY <1>12 DEF PickAdvance
  <2>3. i \in Inputs /\ i \in Nat /\ status[i] # "absent"
    BY <2>2, ConstantsAssumption DEF FindByStatus, Unprocessed
  <2>4. state' \in StateType /\ state'.kind = "advance" /\ state'.of = i
    BY <2>2, <2>3 DEF StateType, Idle
  <2>5. MemoryOK'
    BY <1>a, <2>1, <2>3, <2>4 DEF MemoryOK
  <2> QED BY <1>b, <2>1, <2>5, NoCallOK
<1>13. CASE GoIdle
  <2>1. UNCHANGED <<status, id, rows, recorded, inspects>> /\ call' = NoCall /\ state' = Idle
    BY <1>13 DEF GoIdle
  <2>2. Idle.kind = "idle" /\ Idle \in StateType
    BY DEF Idle, StateType
  <2>3. MemoryOK'
    BY <1>a, <2>1, <2>2 DEF MemoryOK
  <2> QED BY <1>b, <2>1, <2>3, NoCallOK
<1>14. CASE DbError
  <2>1. UNCHANGED <<status, id, rows, state, recorded>>
    BY <1>14 DEF DbError
  <2>2. CASE call' = NoCall /\ UNCHANGED inspects
    BY <1>b, <1>c, <2>1, <2>2, NoCallOK
  <2>3. CASE call.stage = "count" /\ AnswerInspect(-1) /\ MoveOn
    <3>1. state.kind = "inspect" /\ -1 \in Int
      BY <1>a, <2>3 DEF CallOK
    <3>2. inspects' \in Seq(InspectInput) /\ DOMAIN inspects' = DOMAIN inspects
      BY <2>3, <3>1, AnswerInspectType
    <3>3. MemoryOK'
      BY <1>a, <2>1, <3>2 DEF MemoryOK
    <3>4. CallOK'
      BY <2>1, <2>3, MoveOnOK
    <3> QED BY <1>b, <2>1, <3>3, <3>4
  <2> QED BY <1>14, <2>2, <2>3 DEF DbError
<1>15. CASE Crash
  <2>1. UNCHANGED <<status, id, rows, recorded>> /\ call' = NoCall /\ state' = Idle /\ inspects' = <<>>
    BY <1>15 DEF Crash
  <2>2. Idle.kind = "idle" /\ Idle \in StateType /\ <<>> \in Seq(InspectInput)
    BY DEF Idle, StateType
  <2>3. MemoryOK'
    BY <2>1, <2>2 DEF MemoryOK
  <2> QED BY <1>b, <2>1, <2>3, NoCallOK
<1> QED BY <1>1, <1>2, <1>3, <1>4, <1>5, <1>6, <1>7, <1>8, <1>9, <1>10, <1>11, <1>12, <1>13,
           <1>14, <1>15 DEF Next, Statement, FinishAndGetNext

-----------------------------------------------------------------------------
(* A step that touches neither the inputs nor which input is handed out. *)
Quiet ==
  /\ UNCHANGED <<status, id>>
  /\ state'.kind # "advance" \/ (state'.kind = state.kind /\ state'.of = state.of)

OrderInv == IdsBounded /\ PickedInOrder /\ InputOrder

LEMMA QuietKeepsOrder ==
  ASSUME OrderInv, Quiet
  PROVE  OrderInv'
<1> USE DEF OrderInv, Quiet
<1>1. Present' = Present /\ Processed' = Processed
  BY DEF Present, Processed
<1>2. IdsBounded'
  BY <1>1 DEF IdsBounded
<1>3. PickedInOrder'
  BY <1>1 DEF PickedInOrder
<1>4. InputOrder'
  BY <1>1 DEF InputOrder
<1> QED BY <1>2, <1>3, <1>4

(* A new input comes after every input that is there. *)
LEMMA AddKeepsOrder ==
  ASSUME TypeOK, OrderInv, NEW i \in Inputs, AddAdvanceInput(i)
  PROVE  OrderInv'
<1> USE TypeParts DEF OrderInv
<1>1. /\ id' = [id EXCEPT ![i] = Cardinality(Present) + 1]
      /\ status' = [status EXCEPT ![i] = "unprocessed"]
      /\ status[i] = "absent" /\ UNCHANGED state
  BY DEF AddAdvanceInput, Present
<1>2. /\ DatabaseOK /\ MemoryOK
      /\ id'[i] = Cardinality(Present) + 1 /\ \A j \in Inputs \ {i} : id'[j] = id[j]
      /\ status'[i] = "unprocessed" /\ \A j \in Inputs \ {i} : status'[j] = status[j]
  BY <1>1 DEF DatabaseOK
<1>3. \A j \in Inputs : id[j] \in Nat /\ id[j] <= Cardinality(Present)
  BY <1>2, Counts DEF IdsBounded, DatabaseOK
<1>4. Processed' = Processed /\ i \notin Processed
  BY <1>1, <1>2 DEF Processed, Verdicts
<1>5. IdsBounded'
  <2>1. Cardinality(Present') = Cardinality(Present) + 1
    BY NewId
  <2>2. \A j \in Inputs : id'[j] <= Cardinality(Present')
    BY <1>2, <1>3, <2>1, Counts
  <2> QED BY <2>2 DEF IdsBounded
<1>6. \A j, k \in Inputs : k # i /\ id'[j] < id'[k] => j # i
  BY <1>2, <1>3, Counts
<1>7. PickedInOrder'
  <2>1. state.kind = "advance" => state.of \in Inputs /\ state.of # i
    BY <1>1, <1>2 DEF MemoryOK
  <2> QED BY <1>1, <1>2, <1>4, <1>6, <2>1 DEF PickedInOrder
<1>8. InputOrder'
  <2>1. \A j \in Processed : j \in Inputs /\ j # i
    BY <1>4 DEF Processed
  <2> QED BY <1>2, <1>4, <1>6, <2>1 DEF InputOrder
<1> QED BY <1>5, <1>7, <1>8

(* The verdict goes to the input handed out, whose predecessors have one. *)
LEMMA VerdictKeepsOrder ==
  ASSUME TypeOK, OrderInv, RecordVerdict
  PROVE  OrderInv'
<1> USE TypeParts DEF OrderInv
<1> DEFINE o == state.of
<1>1. /\ status' = [status EXCEPT ![o] = call.verdict] /\ UNCHANGED <<id, state>>
      /\ call.stage = "verdict"
  BY DEF RecordVerdict
<1>2. /\ DatabaseOK /\ state.kind = "advance" /\ o \in Inputs /\ status[o] # "absent"
      /\ call.verdict \in Verdicts
  BY <1>1 DEF CallOK, CallType, MemoryOK, OutputTables
<1>3. status'[o] \in Verdicts /\ \A j \in Inputs \ {o} : status'[j] = status[j]
  BY <1>1, <1>2 DEF DatabaseOK
<1>4. Processed' = Processed \cup {o}
  BY <1>2, <1>3 DEF Processed
<1>5. IdsBounded'
  BY <1>1 DEF IdsBounded, Present
<1>6. PickedInOrder'
  BY <1>1, <1>2, <1>3, <1>4 DEF PickedInOrder
<1>7. InputOrder'
  BY <1>1, <1>2, <1>3, <1>4 DEF InputOrder, PickedInOrder
<1> QED BY <1>5, <1>6, <1>7

(* FindByStatus takes the lowest index that has no verdict. *)
LEMMA PickKeepsOrder ==
  ASSUME TypeOK, OrderInv, PickAdvance
  PROVE  OrderInv'
<1> USE TypeParts DEF OrderInv
<1>1. UNCHANGED <<status, id>>
  BY DEF PickAdvance
<1>2. PICK i \in FindByStatus : state' = [Idle EXCEPT !.kind = "advance", !.of = i]
  BY DEF PickAdvance
<1>3. state'.kind = "advance" /\ state'.of = i
  BY <1>2 DEF Idle
<1>4. i \in Inputs /\ i \in Nat /\ \A j \in Unprocessed : j \in Nat /\ i <= j
  BY <1>2, ConstantsAssumption DEF FindByStatus, Unprocessed
<1>5. ASSUME NEW j \in Inputs, j < i, status[j] # "absent" PROVE j \in Processed
  <2>1. j \notin Unprocessed
    BY <1>4, <1>5
  <2> QED BY <1>5, <2>1 DEF Unprocessed, Processed, DatabaseOK
<1>6. Present' = Present /\ Processed' = Processed
  BY <1>1 DEF Present, Processed
<1>7. PickedInOrder'
  BY <1>1, <1>3, <1>5, <1>6 DEF PickedInOrder
<1> QED BY <1>1, <1>6, <1>7 DEF IdsBounded, InputOrder

(* Every action keeps the inputs in order. *)
LEMMA OrderStep ==
  ASSUME TypeOK, OrderInv, Next
  PROVE  OrderInv'
<1>1. \A i \in Inputs : AddAdvanceInput(i) => OrderInv'
  BY AddKeepsOrder
<1>2. ASSUME NEW table \in Outputs \cup {"report"}, AddOutput(table) PROVE Quiet
  <2>1. state \in StateType
    BY TypeParts DEF MemoryOK
  <2> QED BY <1>2, <2>1 DEF AddOutput, Quiet, StateType
<1>3. AddInspectInput \/ FinishAndGetNext \/ RegisterException => Quiet
  BY DEF AddInspectInput, FinishAndGetNext, Finish, RegisterException, Quiet
<1>4. StoreOutput \/ StoreReport \/ LoopEnd \/ CountProcessed \/ DbError => Quiet
  BY DEF StoreOutput, StoreReport, LoopEnd, CountProcessed, DbError, Quiet
<1>5. GoIdle \/ Crash => Quiet
  BY DEF GoIdle, Crash, Quiet, Idle
<1>6. CASE PickInspect
  <2>1. PICK k \in FirstInspect : state' = [Idle EXCEPT !.kind = "inspect", !.of = k]
    BY <1>6 DEF PickInspect
  <2>2. state'.kind = "inspect"
    BY <2>1 DEF Idle
  <2>3. Quiet
    BY <1>6, <2>2 DEF PickInspect, Quiet
  <2> QED BY <2>3, QuietKeepsOrder
<1> QED BY <1>1, <1>2, <1>3, <1>4, <1>5, <1>6, QuietKeepsOrder, VerdictKeepsOrder, PickKeepsOrder
    DEF Next, Statement

-----------------------------------------------------------------------------
(* Between calls there is nothing to say of the call. *)
LEMMA NoCallProgress ==
  ASSUME call' = NoCall
  PROVE  CallMatchesVerdict' /\ FinishProgress'
BY DEF NoCall, CallMatchesVerdict, FinishProgress

(* After HandleOutput the lookup finds a row for the output. *)
LEMMA CreatedRow ==
  ASSUME NEW db, NEW row
  PROVE  db \subseteq Created(db, db, row) /\ Found(Created(db, db, row), row)
BY DEF Created, Found, RowsOfInput

(* A finish starts with nothing written. *)
LEMMA FinishStarts ==
  ASSUME TypeOK, NEW verdict \in {"accepted", "rejected"}, Finish(verdict)
  PROVE  CallMatchesVerdict' /\ FinishProgress'
<1>1. call' = [op |-> "finish", verdict |-> verdict, stage |-> FirstStage(verdict), stored |-> 0]
      /\ UNCHANGED state
  BY DEF Finish
<1>2. CallMatchesVerdict'
  BY <1>1 DEF CallMatchesVerdict
<1>3. ASSUME state.kind = "advance" PROVE \A table \in OutputTables :
        (table \in Outputs /\ verdict = "rejected") \/ Written(table)' = 0
  <2>1. FirstStage(verdict) = IF verdict = "accepted" THEN "voucher" ELSE "report"
    BY <1>3 DEF FirstStage
  <2> QED BY <1>1, <2>1 DEF Written, StagesAfter, OutputTables, Outputs
<1>4. ASSUME state.kind = "advance" PROVE FinishProgress'
  <2>1. Written("report")' = 0 /\ 0 .. 0 - 1 = {}
    BY <1>3, <1>4 DEF OutputTables, Outputs
  <2>2. verdict = "accepted" => \A table \in Outputs : Written(table)' = 0
    BY <1>3, <1>4 DEF OutputTables
  <2> QED BY <1>1, <2>1, <2>2 DEF FinishProgress
<1> QED BY <1>1, <1>2, <1>4 DEF FinishProgress

(***************************************************************************)
(* A step inside a finish keeps what is written: if each row the new       *)
(* counts speak of was counted before or is stored by the step.            *)
(***************************************************************************)
LEMMA ProgressKept ==
  ASSUME FinishProgress, UNCHANGED state, call'.op = call.op, call'.verdict = call.verdict,
         rows \subseteq rows',
         \A k \in 0 .. Written("report")' - 1 :
           k \in 0 .. Written("report") - 1 \/ RowAt("report", k) \in rows',
         \A table \in Outputs : \A k \in 0 .. Written(table)' - 1 :
           k \in 0 .. Written(table) - 1 \/ Found(rows', RowAt(table, k))
  PROVE  FinishProgress'
<1> SUFFICES ASSUME call.op = "finish", state.kind = "advance" PROVE FinishProgress'
  BY DEF FinishProgress
<1>1. \A table, k : RowAt(table, k)' = RowAt(table, k)
  BY DEF RowAt, RowOf
<1>2. \A k \in 0 .. Written("report")' - 1 : RowAt("report", k) \in rows'
  BY DEF FinishProgress
<1>3. \A row : Found(rows, row) => Found(rows', row)
  BY DEF Found, RowsOfInput
<1>4. call.verdict = "accepted" => \A table \in Outputs : \A k \in 0 .. Written(table)' - 1 :
        Found(rows', RowAt(table, k))
  BY <1>3 DEF FinishProgress
<1>5. \A row : Found(rows, row)' <=> Found(rows', row)
  BY DEF Found, RowsOfInput
<1> QED BY <1>1, <1>2, <1>4, <1>5 DEF FinishProgress

(* One more row of the loop in progress. *)
LEMMA StoreProgress ==
  ASSUME TypeOK, call.stage \in OutputTables, UNCHANGED state,
         call' = [call EXCEPT !.stored = @ + 1]
  PROVE  /\ call'.op = call.op /\ call'.verdict = call.verdict /\ call'.stage = call.stage
         /\ Written(call.stage) = call.stored /\ Written(call.stage)' = call.stored + 1
         /\ \A table \in OutputTables \ {call.stage} : Written(table)' = Written(table)
<1>1. call \in CallType
  BY TypeParts DEF CallOK
<1>2. /\ call'.op = call.op /\ call'.verdict = call.verdict /\ call'.stage = call.stage
      /\ call'.stored = call.stored + 1
  BY <1>1 DEF CallType
<1>3. \A table : StagesAfter(table)' = StagesAfter(table)
  BY DEF StagesAfter
<1> QED BY <1>2, <1>3 DEF Written

(* A loop that has ended, and the verdict recorded, change no count. *)
LEMMA MoveOnProgress ==
  ASSUME TypeOK, MoveOn, UNCHANGED state, call.op = "finish",
         \/ call.stage \in OutputTables /\ call.stored = state.emitted[call.stage]
         \/ call.stage = "verdict"
  PROVE  \A table \in OutputTables : Written(table)' = Written(table)
<1>1. call.stage \in OutputTables \cup {"verdict", "count"}
  OBVIOUS
<1>2. call'.stage = StageAfter(call.stage) /\ call'.stored = 0
  BY <1>1, MoveOnOK
<1>3. call'.stage = CASE call.stage = "voucher" -> "notice"
                      [] call.stage = "notice"  -> "report"
                      [] call.stage = "report"  -> "verdict"
                      [] call.stage = "verdict" -> "pick"
  BY <1>2 DEF StageAfter, OutputTables, Outputs
<1> QED BY <1>2, <1>3 DEF Written, StagesAfter, OutputTables, Outputs

(**************************************************************************)
(* Every action keeps the account of what the call in progress has         *)
(* written.                                                                *)
(**************************************************************************)
LEMMA ProgressStep ==
  ASSUME TypeOK, CallMatchesVerdict, FinishProgress, Next
  PROVE  CallMatchesVerdict' /\ FinishProgress'
<1>1. ASSUME call = NoCall, UNCHANGED call PROVE CallMatchesVerdict' /\ FinishProgress'
  BY <1>1, NoCallProgress
<1>2. CASE (\E i \in Inputs : AddAdvanceInput(i)) \/ AddInspectInput
           \/ \E table \in Outputs \cup {"report"} : AddOutput(table)
  BY <1>1, <1>2 DEF AddAdvanceInput, AddInspectInput, AddOutput
<1>3. CASE FinishAndGetNext
  BY <1>3, FinishStarts DEF FinishAndGetNext
<1>4. CASE RegisterException
  BY <1>4 DEF RegisterException, CallMatchesVerdict, FinishProgress
<1>5. CASE StoreOutput
  <2>1. /\ UNCHANGED state /\ call' = [call EXCEPT !.stored = @ + 1]
        /\ call.stage \in Outputs /\ call.stage \in OutputTables
        /\ rows' = Created(rows, rows, RowAt(call.stage, call.stored))
    BY <1>5 DEF StoreOutput, OutputTables
  <2>2. rows \subseteq rows' /\ Found(rows', RowAt(call.stage, call.stored))
    BY <2>1, CreatedRow
  <2>3. call.stored \in Nat
    BY TypeParts DEF CallOK, CallType
  <2>4. "report" \in OutputTables /\ call.stage # "report" /\ Outputs \subseteq OutputTables
    BY <2>1 DEF Outputs, OutputTables
  <2>5. \A k \in 0 .. Written("report")' - 1 : k \in 0 .. Written("report") - 1
    BY <2>1, <2>4, StoreProgress
  <2>6. \A table \in Outputs : \A k \in 0 .. Written(table)' - 1 :
          k \in 0 .. Written(table) - 1 \/ Found(rows', RowAt(table, k))
    <3> SUFFICES ASSUME NEW table \in Outputs, NEW k \in 0 .. Written(table)' - 1,
                        k \notin 0 .. Written(table) - 1
                 PROVE  Found(rows', RowAt(table, k))
      OBVIOUS
    <3>1. table = call.stage /\ k = call.stored
      BY <2>1, <2>3, <2>4, StoreProgress
    <3> QED BY <2>2, <3>1
  <2>7. FinishProgress'
    BY <2>1, <2>2, <2>5, <2>6, StoreProgress, ProgressKept
  <2> QED BY <2>1, <2>7, StoreProgress DEF CallMatchesVerdict
<1>6. CASE StoreReport
  <2>1. CASE call' = NoCall
    BY <2>1, NoCallProgress
  <2>2. CASE rows' = rows \cup {RowAt("report", call.stored)} /\ call' = [call EXCEPT !.stored = @ + 1]
    <3>1. UNCHANGED state /\ call.stage = "report" /\ call.stage \in OutputTables
      BY <1>6 DEF StoreReport, OutputTables
    <3>2. call.stored \in Nat
      BY TypeParts DEF CallOK, CallType
    <3>3. \A table \in Outputs : table \in OutputTables \ {call.stage}
      BY <3>1 DEF Outputs, OutputTables
    <3>4. \A k \in 0 .. Written("report")' - 1 :
            k \in 0 .. Written("report") - 1 \/ RowAt("report", k) \in rows'
      <4> SUFFICES ASSUME NEW k \in 0 .. Written("report")' - 1,
                          k \notin 0 .. Written("report") - 1
                   PROVE  RowAt("report", k) \in rows'
        OBVIOUS
      <4>1. k = call.stored
        BY <2>2, <3>1, <3>2, StoreProgress
      <4> QED BY <2>2, <4>1
    <3>5. \A table \in Outputs : \A k \in 0 .. Written(table)' - 1 : k \in 0 .. Written(table) - 1
      BY <2>2, <3>1, <3>3, StoreProgress
    <3>6. FinishProgress'
      BY <2>2, <3>1, <3>4, <3>5, StoreProgress, ProgressKept
    <3> QED BY <2>2, <3>1, <3>6, StoreProgress DEF CallMatchesVerdict
  <2> QED BY <1>6, <2>1, <2>2 DEF StoreReport
<1>7. CASE LoopEnd \/ RecordVerdict
  <2>1. /\ MoveOn /\ UNCHANGED <<state, rows>>
        /\ \/ call.stage \in OutputTables /\ call.stored = state.emitted[call.stage]
           \/ call.stage = "verdict"
    BY <1>7 DEF LoopEnd, RecordVerdict, OutputTables
  <2>2. call.stage # "none" /\ call.stage \in OutputTables \cup {"verdict", "count"}
    BY <2>1 DEF OutputTables, Outputs
  <2>3. call'.op = call.op /\ call'.verdict = call.verdict
    BY <2>1, <2>2, MoveOnOK
  <2>4. CallMatchesVerdict'
    BY <2>2, <2>3 DEF CallMatchesVerdict
  <2>5. CASE call.op = "finish"
    <3>1. \A table \in OutputTables : Written(table)' = Written(table)
      BY <2>1, <2>5, MoveOnProgress
    <3>2. "report" \in OutputTables /\ Outputs \subseteq OutputTables
      BY DEF OutputTables
    <3> QED BY <2>1, <2>3, <2>4, <3>1, <3>2, ProgressKept
  <2>6. CASE call.op # "finish"
    BY <2>3, <2>4, <2>6 DEF FinishProgress
  <2> QED BY <2>5, <2>6
<1>8. ASSUME MoveOn, call.stage = "count", UNCHANGED state
      PROVE  CallMatchesVerdict' /\ FinishProgress'
  <2>1. state.kind = "inspect"
    BY <1>8, TypeParts DEF CallOK
  <2>2. call'.op = call.op /\ call'.verdict = call.verdict
    BY <1>8, MoveOnOK
  <2> QED BY <1>8, <2>1, <2>2 DEF CallMatchesVerdict, FinishProgress
<1>9. CASE CountProcessed
  BY <1>8, <1>9 DEF CountProcessed
<1>10. CASE PickInspect \/ PickAdvance \/ GoIdle \/ Crash
  BY <1>10, NoCallProgress DEF PickInspect, PickAdvance, GoIdle, Crash
<1>11. CASE DbError
  BY <1>8, <1>11, NoCallProgress DEF DbError
<1> QED BY <1>2, <1>3, <1>4, <1>5, <1>6, <1>7, <1>9, <1>10, <1>11 DEF Next, Statement

(***************************************************************************)
(* Rows are never deleted, so a verdict keeps what was there for it; and   *)
(* when finish records a verdict every loop before it has ended.           *)
(***************************************************************************)

(* VerdictAfterLookups spelled out row by row, for the provers. *)
LEMMA VerdictFacts ==
  VerdictAfterLookups <=>
    \A i \in Inputs :
      /\ status[i] \in {"accepted", "rejected"} =>
           \A k \in 0 .. recorded[i]["report"] - 1 :
             [table |-> "report", input |-> i, index |-> k] \in rows
      /\ status[i] = "accepted" =>
           \A table \in Outputs : \A k \in 0 .. recorded[i][table] - 1 :
             Found(rows, [table |-> table, input |-> i, index |-> k])
BY DEF VerdictAfterLookups, RowOf

(* The same of the next state. *)
LEMMA VerdictFactsNext ==
  VerdictAfterLookups' <=>
    \A i \in Inputs :
      /\ status'[i] \in {"accepted", "rejected"} =>
           \A k \in 0 .. recorded'[i]["report"] - 1 :
             [table |-> "report", input |-> i, index |-> k] \in rows'
      /\ status'[i] = "accepted" =>
           \A table \in Outputs : \A k \in 0 .. recorded'[i][table] - 1 :
             Found(rows', [table |-> table, input |-> i, index |-> k])
<1>1. \A row : Found(rows, row)' <=> Found(rows', row)
  BY DEF Found, RowsOfInput
<1> QED BY <1>1 DEF VerdictAfterLookups, RowOf

(* Every action keeps VerdictAfterLookups. *)
LEMMA VerdictStep ==
  ASSUME TypeOK, CallMatchesVerdict, FinishProgress, VerdictAfterLookups, Next
  PROVE  VerdictAfterLookups'
<1> USE VerdictFacts, VerdictFactsNext
<1>a. DatabaseOK /\ MemoryOK /\ CallOK
  BY TypeParts
<1>1. rows \subseteq rows'
  <2>1. CASE StoreOutput
    BY <2>1, CreatedRow DEF StoreOutput
  <2>2. CASE StoreReport
    BY <2>2 DEF StoreReport
  <2>3. CASE UNCHANGED rows
    BY <2>3
  <2> QED BY <2>1, <2>2, <2>3 DEF Next, Statement, FinishAndGetNext, AddAdvanceInput,
       AddInspectInput, AddOutput, Finish, RegisterException, LoopEnd, RecordVerdict,
       CountProcessed, PickInspect, PickAdvance, GoIdle, DbError, Crash
<1>2. \A row : Found(rows, row) => Found(rows', row)
  BY <1>1 DEF Found, RowsOfInput
<1>3. CASE UNCHANGED <<status, recorded>>
  BY <1>1, <1>2, <1>3
<1>4. ASSUME NEW i \in Inputs, AddAdvanceInput(i) PROVE VerdictAfterLookups'
  <2>1. /\ status' = [status EXCEPT ![i] = "unprocessed"] /\ UNCHANGED recorded
    BY <1>4 DEF AddAdvanceInput
  <2>2. status'[i] = "unprocessed" /\ \A j \in Inputs \ {i} : status'[j] = status[j]
    BY <1>a, <2>1 DEF DatabaseOK
  <2> QED BY <1>1, <1>2, <2>1, <2>2
<1>5. CASE RecordVerdict
  <2> DEFINE o == state.of
  <2>1. /\ status' = [status EXCEPT ![o] = call.verdict] /\ call.stage = "verdict"
        /\ recorded' = [recorded EXCEPT ![o] = state.emitted] /\ UNCHANGED rows
    BY <1>5 DEF RecordVerdict
  <2>2. state.kind = "advance" /\ o \in Inputs
    BY <1>a, <2>1 DEF CallOK, MemoryOK
  <2>3. /\ status'[o] = call.verdict /\ recorded'[o] = state.emitted
        /\ \A j \in Inputs \ {o} : status'[j] = status[j] /\ recorded'[j] = recorded[j]
    BY <1>a, <2>1, <2>2 DEF DatabaseOK
  <2>4. \A table \in OutputTables : Written(table) = state.emitted[table]
    BY <2>1 DEF Written, StagesAfter, OutputTables, Outputs
  <2>5. call.verdict # "exception" => call.op = "finish"
    BY <1>a, <2>1 DEF CallMatchesVerdict, CallOK, CallType
  <2>6. call.verdict # "exception" => \A k \in 0 .. state.emitted["report"] - 1 :
          [table |-> "report", input |-> o, index |-> k] \in rows
    BY <2>2, <2>4, <2>5 DEF FinishProgress, RowAt, RowOf, OutputTables
  <2>7. call.verdict = "accepted" => \A table \in Outputs : \A k \in 0 .. state.emitted[table] - 1 :
          Found(rows, [table |-> table, input |-> o, index |-> k])
    BY <2>2, <2>4, <2>5 DEF FinishProgress, RowAt, RowOf, OutputTables
  <2> QED BY <2>1, <2>3, <2>6, <2>7
<1> QED BY <1>3, <1>4, <1>5 DEF Next, Statement, FinishAndGetNext, AddInspectInput,
       AddOutput, Finish, RegisterException, StoreOutput, StoreReport, LoopEnd,
       CountProcessed, PickInspect, PickAdvance, GoIdle, DbError, Crash

-----------------------------------------------------------------------------
(* Nothing is written and nothing is handed out in the initial state. *)
LEMMA InitInvariant == Init => IInv
<1> SUFFICES ASSUME Init PROVE IInv
  OBVIOUS
<1> USE ConstantTypes, Counts DEF Init
<1>1. TypeOK
  <2>1. DatabaseOK
    BY DEF DatabaseOK, Verdicts
  <2>2. MemoryOK
    BY DEF MemoryOK, StateType, Idle
  <2>3. CallOK
    BY DEF CallOK, CallType, NoCall, OutputTables, Outputs
  <2> QED BY <2>1, <2>2, <2>3, TypeParts
<1>2. IdsBounded /\ PickedInOrder
  BY DEF IdsBounded, PickedInOrder, Idle
<1>3. CallMatchesVerdict /\ FinishProgress
  BY DEF CallMatchesVerdict, FinishProgress, NoCall
<1>4. InputOrder
  BY DEF InputOrder
<1>5. VerdictAfterLookups
  BY VerdictFacts
<1> QED BY <1>1, <1>2, <1>3, <1>4, <1>5 DEF IInv

(* A step that changes no variable keeps the invariant. *)
LEMMA StutterKeepsInvariant ==
  ASSUME IInv, UNCHANGED vars
  PROVE  IInv'
<1> USE DEF IInv, vars
<1>1. TypeOK'
  BY DEF TypeOK
<1>2. Present' = Present /\ Processed' = Processed
  BY DEF Present, Processed
<1>3. IdsBounded' /\ PickedInOrder' /\ InputOrder'
  BY <1>2 DEF IdsBounded, PickedInOrder, InputOrder
<1>4. CallMatchesVerdict'
  BY DEF CallMatchesVerdict
<1>5. FinishProgress'
  <2>1. \A table : Written(table)' = Written(table)
    BY DEF Written, StagesAfter
  <2>2. "report" \in {"report"} /\ rows \subseteq rows'
    OBVIOUS
  <2> QED BY <2>1, <2>2, ProgressKept
<1>6. VerdictAfterLookups'
  BY VerdictFacts, VerdictFactsNext
<1> QED BY <1>1, <1>3, <1>4, <1>5, <1>6

(* The invariant holds in every reachable state. *)
THEOREM InvariantHolds == Spec => []IInv
<1>1. IInv /\ [Next]_vars => IInv'
  <2> SUFFICES ASSUME IInv, Next PROVE IInv'
    BY StutterKeepsInvariant
  <2>1. TypeOK'
    BY TypeStep DEF IInv
  <2>2. OrderInv'
    BY OrderStep DEF IInv, OrderInv
  <2>3. CallMatchesVerdict' /\ FinishProgress'
    BY ProgressStep DEF IInv
  <2>4. VerdictAfterLookups'
    BY VerdictStep DEF IInv
  <2> QED BY <2>1, <2>2, <2>3, <2>4 DEF IInv, OrderInv
<1> QED BY <1>1, InitInvariant, PTL DEF Spec

(***************************************************************************)
(* Type correctness: what is handed out exists, and a call that runs is    *)
(* about it.                                                               *)
(***************************************************************************)
THEOREM TypeCorrect == Spec => []TypeOK
<1>1. IInv => TypeOK
  BY DEF IInv
<1> QED BY <1>1, InvariantHolds, PTL

(***************************************************************************)
(* FindByStatus and the mutex give the verdicts in index order, among the  *)
(* inputs added in that order, whatever statements fail and however often  *)
(* the process stops.                                                      *)
(***************************************************************************)
THEOREM VerdictsInOrder == Spec => []InputOrder
<1>1. IInv => InputOrder
  BY DEF IInv
<1> QED BY <1>1, InvariantHolds, PTL

-----------------------------------------------------------------------------
(***************************************************************************)
(* What the lookup by input leaves of the vouchers and notices: a row of   *)
(* index 0 or none.  Only an accepted finish writes them, in the order of  *)
(* their indices, so the first one is there when the second is looked up.  *)
(***************************************************************************)
OnlyFirstRows ==
  /\ \A row \in rows : row.table \in Outputs => row.index = 0
  /\ call.stage \in Outputs => call.op = "finish" /\ call.verdict = "accepted"

(* HandleOutput inserts nothing but the first output of its table. *)
LEMMA StoreKeepsFirstRows ==
  ASSUME IInv, OnlyFirstRows, StoreOutput
  PROVE  OnlyFirstRows'
<1>1. /\ rows' = Created(rows, rows, RowAt(call.stage, call.stored))
      /\ call' = [call EXCEPT !.stored = @ + 1] /\ call.stage \in Outputs
  BY DEF StoreOutput
<1>2. call \in CallType /\ state.kind = "advance"
  <2>1. CallOK
    BY TypeParts DEF IInv
  <2> QED BY <1>1, <2>1 DEF CallOK, OutputTables
<1>3. call'.op = call.op /\ call'.verdict = call.verdict /\ call'.stage = call.stage
  BY <1>1, <1>2 DEF CallType
<1>4. call.op = "finish" /\ call.verdict = "accepted" /\ call.stored \in Nat
  BY <1>1, <1>2 DEF OnlyFirstRows, CallType
<1>5. CASE Found(rows, RowAt(call.stage, call.stored))
  BY <1>1, <1>3, <1>5 DEF Created, OnlyFirstRows
<1>6. CASE ~Found(rows, RowAt(call.stage, call.stored))
  <2>1. ~(0 \in 0 .. call.stored - 1)
    <3> SUFFICES ASSUME 0 \in 0 .. call.stored - 1 PROVE FALSE
      OBVIOUS
    <3>1. Written(call.stage) = call.stored
      BY DEF Written
    <3>2. Found(rows, RowAt(call.stage, 0))
      BY <1>1, <1>2, <1>4, <3>1 DEF IInv, FinishProgress
    <3> QED BY <1>6, <3>2 DEF Found, RowsOfInput, RowAt, RowOf
  <2>2. call.stored = 0
    BY <1>4, <2>1
  <2>3. RowAt(call.stage, call.stored).index = 0
    BY <2>2 DEF RowAt, RowOf
  <2>4. rows' = rows \cup {RowAt(call.stage, call.stored)}
    BY <1>1, <1>6 DEF Created
  <2> QED BY <1>3, <2>3, <2>4 DEF OnlyFirstRows
<1> QED BY <1>5, <1>6

LEMMA FirstRowsOnly == Spec => [](IInv /\ OnlyFirstRows)
<1>1. Init => OnlyFirstRows
  BY DEF Init, OnlyFirstRows, NoCall, Outputs
<1>2. IInv /\ OnlyFirstRows /\ [Next]_vars => OnlyFirstRows'
  <2> SUFFICES ASSUME IInv, OnlyFirstRows, [Next]_vars PROVE OnlyFirstRows'
    OBVIOUS
  <2>1. ASSUME UNCHANGED rows, UNCHANGED call \/ call' = NoCall PROVE OnlyFirstRows'
    BY <2>1 DEF OnlyFirstRows, NoCall, Outputs
  <2>2. CASE StoreOutput
    BY <2>2, StoreKeepsFirstRows
  <2>3. CASE StoreReport
    <3>1. CASE call' = NoCall /\ UNCHANGED rows
      BY <3>1, <2>1
    <3>2. CASE rows' = rows \cup {RowAt("report", call.stored)} /\ call' = [call EXCEPT !.stored = @ + 1]
      <4>1. call \in CallType /\ call.stage = "report"
        BY <2>3, TypeParts DEF IInv, CallOK, StoreReport
      <4>2. call'.stage = "report"
        BY <3>2, <4>1 DEF CallType
      <4>3. RowAt("report", call.stored).table = "report"
        BY DEF RowAt, RowOf
      <4> QED BY <3>2, <4>2, <4>3 DEF OnlyFirstRows, Outputs
    <3> QED BY <2>3, <3>1, <3>2 DEF StoreReport
  <2>4. ASSUME MoveOn, UNCHANGED <<rows, state>>, call.stage \in OutputTables \cup {"verdict", "count"}
        PROVE  OnlyFirstRows'
    <3>1. /\ call'.stage = StageAfter(call.stage)
          /\ call'.op = call.op /\ call'.verdict = call.verdict
      <4>1. TypeOK
        BY DEF IInv
      <4> QED BY ONLY <4>1, <2>4, MoveOnOK
    <3>2. call'.stage \in Outputs => call.stage = "voucher"
      BY <2>4, <3>1 DEF StageAfter, OutputTables, Outputs
    <3> QED BY <2>4, <3>1, <3>2 DEF OnlyFirstRows, Outputs
  <2>5. CASE LoopEnd \/ RecordVerdict \/ CountProcessed
    BY <2>4, <2>5 DEF LoopEnd, RecordVerdict, CountProcessed, OutputTables
  <2>6. ASSUME NEW verdict \in {"accepted", "rejected"}, Finish(verdict) PROVE OnlyFirstRows'
    <3>1. /\ call' = [op |-> "finish", verdict |-> verdict, stage |-> FirstStage(verdict), stored |-> 0]
          /\ UNCHANGED rows
      BY <2>6 DEF Finish
    <3>2. FirstStage(verdict) \in Outputs => verdict = "accepted"
      BY DEF FirstStage, Outputs
    <3> QED BY <3>1, <3>2 DEF OnlyFirstRows
  <2>7. CASE RegisterException
    <3>1. UNCHANGED rows /\ call'.stage = FirstStage("exception")
      BY <2>7 DEF RegisterException
    <3>2. FirstStage("exception") \notin Outputs
      BY DEF FirstStage, Outputs
    <3> QED BY <3>1, <3>2 DEF OnlyFirstRows
  <2>8. CASE DbError
    BY <2>1, <2>4, <2>8 DEF DbError
  <2>9. CASE \/ \E i \in Inputs : AddAdvanceInput(i)
             \/ AddInspectInput \/ PickInspect \/ PickAdvance \/ GoIdle \/ Crash
             \/ \E table \in Outputs \cup {"report"} : AddOutput(table)
             \/ UNCHANGED vars
    BY <2>1, <2>9 DEF AddAdvanceInput, AddInspectInput, AddOutput, PickInspect, PickAdvance,
       GoIdle, Crash, vars
  <2> QED BY <2>2, <2>3, <2>5, <2>6, <2>7, <2>8, <2>9 DEF Next, Statement, FinishAndGetNext
<1> QED BY <1>1, <1>2, InvariantHolds, PTL DEF Spec

(***************************************************************************)
(* An accepted or rejected input has all its reports, and an accepted one  *)
(* its first voucher and its first notice, whatever statements fail and    *)
(* wherever the process stops: finish records the verdict last.            *)
(***************************************************************************)
THEOREM VerdictsComeLast == Spec => []VerdictAfterOutputs
<1>1. IInv /\ OnlyFirstRows => VerdictAfterOutputs
  <2> SUFFICES ASSUME IInv, OnlyFirstRows, NEW i \in Inputs, NEW table \in Outputs \cup {"report"},
                      Keeps(status[i], table), NEW k \in Kept(table, recorded[i][table])
               PROVE  RowOf(table, i, k) \in rows
    BY DEF VerdictAfterOutputs
  <2>1. k \in 0 .. recorded[i][table] - 1 /\ (table \in Outputs => k = 0)
    BY DEF Kept
  <2>2. CASE table = "report"
    BY <2>1, <2>2 DEF IInv, VerdictAfterLookups, Keeps
  <2>3. CASE table \in Outputs
    <3>1. status[i] = "accepted" /\ k = 0
      BY <2>1, <2>3 DEF Keeps, Outputs
    <3>2. Found(rows, RowOf(table, i, k))
      BY <2>1, <2>3, <3>1 DEF IInv, VerdictAfterLookups
    <3>3. PICK row \in rows : row.table = table /\ row.input = i
      BY <3>2 DEF Found, RowsOfInput, RowOf
    <3>4. row.index = 0 /\ row \in Row
      BY <2>3, <3>3 DEF OnlyFirstRows, IInv, TypeOK
    <3>5. row = RowOf(table, i, k)
      BY <3>1, <3>3, <3>4 DEF Row, RowOf
    <3> QED BY <3>3, <3>5
  <2> QED BY <2>2, <2>3
<1> QED BY <1>1, FirstRowsOnly, PTL

-----------------------------------------------------------------------------
(***************************************************************************)
(* The refinement of RollupsHost.  A call gets to its lookup, or to the    *)
(* end of registerException, only when what was in hand has its verdict.   *)
(***************************************************************************)
SettledBeforeLookup ==
  /\ call.stage \in {"pick", "idle"} =>
       /\ state.kind = "advance" => status[state.of] \in Verdicts
       /\ state.kind = "inspect" => inspects[state.of].status \in Verdicts
  /\ call.stage = "count" => inspects[state.of].status \in Verdicts
  /\ call.op = "exception" /\ call.stage \in OutputTables =>
       call.stage = "report" /\ status[state.of] \in Verdicts

answers == [k \in DOMAIN inspects |-> inspects[k].status]

(* In what is in hand nothing changes but what was accumulated.            *)
SameHand == state'.kind = state.kind /\ state'.of = state.of

LEMMA HostParts ==
  ASSUME TypeOK
  PROVE  /\ Host!Verdicts = Verdicts
         /\ Host!Waiting(answers) = WaitingInspects
         /\ Host!Waiting(status) = Unprocessed
         /\ Host!Least(WaitingInspects) = FirstInspect
         /\ Host!Least(Unprocessed) = FindByStatus
<1>1. Host!Verdicts = Verdicts
  BY DEF Host!Verdicts, Verdicts
<1>2. Host!Waiting(status) = Unprocessed
  BY DEF Host!Waiting, Unprocessed, TypeOK
<1>3. Host!Waiting(answers) = WaitingInspects
  BY DEF Host!Waiting, WaitingInspects, answers, TypeOK
<1> QED BY <1>1, <1>2, <1>3 DEF Host!Least, FirstInspect, FindByStatus

LEMMA NoCallSettled == call' = NoCall => SettledBeforeLookup'
BY DEF NoCall, SettledBeforeLookup, OutputTables, Outputs

(* A call begins with a loop, a statement, or with nothing in hand.        *)
LEMMA CallBeginsSettled ==
  ASSUME TypeOK, NEW verdict \in Verdicts, NEW op \in {"finish", "exception"},
         op = "exception" <=> verdict = "exception", op = "exception" => state.kind # "idle",
         call' = [op |-> op, verdict |-> verdict, stage |-> FirstStage(verdict), stored |-> 0],
         MarkInspect(verdict), UNCHANGED <<state, status>>
  PROVE  SettledBeforeLookup'
<1>1. state.kind \in {"idle", "advance", "inspect"}
  BY DEF TypeOK
<1>2. CASE state.kind = "idle"
  BY <1>2 DEF SettledBeforeLookup, FirstStage, OutputTables, Outputs
<1>3. CASE state.kind = "inspect"
  <2>1. inspects'[state.of].status = verdict
    <3>1. state.of \in DOMAIN inspects /\ inspects[state.of] \in InspectInput
      BY <1>3 DEF TypeOK
    <3>2. inspects'[state.of] = [inspects[state.of] EXCEPT !.status = verdict]
      BY <1>3, <3>1 DEF MarkInspect
    <3> QED BY <3>1, <3>2 DEF InspectInput
  <2> QED BY <1>3, <2>1 DEF SettledBeforeLookup, FirstStage, OutputTables, Outputs
<1>4. CASE state.kind = "advance"
  <2>1. FirstStage(verdict) \in {"voucher", "report", "verdict"}
    BY <1>4 DEF FirstStage, Verdicts
  <2>2. op = "exception" => FirstStage(verdict) = "verdict"
    BY <1>4 DEF FirstStage
  <2> QED BY <2>1, <2>2 DEF SettledBeforeLookup, OutputTables, Outputs
<1> QED BY <1>1, <1>2, <1>3, <1>4

(* A step of a loop, or any that touches neither call nor verdicts.        *)
LEMMA SameStageSettled ==
  ASSUME SettledBeforeLookup, call'.stage = call.stage, call'.op = call.op,
         UNCHANGED <<status, state>>, call.stage \in OutputTables
  PROVE  SettledBeforeLookup'
BY DEF SettledBeforeLookup, OutputTables, Outputs

LEMMA MoveOnSettled ==
  ASSUME TypeOK, CallMatchesVerdict, SettledBeforeLookup, MoveOn, UNCHANGED state,
         \/ call.stage \in OutputTables /\ UNCHANGED status
         \/ call.stage = "verdict" /\ status' = [status EXCEPT ![state.of] = call.verdict]
         \/ /\ call.stage = "count" /\ UNCHANGED status
            /\ inspects'[state.of].status = inspects[state.of].status
  PROVE  SettledBeforeLookup'
<1>1. /\ call'.stage = StageAfter(call.stage) /\ call'.op = call.op
      /\ call.op \in {"finish", "exception"} /\ call.verdict \in Verdicts
  BY MoveOnOK DEF TypeOK, CallMatchesVerdict, OutputTables, Outputs
<1>2. CASE call.stage \in OutputTables /\ UNCHANGED status
  <2>1. state.kind = "advance"
    BY <1>2 DEF TypeOK, OutputTables
  <2>2. CASE call.op = "finish"
    <3>1. call'.stage \in OutputTables \cup {"verdict"}
      BY <1>1, <1>2, <2>2 DEF StageAfter, OutputTables, Outputs
    <3> QED BY <1>1, <2>2, <3>1 DEF SettledBeforeLookup, OutputTables, Outputs
  <2>3. CASE call.op = "exception"
    <3>1. call'.stage = "idle" /\ status[state.of] \in Verdicts
      BY <1>1, <1>2, <2>3 DEF StageAfter, SettledBeforeLookup
    <3> QED BY <1>2, <2>1, <3>1 DEF SettledBeforeLookup, OutputTables, Outputs
  <2> QED BY <1>1, <2>2, <2>3
<1>3. CASE call.stage = "verdict" /\ status' = [status EXCEPT ![state.of] = call.verdict]
  <2>1. state.kind = "advance" /\ status'[state.of] \in Verdicts
    BY <1>1, <1>3 DEF TypeOK
  <2>2. call'.stage \in {"pick", "report"}
    BY <1>1, <1>3 DEF StageAfter
  <2> QED BY <2>1, <2>2 DEF SettledBeforeLookup, OutputTables, Outputs
<1>4. CASE /\ call.stage = "count" /\ UNCHANGED status
           /\ inspects'[state.of].status = inspects[state.of].status
  <2>1. state.kind = "inspect" /\ inspects'[state.of].status \in Verdicts
    BY <1>4 DEF TypeOK, SettledBeforeLookup
  <2>2. call'.stage \in {"pick", "idle"}
    BY <1>1, <1>4 DEF StageAfter
  <2> QED BY <2>1, <2>2 DEF SettledBeforeLookup, OutputTables, Outputs
<1> QED BY <1>2, <1>3, <1>4

(* What a counting inspect keeps changes no status.                        *)
LEMMA AnswerKeepsStatus ==
  ASSUME TypeOK, state.kind = "inspect", NEW count, AnswerInspect(count)
  PROVE  /\ DOMAIN inspects' = DOMAIN inspects
         /\ \A k \in DOMAIN inspects : inspects'[k].status = inspects[k].status
<1>1. state.of \in DOMAIN inspects /\ inspects[state.of] \in InspectInput
  BY DEF TypeOK
<1>2. /\ DOMAIN inspects' = DOMAIN inspects
      /\ \A k \in DOMAIN inspects \ {state.of} : inspects'[k] = inspects[k]
      /\ inspects'[state.of] = [inspects[state.of] EXCEPT
           !.count = count, !.reports = state.emitted.report]
  BY <1>1 DEF AnswerInspect
<1>3. inspects'[state.of].status = inspects[state.of].status
  BY <1>1, <1>2 DEF InspectInput
<1> QED BY <1>2, <1>3

(* What the host sees of a step, when it is none of its business.          *)
LEMMA HostStutters ==
  ASSUME UNCHANGED status, SameHand, DOMAIN inspects' = DOMAIN inspects,
         \A k \in DOMAIN inspects : inspects'[k].status = inspects[k].status
  PROVE  [Host!Next]_Host!hostVars
<1>1. answers' = answers
  BY DEF answers
<1> QED BY <1>1 DEF Host!hostVars, answers, SameHand

(* finish and registerException settle an inspect when they begin.         *)
LEMMA CallBeginsAtHost ==
  ASSUME TypeOK, NEW verdict \in Verdicts, MarkInspect(verdict), UNCHANGED <<status, state>>
  PROVE  [Host!Next]_Host!hostVars
<1>1. CASE state.kind = "inspect"
  <2>1. state.of \in DOMAIN inspects /\ \A k \in DOMAIN inspects : inspects[k] \in InspectInput
    BY <1>1 DEF TypeOK
  <2>2. inspects' = [inspects EXCEPT ![state.of].status = verdict]
    BY <1>1 DEF MarkInspect
  <2>3. answers' = [answers EXCEPT ![state.of] = verdict]
    BY <2>1, <2>2 DEF answers, InspectInput
  <2>4. Host!Settle(verdict)
    BY <1>1, <2>3 DEF Host!Settle, Host!StatusAfter, Host!AnswersAfter, answers
  <2> QED BY <2>4, HostParts DEF Host!Next
<1>2. CASE state.kind # "inspect"
  BY <1>2, HostStutters DEF MarkInspect, SameHand
<1> QED BY <1>1, <1>2

(* RecordVerdict settles the input in hand. *)
LEMMA VerdictAtHost ==
  ASSUME TypeOK, RecordVerdict
  PROVE  [Host!Next]_Host!hostVars
<1>1. state.kind = "advance" /\ call.verdict \in Verdicts
  BY DEF RecordVerdict, TypeOK
<1>2. PICK verdict \in Verdicts : verdict = call.verdict
  BY <1>1
<1>3. Host!Settle(verdict)
  BY <1>1, <1>2 DEF RecordVerdict, Host!Settle, Host!StatusAfter, Host!AnswersAfter
<1> QED BY <1>3, HostParts DEF Host!Next

(* The lookups hand out what is next in line. *)
LEMMA LookupAtHost ==
  ASSUME TypeOK, SettledBeforeLookup, PickInspect \/ PickAdvance \/ GoIdle
  PROVE  [Host!Next]_Host!hostVars
<1> DEFINE next == [kind |-> state'.kind, of |-> state'.of]
<1>1. call.stage \in {"pick", "idle"} /\ UNCHANGED status
  BY DEF PickInspect, PickAdvance, GoIdle, NothingToPick
<1>2. Host!IsSettled
  <2>1. state.kind = "inspect" => state.of \in DOMAIN inspects
    BY DEF TypeOK
  <2> QED BY <1>1, <2>1, HostParts DEF SettledBeforeLookup, Host!IsSettled
<1>3. answers' = answers
  <2>1. /\ DOMAIN inspects' = DOMAIN inspects
        /\ \A k \in DOMAIN inspects : inspects'[k].status = inspects[k].status
    <3>1. \A k \in DOMAIN inspects : inspects[k] \in InspectInput
      BY DEF TypeOK
    <3>2. CASE PickInspect
      <4>1. PICK n : inspects' = [j \in DOMAIN inspects |->
                 [inspects[j] EXCEPT !.handout = IF j = n THEN Cardinality(Processed) ELSE @]]
        BY <3>2 DEF PickInspect
      <4> QED BY <3>1, <4>1 DEF InspectInput
    <3>3. CASE PickAdvance \/ GoIdle
      BY <3>3 DEF PickAdvance, GoIdle
    <3> QED BY <3>2, <3>3
  <2> QED BY <2>1 DEF answers
<1>4. Host!NextInLine(status, answers) =
        IF WaitingInspects # {} THEN {Host!Item("inspect", k) : k \in FirstInspect}
        ELSE IF Unprocessed # {} THEN {Host!Item("advance", i) : i \in FindByStatus}
        ELSE {Host!Nothing}
  BY HostParts DEF Host!NextInLine
<1>5. CASE PickInspect
  <2>1. PICK k \in FirstInspect : state' = [Idle EXCEPT !.kind = "inspect", !.of = k]
    BY <1>5 DEF PickInspect
  <2>2. next = Host!Item("inspect", k) /\ WaitingInspects # {}
    BY <2>1 DEF Idle, Host!Item, FirstInspect
  <2> QED BY <1>1, <1>2, <1>3, <1>4, <2>2 DEF Host!HandOut, Host!Next, answers
<1>6. CASE PickAdvance
  <2>1. PICK i \in FindByStatus : state' = [Idle EXCEPT !.kind = "advance", !.of = i]
    BY <1>6 DEF PickAdvance
  <2>2. next = Host!Item("advance", i) /\ WaitingInspects = {} /\ Unprocessed # {}
    BY <1>6, <2>1 DEF PickAdvance, Idle, Host!Item, FindByStatus
  <2> QED BY <1>1, <1>2, <1>3, <1>4, <2>2 DEF Host!HandOut, Host!Next, answers
<1>7. CASE GoIdle
  <2>1. next = Host!Nothing
    BY <1>7 DEF GoIdle, Idle, Host!Nothing, Host!Item
  <2> QED BY <1>1, <1>2, <1>3, <2>1 DEF Host!Release, Host!Next, answers
<1> QED BY <1>5, <1>6, <1>7

(* New inputs and inspects, and a process that stops.                      *)
LEMMA WorldAtHost ==
  ASSUME TypeOK, (\E i \in Inputs : AddAdvanceInput(i)) \/ AddInspectInput \/ Crash
  PROVE  [Host!Next]_Host!hostVars
<1>1. ASSUME NEW i \in Inputs, AddAdvanceInput(i) PROVE Host!Next
  BY <1>1 DEF AddAdvanceInput, Host!AddInput, Host!Next
<1>2. CASE AddInspectInput
  <2> DEFINE new == [status |-> "unprocessed", reports |-> 0, count |-> 0, handout |-> 0]
  <2>1. inspects' = Append(inspects, new) /\ UNCHANGED <<state, status>>
    BY <1>2 DEF AddInspectInput
  <2>2. inspects \in Seq(InspectInput) /\ new.status = "unprocessed"
    BY DEF TypeOK
  <2>3. answers \in Seq(Verdicts \cup {"unprocessed"}) /\ Len(answers) = Len(inspects)
    <3>1. Len(inspects) \in Nat /\ DOMAIN inspects = 1 .. Len(inspects)
      BY <2>2
    <3>2. \A k \in DOMAIN inspects : inspects[k].status \in Verdicts \cup {"unprocessed"}
      <4>1. \A k \in DOMAIN inspects : inspects[k] \in InspectInput
        BY <2>2
      <4> QED BY <4>1 DEF InspectInput
    <3>3. answers \in [1 .. Len(inspects) -> Verdicts \cup {"unprocessed"}]
      BY <3>1, <3>2 DEF answers
    <3>4. DOMAIN answers = 1 .. Len(inspects)
      BY <3>1 DEF answers
    <3>5. answers \in UNION {[1 .. n -> Verdicts \cup {"unprocessed"}] : n \in Nat}
      BY <3>1, <3>3
    <3>6. answers \in Seq(Verdicts \cup {"unprocessed"})
      BY <3>5, SeqDef, Zenon
    <3> QED BY <3>1, <3>4, <3>6
  <2>4. answers' = Append(answers, "unprocessed")
    BY <2>1, <2>2, <2>3 DEF answers
  <2> QED BY <2>1, <2>4 DEF Host!AddInspect, Host!Next, answers
<1>3. CASE Crash
  <2>1. inspects' = <<>> /\ state' = Idle /\ UNCHANGED status
    BY <1>3 DEF Crash
  <2>2. answers' = <<>>
    BY <2>1 DEF answers
  <2> QED BY <2>1, <2>2 DEF Host!Stop, Host!Next, Host!Nothing, Host!Item, Idle, answers
<1> QED BY <1>1, <1>2, <1>3

LEMMA HostStep ==
  ASSUME TypeOK, CallMatchesVerdict, SettledBeforeLookup, [Next]_vars
  PROVE  SettledBeforeLookup' /\ [Host!Next]_Host!hostVars
<1> DEFINE Goal == SettledBeforeLookup' /\ [Host!Next]_Host!hostVars
<1>1. ASSUME NEW i \in Inputs, AddAdvanceInput(i) PROVE Goal
  BY <1>1, WorldAtHost DEF AddAdvanceInput, NoCall, SettledBeforeLookup, OutputTables, Outputs
<1>2. CASE AddInspectInput
  BY <1>2, WorldAtHost DEF AddInspectInput, NoCall, SettledBeforeLookup, OutputTables, Outputs
<1>3. ASSUME NEW table \in OutputTables, AddOutput(table) PROVE Goal
  <2>1. SameHand
    BY <1>3 DEF AddOutput, SameHand, TypeOK
  <2> QED BY <1>3, <2>1, HostStutters, NoCallSettled DEF AddOutput
<1>4. ASSUME NEW verdict \in {"accepted", "rejected"}, Finish(verdict) PROVE Goal
  BY <1>4, CallBeginsSettled, CallBeginsAtHost DEF Finish, Verdicts
<1>5. CASE RegisterException
  BY <1>5, CallBeginsSettled, CallBeginsAtHost DEF RegisterException, Verdicts
<1>6. CASE StoreOutput \/ StoreReport
  <2>1. UNCHANGED <<status, state, inspects>> /\ call.stage \in OutputTables
    BY <1>6 DEF StoreOutput, StoreReport, OutputTables
  <2>2. call' = NoCall \/ (call'.stage = call.stage /\ call'.op = call.op)
    BY <1>6 DEF StoreOutput, StoreReport, TypeOK
  <2> QED BY <2>1, <2>2, NoCallSettled, SameStageSettled, HostStutters DEF SameHand
<1>7. CASE LoopEnd
  BY <1>7, MoveOnSettled, HostStutters DEF LoopEnd, OutputTables, SameHand
<1>8. CASE RecordVerdict
  BY <1>8, MoveOnSettled, VerdictAtHost DEF RecordVerdict
<1>9. CASE CountProcessed
  <2>1. /\ call.stage = "count" /\ state.kind = "inspect" /\ state.of \in DOMAIN inspects /\ MoveOn
        /\ AnswerInspect(getProcessedInputCount) /\ UNCHANGED <<status, state>>
    BY <1>9 DEF CountProcessed, TypeOK
  <2> QED BY <2>1, AnswerKeepsStatus, MoveOnSettled, HostStutters DEF SameHand
<1>10. CASE PickInspect \/ PickAdvance \/ GoIdle
  BY <1>10, LookupAtHost, NoCallSettled DEF PickInspect, PickAdvance, GoIdle
<1>11. CASE DbError
  <2>1. CASE call' = NoCall /\ UNCHANGED inspects
    BY <1>11, <2>1, NoCallSettled, HostStutters DEF DbError, SameHand
  <2>2. CASE call.stage = "count" /\ AnswerInspect(-1) /\ MoveOn
    <3>1. /\ state.kind = "inspect" /\ state.of \in DOMAIN inspects
          /\ UNCHANGED <<status, state>>
      BY <1>11, <2>2 DEF DbError, TypeOK
    <3> QED BY <2>2, <3>1, AnswerKeepsStatus, MoveOnSettled, HostStutters DEF SameHand
  <2> QED BY <1>11, <2>1, <2>2 DEF DbError
<1>12. CASE Crash
  BY <1>12, WorldAtHost, NoCallSettled DEF Crash
<1>13. CASE UNCHANGED vars
  BY <1>13, HostStutters DEF vars, SettledBeforeLookup, SameHand
<1> QED
  BY <1>1, <1>2, <1>3, <1>4, <1>5, <1>6, <1>7, <1>8, <1>9, <1>10, <1>11, <1>12, <1>13
     DEF Next, Statement, FinishAndGetNext, OutputTables

(***************************************************************************)
(* The host with its database statements implements RollupsHost through    *)
(* any failed statements and restarts: what was handed out stays in hand   *)
(* until its verdict is recorded, and what follows is the next in line.    *)
(***************************************************************************)
THEOREM ImplementsRollupsHost == Spec => ImplementsHost
<1>1. Init => SettledBeforeLookup /\ Host!Init
  BY DEF Init, SettledBeforeLookup, NoCall, Idle, OutputTables, Outputs, Host!Init, Host!Nothing,
     Host!Item
<1>2. IInv => TypeOK /\ CallMatchesVerdict
  BY DEF IInv
<1> QED BY <1>1, <1>2, HostStep, InvariantHolds, PTL DEF Spec, ImplementsHost, Host!Spec
=============================================================================
