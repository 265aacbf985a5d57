---------------------------- MODULE RollupsHost ----------------------------
(***************************************************************************)
(* What the host of a rollups application promises, whatever statements    *)
(* fail and whenever the process stops: one thing is in hand at a time, an *)
(* advance input or an inspect; it stays in hand until it has a verdict;   *)
(* then the next is handed out, inspects first and each kind in its order. *)
(* So no input is skipped, and none gets a verdict out of turn.            *)
(*                                                                         *)
(* NonodoModel, with its database statements, is shown to implement this;  *)
(* RollupAPI is the HTTP API on top of it.                                 *)
(***************************************************************************)
EXTENDS Integers, Sequences

CONSTANT Inputs  \* indices of the advance inputs

VARIABLES
  status,   \* of each advance input, "absent" before it is added
  answers,  \* status of each inspect, in the order of the requests
  hand      \* what the application was handed

hostVars == <<status, answers, hand>>

Verdicts == {"accepted", "rejected", "exception"}

Item(kind, of) == [kind |-> kind, of |-> of]
Nothing == Item("idle", 0)

Init ==
  /\ status = [i \in Inputs |-> "absent"]
  /\ answers = <<>>
  /\ hand = Nothing

(* AddAdvanceInput and AddInspectInput. *)
AddInput(i) ==
  /\ status[i] = "absent"
  /\ status' = [status EXCEPT ![i] = "unprocessed"]
  /\ UNCHANGED <<answers, hand>>

AddInspect ==
  /\ answers' = Append(answers, "unprocessed")
  /\ UNCHANGED <<status, hand>>

(* finish or registerException of the state: the verdict on what is in hand. *)
StatusAfter(verdict) ==
  IF hand.kind = "advance" THEN [status EXCEPT ![hand.of] = verdict] ELSE status

(* Mutant of AnswersAfter: the inspect stays unprocessed. *)
AnswersAfterNothing(verdict) == answers

AnswersAfter(verdict) ==
  IF hand.kind = "inspect" THEN [answers EXCEPT ![hand.of] = verdict] ELSE answers

Settle(verdict) ==
  /\ hand.kind # "idle"
  /\ status' = StatusAfter(verdict)
  /\ answers' = AnswersAfter(verdict)
  /\ UNCHANGED hand

IsSettled ==
  /\ hand.kind = "advance" => status[hand.of] \in Verdicts
  /\ hand.kind = "inspect" => answers[hand.of] \in Verdicts

(* The lookup of FinishAndGetNext, in the statuses st and ans. *)
Waiting(st) == {k \in DOMAIN st : st[k] = "unprocessed"}
Least(S) == {k \in S : \A j \in S : k <= j}

(* Mutant of NextInLine: an input waits for the one before it. *)
NextInLineConsecutive(st, ans) ==
  IF Waiting(ans) # {} THEN {Item("inspect", k) : k \in Least(Waiting(ans))}
  ELSE IF \E i \in Waiting(st) : i - 1 \notin DOMAIN st \/ st[i - 1] \in Verdicts
  THEN {Item("advance", i) : i \in Least(Waiting(st))}
  ELSE {Nothing}

NextInLine(st, ans) ==
  IF Waiting(ans) # {} THEN {Item("inspect", k) : k \in Least(Waiting(ans))}
  ELSE IF Waiting(st) # {} THEN {Item("advance", i) : i \in Least(Waiting(st))}
  ELSE {Nothing}

HandOut ==
  /\ IsSettled
  /\ hand' \in NextInLine(status, answers)
  /\ UNCHANGED <<status, answers>>

(* The end of registerException: nothing is in hand until the next finish. *)
Release ==
  /\ IsSettled
  /\ hand' = Nothing
  /\ UNCHANGED <<status, answers>>

(* The process stops: statuses of inputs are in the database, the rest is not. *)
Stop ==
  /\ answers' = <<>>
  /\ hand' = Nothing
  /\ UNCHANGED status

Next ==
  \/ \E i \in Inputs : AddInput(i)
  \/ AddInspect
  \/ \E verdict \in Verdicts : Settle(verdict)
  \/ HandOut
  \/ Release
  \/ Stop

Spec == Init /\ [][Next]_hostVars
=============================================================================
