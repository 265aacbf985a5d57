------------------------------ MODULE Inputter ------------------------------
(***************************************************************************)
(* The InputterWorker: it reads the inputs that the chain has, subscribes  *)
(* to new ones, and after an error waits and does both again from          *)
(* currentBlock; the chain mines meanwhile, requests fail, the context is  *)
(* cancelled and the process stops and starts.                             *)
(*                                                                         *)
(* An input is its index in the input box; BlockOf gives its block.  The   *)
(* logs of an iterator or subscription are the set of inputs it has yet to *)
(* deliver, which it does in index order.  Only the last block of the      *)
(* chain is kept, and blocks are final.  ReadPastInputs also sets          *)
(* InputBoxBlock, of a copy of the worker that nothing reads again.  It    *)
(* does not look at the iterator's error: the logs are all there when the  *)
(* iterator begins, and only one that does not unpack could set it, which  *)
(* the filter on the event's topic keeps out.                              *)
(***************************************************************************)
EXTENDS Integers, FiniteSets

CONSTANTS
  Inputs,        \* indices of the inputs that users send
  BlockOf,       \* the block of each
  InputBoxBlock, \* where the worker starts to read
  MaxBlock,      \* bound: last block mined
  MaxFaults,     \* bound: requests that fail
  MaxCrashes     \* bound: times the process stops

ASSUME InputterAssumption ==
  /\ Inputs \subseteq Nat
  /\ InputBoxBlock \in Nat
  /\ BlockOf \in [Inputs -> Nat \ {0}]
  /\ \A i \in Inputs : BlockOf[i] >= InputBoxBlock
  /\ \A i, j \in Inputs : i < j => BlockOf[i] <= BlockOf[j]
  /\ MaxBlock \in Nat /\ MaxFaults \in Nat /\ MaxCrashes \in Nat

VARIABLES
  head,         \* the last block of the chain
  pc,           \* where the worker is
  currentBlock, \* where it reads from after an error
  logs,         \* inputs its iterator or subscription has yet to deliver
  added,        \* rows of convenience_inputs
  cancelled,    \* whether its context is
  unseen,       \* history: inputs mined since the past was read
  gap,          \* history: those of them the subscription came too late for
  faults,       \* requests that failed
  crashes       \* times the process stopped

vars == <<head, pc, currentBlock, logs, added, cancelled, unseen, gap, faults, crashes>>

chain == <<head, unseen>>
counters == <<cancelled, faults, crashes>>

Mined == {i \in Inputs : BlockOf[i] <= head}

First(S) == CHOOSE i \in S : \A j \in S : i <= j

Init ==
  /\ head = 0
  /\ pc = "dial"
  /\ currentBlock = InputBoxBlock
  /\ logs = {} /\ added = {}
  /\ cancelled = FALSE
  /\ unseen = {} /\ gap = {}
  /\ faults = 0 /\ crashes = 0

(* The chain mines a block; a subscription delivers the inputs in it. *)
Mine ==
  LET new == {i \in Inputs : BlockOf[i] = head + 1}
  IN /\ head < MaxBlock
     /\ head' = head + 1
     /\ logs' = IF pc = "watch" THEN logs \cup new ELSE logs
     /\ unseen' = IF pc \in {"past", "subscribe"} THEN unseen \cup new ELSE unseen
     /\ UNCHANGED <<pc, currentBlock, added, gap, counters>>

-----------------------------------------------------------------------------
(* A request fails when its context is cancelled, and may fail by itself. *)
RequestFails ==
  /\ cancelled \/ faults < MaxFaults
  /\ faults' = IF cancelled THEN faults ELSE faults + 1
  /\ UNCHANGED <<cancelled, crashes>>

(* Start: dial, then watch; a failure ends the worker. *)
Dial ==
  /\ pc = "dial"
  /\ \/ /\ ~cancelled /\ pc' = "read"
        /\ UNCHANGED counters
     \/ RequestFails /\ pc' = "ended"
  /\ UNCHANGED <<chain, currentBlock, logs, added, gap>>

(* ReadPastInputs asks for the logs from currentBlock to the last block. *)
FilterInputAdded ==
  /\ pc = "read"
  /\ \/ /\ ~cancelled /\ pc' = "past"
        /\ logs' = {i \in Mined : BlockOf[i] >= currentBlock}
        /\ unseen' = {}
        /\ UNCHANGED counters
     \/ RequestFails /\ pc' = "sleep" /\ UNCHANGED <<logs, unseen>>
  /\ UNCHANGED <<head, currentBlock, added, gap>>

(* Mutant of AddPastInput: an input that fails is passed over. *)
AddPastInputSkipping ==
  /\ pc = "past" /\ logs # {}
  /\ logs' = logs \ {First(logs)}
  /\ \/ /\ ~cancelled
        /\ added' = added \cup {First(logs)}
        /\ UNCHANGED counters
     \/ RequestFails /\ UNCHANGED added
  /\ UNCHANGED <<chain, pc, currentBlock, gap>>

(* addInput of the next of them; the repository ignores one it has. *)
AddPastInput ==
  /\ pc = "past" /\ logs # {}
  /\ \/ /\ ~cancelled
        /\ added' = added \cup {First(logs)}
        /\ logs' = logs \ {First(logs)}
        /\ UNCHANGED <<pc, counters>>
     \/ RequestFails /\ pc' = "sleep" /\ logs' = {} /\ UNCHANGED added
  /\ UNCHANGED <<chain, currentBlock, gap>>

PastRead ==
  /\ pc = "past" /\ logs = {}
  /\ pc' = "subscribe"
  /\ UNCHANGED <<chain, currentBlock, logs, added, gap, counters>>

(* WatchInputAdded: from here on new inputs are delivered. *)
Subscribe ==
  /\ pc = "subscribe"
  /\ \/ /\ ~cancelled /\ pc' = "watch"
        /\ gap' = gap \cup unseen
        /\ UNCHANGED counters
     \/ RequestFails /\ pc' = "sleep" /\ UNCHANGED gap
  /\ UNCHANGED <<chain, currentBlock, logs, added>>

(* The loop ends with its context, or sleeps before it reconnects. *)
Disconnect ==
  /\ logs' = {}
  /\ pc' = IF cancelled THEN "ended" ELSE "sleep"

(* Mutant of WatchEvent: the event's block counts as read. *)
WatchEventPastBlock ==
  /\ pc = "watch" /\ logs # {}
  /\ currentBlock' = BlockOf[First(logs)] + 1
  /\ \/ /\ ~cancelled
        /\ added' = added \cup {First(logs)}
        /\ logs' = logs \ {First(logs)}
        /\ UNCHANGED <<pc, counters>>
     \/ RequestFails /\ Disconnect /\ UNCHANGED added
  /\ UNCHANGED <<chain, gap>>

(* The goroutine's select: an event ... *)
WatchEvent ==
  /\ pc = "watch" /\ logs # {}
  /\ currentBlock' = BlockOf[First(logs)] - 1
  /\ \/ /\ ~cancelled
        /\ added' = added \cup {First(logs)}
        /\ logs' = logs \ {First(logs)}
        /\ UNCHANGED <<pc, counters>>
     \/ RequestFails /\ Disconnect /\ UNCHANGED added
  /\ UNCHANGED <<chain, gap>>

(* ... or the end of the context or of the subscription; one that ends     *)
(* without an error ends the worker.                                       *)
WatchEnds ==
  /\ pc = "watch"
  /\ RequestFails
  /\ Disconnect \/ (logs' = {} /\ pc' = "ended")
  /\ UNCHANGED <<chain, currentBlock, added, gap>>

(* Mutant of Wake: a reconnection does not read the past. *)
WakeAndSubscribe ==
  /\ pc = "sleep"
  /\ pc' = "subscribe"
  /\ UNCHANGED <<chain, currentBlock, logs, added, gap, counters>>

(* The end of reconnectDelay, whatever became of the context. *)
Wake ==
  /\ pc = "sleep"
  /\ pc' = "read"
  /\ UNCHANGED <<chain, currentBlock, logs, added, gap, counters>>

-----------------------------------------------------------------------------
(* The supervisor cancels the context of its workers. *)
Cancel ==
  /\ ~cancelled
  /\ cancelled' = TRUE
  /\ UNCHANGED <<chain, pc, currentBlock, logs, added, gap, faults, crashes>>

(* The process stops and starts again on the same database. *)
Crash ==
  /\ crashes < MaxCrashes
  /\ crashes' = crashes + 1
  /\ pc' = "dial"
  /\ currentBlock' = InputBoxBlock
  /\ logs' = {}
  /\ cancelled' = FALSE
  /\ UNCHANGED <<chain, added, gap, faults>>

Step ==
  \/ Dial \/ FilterInputAdded \/ AddPastInput \/ PastRead \/ Subscribe
  \/ WatchEvent \/ WatchEnds \/ Wake

Next == Mine \/ Step \/ Cancel \/ Crash

Spec == Init /\ [][Next]_vars

(* No request blocks for ever, and the sleep ends. *)
FairSpec == Spec /\ WF_vars(Step)

-----------------------------------------------------------------------------
(* The state is well formed; nothing is read that is not mined. *)
TypeOK ==
  /\ head \in Nat /\ currentBlock \in Nat
  /\ pc \in {"dial", "read", "past", "subscribe", "watch", "sleep", "ended"}
  /\ logs \subseteq Mined /\ added \subseteq Mined
  /\ unseen \subseteq Mined /\ gap \subseteq Mined
  /\ cancelled \in BOOLEAN
  /\ faults \in Nat /\ crashes \in Nat

(***************************************************************************)
(* While it watches, the worker has added every input of the chain or will *)
(* be told of it, but for those mined between the reading of the past and  *)
(* the subscription (the race that the comment in watchNewInputs accepts): *)
(* errors at any request, reconnections from currentBlock, several inputs  *)
(* in a block and restarts lose nothing.                                   *)
(***************************************************************************)
MissedOnlyInGap == pc = "watch" => Mined \subseteq added \cup logs \cup gap

(***************************************************************************)
(* When an input is added, those before it are there too, but for the      *)
(* same race: NonodoModel, which takes the lowest input it has, is never   *)
(* given a later one first by a retry or a restart.                        *)
(***************************************************************************)
NoHoles == \A i \in Inputs, j \in added : i < j => i \in added \cup gap

(***************************************************************************)
(* "This function continues to run forever until there is an error or the  *)
(* context is canceled", says watchNewInputs: cancelled, it ends.  (A      *)
(* restart gives it a context that is not cancelled.)                      *)
(***************************************************************************)
StopsWhenCancelled == cancelled ~> (pc = "ended" \/ ~cancelled)
=============================================================================
