--------------------------- MODULE Inputter_proofs ---------------------------
(***************************************************************************)
(* Proofs about Inputter, for every set of inputs and blocks, however many *)
(* requests fail, subscriptions end and processes stop.                    *)
(***************************************************************************)
EXTENDS Inputter, WellFoundedInduction, TLAPS

(* The next log is the one with the least index. *)
LEMMA FirstIsLeast ==
  ASSUME NEW S \in SUBSET Nat, S # {}
  PROVE  First(S) \in S /\ \A j \in S : First(S) <= j
<1> DEFINE R == {ss \in Nat \X Nat : ss[1] < ss[2]}
<1>1. IsWellFoundedOn(R, Nat)
  BY NatLessThanWellFounded, Zenon DEF OpToRel
<1>2. PICK i \in S : \A j \in S : ~(<<j, i>> \in R)
  BY <1>1, WFMin
<1>3. ASSUME NEW j \in S PROVE i <= j
  <2>1. i \in Nat /\ j \in Nat /\ ~(<<j, i>> \in R)
    BY <1>2
  <2>2. <<j, i>> \in Nat \X Nat => ~(j < i)
    BY <2>1
  <2> QED BY <2>1, <2>2
<1> QED BY <1>3 DEF First

(***************************************************************************)
(* The inductive invariant.  PassedOK: before currentBlock nothing is      *)
(* missing but what the gap took, so reading from there is enough.         *)
(* PendingOK: after the past was read, whatever the chain has is added, to *)
(* be delivered, or mined since; and what was mined since comes later.     *)
(***************************************************************************)
PassedOK == \A i \in Inputs : BlockOf[i] < currentBlock => i \in added \cup gap

PendingOK ==
  /\ pc = "past" => /\ Mined \subseteq added \cup logs \cup gap \cup unseen
                    /\ \A u \in unseen, l \in logs : l < u
  /\ pc = "subscribe" => Mined \subseteq added \cup gap \cup unseen

IInv == TypeOK /\ PassedOK /\ PendingOK /\ MissedOnlyInGap /\ NoHoles

(* Inputs of earlier blocks have lower indices. *)
LEMMA BlockOrder ==
  ASSUME NEW i \in Inputs, NEW j \in Inputs
  PROVE  /\ i \in Nat /\ j \in Nat
         /\ BlockOf[i] \in Nat \ {0} /\ BlockOf[j] \in Nat \ {0}
         /\ i <= j => BlockOf[i] <= BlockOf[j]
         /\ BlockOf[i] < BlockOf[j] => i < j
BY InputterAssumption

(* Blocks are mined on top of the chain. *)
LEMMA MinedGrows ==
  ASSUME TypeOK, Mine
  PROVE  /\ Mined' = Mined \cup {i \in Inputs : BlockOf[i] = head + 1}
         /\ \A m \in Mined, n \in {i \in Inputs : BlockOf[i] = head + 1} : m < n
BY BlockOrder DEF TypeOK, Mine, Mined

(***************************************************************************)
(* Adding the next of the logs leaves no hole, if what the chain has is    *)
(* added, in the logs, lost in the gap or later than the logs.             *)
(***************************************************************************)
LEMMA AddNext ==
  ASSUME TypeOK, NoHoles, logs # {}, NEW later,
         Mined \subseteq added \cup logs \cup gap \cup later,
         \A u \in later, l \in logs : l < u
  PROVE  /\ First(logs) \in logs /\ First(logs) \in Mined
         /\ \A i \in Mined : i < First(logs) => i \in added \cup gap
         /\ \A i \in Inputs, j \in added \cup {First(logs)} : i < j => i \in added \cup {First(logs)} \cup gap
<1>1. logs \subseteq Nat /\ logs \subseteq Mined
  BY InputterAssumption DEF TypeOK, Mined
<1>2. First(logs) \in logs /\ \A l \in logs : First(logs) <= l
  BY <1>1, FirstIsLeast
<1>3. ASSUME NEW i \in Inputs, i < First(logs) PROVE i \in Mined /\ i \in added \cup gap
  <2>1. First(logs) \in Inputs /\ BlockOf[First(logs)] <= head
    BY <1>1, <1>2 DEF Mined
  <2>2. i \in Nat /\ First(logs) \in Nat /\ BlockOf[i] <= BlockOf[First(logs)]
    BY <1>3, <2>1, BlockOrder
  <2>3. i \in Mined
    BY <2>1, <2>2, BlockOrder DEF Mined, TypeOK
  <2>4. i \notin logs
    BY <1>2, <1>3, <2>2
  <2>5. i \notin later
    BY <1>2, <1>3, <2>2
  <2> QED BY <2>3, <2>4, <2>5
<1>4. \A i \in Mined : i < First(logs) => i \in added \cup gap
  BY <1>3 DEF Mined
<1> QED BY <1>1, <1>2, <1>3, <1>4 DEF NoHoles

(* A subscription is told of all that is mined later. *)
LEMMA AddNextWatching ==
  ASSUME TypeOK, NoHoles, MissedOnlyInGap, pc = "watch", logs # {}
  PROVE  /\ First(logs) \in logs /\ First(logs) \in Mined
         /\ \A i \in Mined : i < First(logs) => i \in added \cup gap
         /\ \A i \in Inputs, j \in added \cup {First(logs)} : i < j => i \in added \cup {First(logs)} \cup gap
<1> DEFINE later == {}
<1>1. Mined \subseteq added \cup logs \cup gap \cup later /\ \A u \in later, l \in logs : l < u
  BY DEF MissedOnlyInGap
<1> HIDE DEF later
<1> QED BY <1>1, AddNext

(* What the next of the logs, added or not, does to what was passed. *)
LEMMA PassNext ==
  ASSUME TypeOK, NoHoles, MissedOnlyInGap, pc = "watch", logs # {}
  PROVE  /\ BlockOf[First(logs)] - 1 \in Nat
         /\ \A i \in Inputs : BlockOf[i] < BlockOf[First(logs)] - 1 => i \in added \cup gap
<1>1. /\ First(logs) \in Mined
      /\ \A i \in Mined : i < First(logs) => i \in added \cup gap
  BY AddNextWatching
<1>2. First(logs) \in Inputs /\ BlockOf[First(logs)] <= head /\ head \in Nat
  BY <1>1 DEF Mined, TypeOK
<1>3. ASSUME NEW i \in Inputs, BlockOf[i] < BlockOf[First(logs)] - 1 PROVE i \in added \cup gap
  <2>1. BlockOf[i] < BlockOf[First(logs)] /\ BlockOf[i] <= head
    BY <1>2, <1>3, BlockOrder
  <2> QED BY <1>1, <1>2, <2>1, BlockOrder DEF Mined
<1> QED BY <1>2, <1>3, BlockOrder

(* The input box has no inputs before its deployment. *)
LEMMA NothingBefore == \A i \in Inputs : ~(BlockOf[i] < InputBoxBlock)
BY BlockOrder, InputterAssumption

(* The invariant holds at the start, *)
LEMMA InitInvariant == Init => IInv
<1> SUFFICES ASSUME Init PROVE IInv
  OBVIOUS
<1>1. Mined = {}
  BY BlockOrder DEF Init, Mined
<1>2. InputBoxBlock \in Nat /\ PassedOK
  BY NothingBefore, InputterAssumption DEF Init, PassedOK
<1> QED BY <1>1, <1>2 DEF Init, IInv, TypeOK, PendingOK, MissedOnlyInGap, NoHoles

(* and every step of the chain, the worker, the supervisor keeps it. *)
LEMMA StepInvariant == IInv /\ [Next]_vars => IInv'
<1> SUFFICES ASSUME IInv, [Next]_vars PROVE IInv'
  OBVIOUS
<1> USE DEF IInv, chain, counters
<1>1. CASE Mine
  <2> DEFINE new == {i \in Inputs : BlockOf[i] = head + 1}
  <2>1. Mined' = Mined \cup new /\ \A m \in Mined, n \in new : m < n
    BY <1>1, MinedGrows
  <2>2. /\ logs' = IF pc = "watch" THEN logs \cup new ELSE logs
        /\ unseen' = IF pc \in {"past", "subscribe"} THEN unseen \cup new ELSE unseen
        /\ head' = head + 1 /\ UNCHANGED <<pc, currentBlock, added, gap, counters>>
    BY <1>1 DEF Mine
  <2> HIDE DEF new
  <2>3. TypeOK'
    BY <2>1, <2>2 DEF TypeOK
  <2>4. PendingOK' /\ MissedOnlyInGap'
    BY <2>1, <2>2 DEF PendingOK, MissedOnlyInGap, TypeOK
  <2> QED BY <2>2, <2>3, <2>4 DEF PassedOK, NoHoles
<1>2. CASE Dial
  BY <1>2 DEF Dial, RequestFails, TypeOK, PassedOK, PendingOK, MissedOnlyInGap, NoHoles, Mined
<1>3. CASE FilterInputAdded
  <2>1. UNCHANGED <<head, currentBlock, added, gap>> /\ Mined' = Mined
    BY <1>3 DEF FilterInputAdded, Mined
  <2>2. CASE pc' = "past" /\ logs' = {i \in Mined : BlockOf[i] >= currentBlock} /\ unseen' = {} /\ UNCHANGED counters
    <3>1. TypeOK' /\ PassedOK' /\ NoHoles' /\ MissedOnlyInGap'
      BY <2>1, <2>2 DEF TypeOK, PassedOK, NoHoles, MissedOnlyInGap
    <3>2. \A i \in Mined : BlockOf[i] >= currentBlock \/ i \in added \cup gap
      BY BlockOrder DEF PassedOK, Mined, TypeOK
    <3>3. PendingOK'
      BY <2>1, <2>2, <3>2 DEF PendingOK
    <3> QED BY <3>1, <3>3
  <2>3. CASE RequestFails /\ pc' = "sleep" /\ UNCHANGED <<logs, unseen>>
    BY <2>1, <2>3 DEF RequestFails, TypeOK, PassedOK, PendingOK, MissedOnlyInGap, NoHoles
  <2> QED BY <1>3, <2>2, <2>3 DEF FilterInputAdded
<1>4. CASE AddPastInput
  <2>1. /\ UNCHANGED <<head, unseen, currentBlock, gap>> /\ Mined' = Mined
        /\ pc = "past" /\ logs # {}
    BY <1>4 DEF AddPastInput, Mined
  <2>2. CASE added' = added \cup {First(logs)} /\ logs' = logs \ {First(logs)} /\ UNCHANGED <<pc, counters>>
    <3>1. /\ First(logs) \in logs /\ First(logs) \in Mined
          /\ \A i \in Inputs, j \in added \cup {First(logs)} : i < j => i \in added \cup {First(logs)} \cup gap
      <4>1. Mined \subseteq added \cup logs \cup gap \cup unseen /\ \A u \in unseen, l \in logs : l < u
        BY <2>1 DEF PendingOK
      <4> QED BY <2>1, <4>1, AddNext
    <3>2. TypeOK' /\ PassedOK' /\ NoHoles'
      BY <2>1, <2>2, <3>1 DEF TypeOK, PassedOK, NoHoles
    <3>3. PendingOK' /\ MissedOnlyInGap'
      BY <2>1, <2>2, <3>1 DEF PendingOK, MissedOnlyInGap
    <3> QED BY <3>2, <3>3
  <2>3. CASE RequestFails /\ pc' = "sleep" /\ logs' = {} /\ UNCHANGED added
    BY <2>1, <2>3 DEF RequestFails, TypeOK, PassedOK, PendingOK, MissedOnlyInGap, NoHoles
  <2> QED BY <1>4, <2>2, <2>3 DEF AddPastInput
<1>5. CASE PastRead
  BY <1>5 DEF PastRead, TypeOK, PassedOK, PendingOK, MissedOnlyInGap, NoHoles, Mined
<1>6. CASE Subscribe
  <2>1. UNCHANGED <<head, unseen, currentBlock, logs, added>> /\ Mined' = Mined /\ pc = "subscribe"
    BY <1>6 DEF Subscribe, Mined
  <2>2. CASE pc' = "watch" /\ gap' = gap \cup unseen /\ UNCHANGED counters
    BY <2>1, <2>2 DEF TypeOK, PassedOK, PendingOK, MissedOnlyInGap, NoHoles
  <2>3. CASE RequestFails /\ pc' = "sleep" /\ UNCHANGED gap
    BY <2>1, <2>3 DEF RequestFails, TypeOK, PassedOK, PendingOK, MissedOnlyInGap, NoHoles
  <2> QED BY <1>6, <2>2, <2>3 DEF Subscribe
<1>7. CASE WatchEvent
  <2>1. /\ UNCHANGED <<head, unseen, gap>> /\ Mined' = Mined
        /\ pc = "watch" /\ logs # {} /\ currentBlock' = BlockOf[First(logs)] - 1
    BY <1>7 DEF WatchEvent, Mined
  <2>2. added \subseteq added' => currentBlock' \in Nat /\ PassedOK'
    BY <2>1, PassNext DEF PassedOK
  <2>3. CASE added' = added \cup {First(logs)} /\ logs' = logs \ {First(logs)} /\ UNCHANGED <<pc, counters>>
    <3>1. /\ First(logs) \in logs /\ First(logs) \in Mined
          /\ \A i \in Inputs, j \in added \cup {First(logs)} : i < j => i \in added \cup {First(logs)} \cup gap
      BY <2>1, AddNextWatching
    <3>2. TypeOK' /\ NoHoles'
      BY <2>1, <2>2, <2>3, <3>1 DEF TypeOK, NoHoles
    <3>3. PendingOK' /\ MissedOnlyInGap'
      BY <2>1, <2>3, <3>1 DEF PendingOK, MissedOnlyInGap
    <3> QED BY <2>2, <2>3, <3>2, <3>3
  <2>4. CASE RequestFails /\ Disconnect /\ UNCHANGED added
    BY <2>1, <2>2, <2>4 DEF RequestFails, Disconnect, TypeOK, PendingOK, MissedOnlyInGap, NoHoles
  <2> QED BY <1>7, <2>3, <2>4 DEF WatchEvent
<1>8. CASE WatchEnds
  BY <1>8 DEF WatchEnds, RequestFails, Disconnect, TypeOK, PassedOK, PendingOK, MissedOnlyInGap, NoHoles, Mined
<1>9. CASE Wake
  BY <1>9 DEF Wake, TypeOK, PassedOK, PendingOK, MissedOnlyInGap, NoHoles, Mined
<1>10. CASE Cancel
  BY <1>10 DEF Cancel, TypeOK, PassedOK, PendingOK, MissedOnlyInGap, NoHoles, Mined
<1>11. CASE Crash
  <2>1. PassedOK' /\ currentBlock' \in Nat
    BY <1>11, NothingBefore, InputterAssumption DEF Crash, PassedOK
  <2>2. /\ UNCHANGED <<head, unseen, added, gap, faults>> /\ Mined' = Mined
        /\ pc' = "dial" /\ logs' = {} /\ cancelled' = FALSE /\ crashes' = crashes + 1
    BY <1>11 DEF Crash, Mined
  <2>3. TypeOK'
    <3>1. cancelled' \in BOOLEAN
      BY <2>2
    <3>2. logs' \subseteq Mined' /\ crashes' \in Nat /\ pc' \in {"dial"}
      BY <2>2 DEF TypeOK
    <3> QED BY <2>1, <2>2, <3>1, <3>2 DEF TypeOK
  <2> QED BY <2>1, <2>2, <2>3 DEF PendingOK, MissedOnlyInGap, NoHoles
<1>12. CASE UNCHANGED vars
  BY <1>12 DEF vars, TypeOK, PassedOK, PendingOK, MissedOnlyInGap, NoHoles, Mined
<1> QED
  BY <1>1, <1>2, <1>3, <1>4, <1>5, <1>6, <1>7, <1>8, <1>9, <1>10, <1>11, <1>12 DEF Next, Step

(* Every reachable state satisfies the inductive invariant. *)
THEOREM InvariantHolds == Spec => []IInv
BY InitInvariant, StepInvariant, PTL DEF Spec

(* The state of the worker is always well formed. *)
THEOREM TypeCorrect == Spec => []TypeOK
<1>1. IInv => TypeOK
  BY DEF IInv
<1> QED BY <1>1, InvariantHolds, PTL

(***************************************************************************)
(* A worker that watches misses no input but those that were mined between *)
(* its reading of the past and its subscription, for any inputs, blocks,   *)
(* failures, reconnections and restarts.                                   *)
(***************************************************************************)
THEOREM OnlyTheGapIsMissed == Spec => []MissedOnlyInGap
<1>1. IInv => MissedOnlyInGap
  BY DEF IInv
<1> QED BY <1>1, InvariantHolds, PTL

(* Inputs are added in order, but for those the gap took. *)
THEOREM AddedWithoutHoles == Spec => []NoHoles
<1>1. IInv => NoHoles
  BY DEF IInv
<1> QED BY <1>1, InvariantHolds, PTL
=============================================================================
