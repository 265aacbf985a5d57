-------------------------- MODULE RollupAPI_proofs --------------------------
(***************************************************************************)
(* Proofs about RollupAPI, for any inputs and inspects, any number of      *)
(* requests in flight, and however many of them are cut, fail or are left  *)
(* behind by an application that is launched again.                        *)
(***************************************************************************)
EXTENDS RollupAPI, FiniteSetTheorems, SequenceTheorems, TLAPS

-----------------------------------------------------------------------------
(* What may be in hand of a host that knows n inspects. *)
ItemsOf(n) == {Nothing} \cup {Item("advance", i) : i \in Inputs} \cup {Item("inspect", k) : k \in 1 .. n}

Judged(item) ==
  /\ item.kind = "advance" => status[item.of] \in Verdicts
  /\ item.kind = "inspect" => answers[item.of] \in Verdicts

(* An item is nothing, an input or an inspect, and is known by its fields. *)
LEMMA ItemCases ==
  ASSUME NEW n \in Nat, NEW item \in ItemsOf(n)
  PROVE  /\ item = Item(item.kind, item.of)
         /\ \/ item.kind = "idle" /\ item = Nothing
            \/ item.kind = "advance" /\ item.of \in Inputs
            \/ item.kind = "inspect" /\ item.of \in 1 .. n
BY DEF ItemsOf, Item, Nothing

LEMMA MoreItems ==
  ASSUME NEW n \in Nat, NEW m \in Nat, n <= m
  PROVE  ItemsOf(n) \subseteq ItemsOf(m)
BY DEF ItemsOf

(* The next in line is waiting for its verdict. *)
LEMMA NextIsWaiting ==
  ASSUME NEW st \in [Inputs -> Statuses \cup {"absent"}], NEW ans \in Seq(Statuses),
         NEW item \in NextInLine(st, ans)
  PROVE  /\ item \in ItemsOf(Len(ans))
         /\ item.kind = "advance" => st[item.of] = "unprocessed"
         /\ item.kind = "inspect" => ans[item.of] = "unprocessed"
<1>1. Least(Waiting(ans)) \subseteq Waiting(ans) /\ Least(Waiting(st)) \subseteq Waiting(st)
  BY DEF Least
<1>2. Waiting(ans) \subseteq 1 .. Len(ans) /\ Waiting(st) \subseteq Inputs
  BY DEF Waiting
<1>3. CASE item \in {Item("inspect", k) : k \in Least(Waiting(ans))}
  <2>1. PICK k \in Least(Waiting(ans)) : item = Item("inspect", k)
    BY <1>3
  <2>2. k \in 1 .. Len(ans) /\ ans[k] = "unprocessed" /\ item.kind = "inspect" /\ item.of = k
    BY <1>1, <1>2, <2>1 DEF Waiting, Item
  <2>3. item \in ItemsOf(Len(ans))
    BY <2>1, <2>2 DEF ItemsOf
  <2> QED BY <2>2, <2>3
<1>4. CASE item \in {Item("advance", i) : i \in Least(Waiting(st))}
  <2>1. PICK i \in Least(Waiting(st)) : item = Item("advance", i)
    BY <1>4
  <2>2. i \in Inputs /\ st[i] = "unprocessed" /\ item.kind = "advance" /\ item.of = i
    BY <1>1, <1>2, <2>1 DEF Waiting, Item
  <2>3. item \in ItemsOf(Len(ans))
    BY <2>1, <2>2 DEF ItemsOf
  <2> QED BY <2>2, <2>3
<1>5. CASE item = Nothing
  BY <1>5 DEF ItemsOf, Item, Nothing
<1> QED BY <1>3, <1>4, <1>5 DEF NextInLine

(***************************************************************************)
(* The inductive invariant, in parts.  HostOK, CallsOK and ClientsOK say   *)
(* that the state is well formed (APITypeOK), HistoryOK also that what the *)
(* bounds count is finite.                                                 *)
(***************************************************************************)
HostOK ==
  /\ status \in [Inputs -> Statuses \cup {"absent"}]
  /\ answers \in Seq(Statuses)
  /\ hand \in ItemsOf(Len(answers))

Live == {r \in Requests : finish[r].at # "free" /\ ~finish[r].cut}

CallsOK ==
  /\ finish \in [Requests -> [at : {"free", "poll", "sleep"}, accept : BOOLEAN,
                              left : 0 .. FinishRetries, cut : BOOLEAN,
                              about : ItemsOf(Len(answers))]]
  /\ app \in [at : {"work", "wait"}, has : ItemsOf(Len(answers)), on : SUBSET Requests]
  /\ app.on = Live
  /\ IF app.at = "wait" THEN \E r \in Requests : app.on = {r} /\ finish[r].about = app.has
                        ELSE app.on = {}
  /\ \A r \in Requests : finish[r].at = "poll" => finish[r].left > 0

ClientsOK ==
  /\ Len(clients) = Len(answers)
  /\ clients \in Seq({"waiting", "done"})

HistoryOK ==
  /\ foreign \subseteq ItemsOf(Len(answers)) \ {Nothing} /\ IsFiniteSet(foreign)
  /\ tainted \subseteq ItemsOf(Len(answers)) \ {Nothing} /\ IsFiniteSet(tainted)
  /\ cuts \in Nat /\ relaunches \in Nat /\ errors \in Nat

(***************************************************************************)
(* What the application has in work is in hand, or has its verdict: so the *)
(* host never hands it out again.  Hence a request that sleeps, for which  *)
(* nothing was in line, is not about what is in hand.                      *)
(***************************************************************************)
HeldOrJudged == app.has = hand \/ Judged(app.has)

SleepsWithoutHand ==
  (\E r \in Live : finish[r].at = "sleep") => app.has = Nothing \/ app.has # hand

(***************************************************************************)
(* MisjudgedBounded and TaintedBounded with the harm that is still to      *)
(* come: a request that was cut while it was about to poll will judge what *)
(* is in hand and hand out another (2, and 1 of outputs); and what is in   *)
(* hand while the application has something else, or nothing, is misjudged *)
(* next, or credited its outputs (1).                                      *)
(***************************************************************************)
Doomed == {r \in Requests : finish[r].cut /\ finish[r].at = "poll"}

ToMisjudge == IF hand \in {Nothing, app.has} \cup foreign THEN 0 ELSE 1

MisjudgedOrToCome ==
  Cardinality(foreign) + 2 * Cardinality(Doomed) + ToMisjudge <= 2 * cuts + relaunches

ToTaint == IF app.has = Nothing \/ hand \in {Nothing, app.has} \cup tainted THEN 0 ELSE 1

TaintedOrToCome == Cardinality(tainted) + Cardinality(Doomed) + ToTaint <= cuts

TypesOK == HostOK /\ CallsOK /\ ClientsOK /\ HistoryOK

IInv ==
  /\ TypesOK
  /\ HeldOrJudged
  /\ SleepsWithoutHand
  /\ MisjudgedOrToCome
  /\ TaintedOrToCome

(* What the host holds after a verdict, and that no verdict is lost. *)
LEMMA AfterVerdict ==
  ASSUME HostOK, NEW verdict \in Verdicts
  PROVE  /\ StatusAfter(verdict) \in [Inputs -> Statuses \cup {"absent"}]
         /\ AnswersAfter(verdict) \in Seq(Statuses)
         /\ Len(AnswersAfter(verdict)) = Len(answers)
         /\ \A i \in Inputs : status[i] \in Verdicts \/ hand = Item("advance", i)
                                => StatusAfter(verdict)[i] \in Verdicts
         /\ \A k \in 1 .. Len(answers) : answers[k] \in Verdicts \/ hand = Item("inspect", k)
                                           => AnswersAfter(verdict)[k] \in Verdicts
<1>1. /\ status \in [Inputs -> Statuses \cup {"absent"}] /\ answers \in Seq(Statuses)
      /\ hand \in ItemsOf(Len(answers)) /\ Len(answers) \in Nat
  BY DEF HostOK
<1>2. /\ hand.kind = "advance" => hand.of \in Inputs
      /\ hand.kind = "inspect" => hand.of \in 1 .. Len(answers)
  BY <1>1, ItemCases
<1>3. Verdicts \subseteq Statuses
  BY DEF Statuses
<1>4. /\ StatusAfter(verdict) \in [Inputs -> Statuses \cup {"absent"}]
      /\ \A i \in Inputs : status[i] \in Verdicts \/ hand = Item("advance", i)
                             => StatusAfter(verdict)[i] \in Verdicts
  BY <1>1, <1>2, <1>3 DEF StatusAfter, Item
<1>5. /\ AnswersAfter(verdict) \in Seq(Statuses)
      /\ Len(AnswersAfter(verdict)) = Len(answers)
      /\ \A k \in 1 .. Len(answers) : answers[k] \in Verdicts \/ hand = Item("inspect", k)
                                        => AnswersAfter(verdict)[k] \in Verdicts
  BY <1>1, <1>2, <1>3 DEF AnswersAfter, Item
<1> QED BY <1>4, <1>5

(* The verdict of a request is one. *)
LEMMA VerdictType == ASSUME NEW r PROVE Verdict(r) \in Verdicts
BY DEF Verdict, Verdicts

(***************************************************************************)
(* The application waits for the one request that is not cut.              *)
(***************************************************************************)
LEMMA TheOneItWaitsFor ==
  ASSUME CallsOK, NEW r \in Live
  PROVE  app.at = "wait" /\ app.on = {r} /\ finish[r].about = app.has
BY DEF CallsOK
-----------------------------------------------------------------------------
(* A poll gives a verdict on what is in hand and takes what is in line. *)
LEMMA PollOfHost ==
  ASSUME HostOK, NEW r \in Requests, Poll(r)
  PROVE  /\ HostOK' /\ Len(answers') = Len(answers)
         /\ status' = StatusAfter(Verdict(r)) /\ answers' = AnswersAfter(Verdict(r))
         /\ hand'.kind = "advance" => status'[hand'.of] = "unprocessed"
         /\ hand'.kind = "inspect" => answers'[hand'.of] = "unprocessed"
<1>1. /\ status' = StatusAfter(Verdict(r)) /\ answers' = AnswersAfter(Verdict(r))
      /\ hand' \in NextInLine(status', answers')
  BY DEF Poll
<1>2. /\ status' \in [Inputs -> Statuses \cup {"absent"}] /\ answers' \in Seq(Statuses)
      /\ Len(answers') = Len(answers)
  BY <1>1, AfterVerdict, VerdictType
<1>3. PICK st, ans, item : st = status' /\ ans = answers' /\ item = hand'
  OBVIOUS
<1>4. /\ item \in ItemsOf(Len(ans))
      /\ item.kind = "advance" => st[item.of] = "unprocessed"
      /\ item.kind = "inspect" => ans[item.of] = "unprocessed"
  BY <1>1, <1>2, <1>3, NextIsWaiting
<1> QED BY <1>1, <1>2, <1>3, <1>4 DEF HostOK

(* Every action keeps the host well formed, and forgets no inspect. *)
LEMMA HostStep ==
  ASSUME HostOK, APINext
  PROVE  HostOK' /\ (~PostInspect => Len(answers') = Len(answers))
<1>1. ASSUME NEW r \in Requests, Poll(r)
      PROVE  HostOK' /\ Len(answers') = Len(answers)
  BY <1>1, PollOfHost
<1>2. ASSUME NEW r \in Requests, PollFails(r)
      PROVE  HostOK' /\ Len(answers') = Len(answers)
  <2>1. CASE UNCHANGED hostVars
    BY <2>1 DEF hostVars, HostOK
  <2>2. CASE Settle(Verdict(r))
    BY <2>2, AfterVerdict, VerdictType DEF Settle, HostOK
  <2> QED BY <1>2, <2>1, <2>2 DEF PollFails
<1>3. CASE PostException
  <2>1. "exception" \in Verdicts /\ Nothing \in ItemsOf(Len(answers))
    BY DEF Verdicts, ItemsOf
  <2> QED BY <1>3, <2>1, AfterVerdict DEF PostException, HostOK
<1>4. ASSUME NEW i \in Inputs, NewInput(i)
      PROVE  HostOK' /\ Len(answers') = Len(answers)
  BY <1>4 DEF NewInput, AddInput, HostOK, Statuses
<1>5. CASE PostInspect
  <2>1. "unprocessed" \in Statuses
    BY DEF Statuses
  <2>2. answers' = Append(answers, "unprocessed") /\ UNCHANGED <<status, hand>>
    BY <1>5 DEF PostInspect, AddInspect
  <2>3. answers' \in Seq(Statuses) /\ Len(answers') = Len(answers) + 1 /\ Len(answers) \in Nat
    BY <2>1, <2>2 DEF HostOK
  <2>4. ItemsOf(Len(answers)) \subseteq ItemsOf(Len(answers) + 1)
    BY <2>3, MoreItems
  <2>5. hand' \in ItemsOf(Len(answers'))
    BY <2>2, <2>3, <2>4 DEF HostOK
  <2> QED BY <1>5, <2>2, <2>3, <2>5 DEF HostOK
<1>6. CASE UNCHANGED hostVars
  BY <1>6 DEF hostVars, HostOK
<1>7. ASSUME NEW r \in Requests, \/ \E accept \in Accepts : PostFinish(r, accept)
                                \/ Wake(r) \/ NoneAvailable(r) \/ Leave(r) \/ Cut(r)
      PROVE  UNCHANGED hostVars
  BY <1>7 DEF PostFinish, Wake, NoneAvailable, Leave, Cut
<1>8. CASE AddOutput \/ Relaunch
  BY <1>6, <1>8 DEF AddOutput, Relaunch
<1>9. CASE \E k \in 1 .. MaxInspects : PollInspect(k) \/ CutInspect(k)
  BY <1>6, <1>9 DEF PollInspect, CutInspect
<1>10. UNCHANGED hostVars => Len(answers') = Len(answers)
  BY DEF hostVars
<1>11. PostException => Len(answers') = Len(answers)
  <2>1. "exception" \in Verdicts
    BY DEF Verdicts
  <2> QED BY <2>1, AfterVerdict DEF PostException
<1>12. AddOutput \/ Relaunch \/ (\E k \in 1 .. MaxInspects : PollInspect(k) \/ CutInspect(k)) => UNCHANGED hostVars
  BY DEF AddOutput, Relaunch, PollInspect, CutInspect
<1> QED BY <1>1, <1>2, <1>3, <1>4, <1>5, <1>6, <1>7, <1>8, <1>9, <1>10, <1>11, <1>12
          DEF APINext, Handler
-----------------------------------------------------------------------------
(* A free request is well formed. *)
LEMMA FreeType ==
  ASSUME NEW n \in Nat
  PROVE  Free \in [at : {"free", "poll", "sleep"}, accept : BOOLEAN, left : 0 .. FinishRetries,
                   cut : BOOLEAN, about : ItemsOf(n)]
BY RollupAPIAssumption DEF Free, ItemsOf

(* The host may learn of an inspect meanwhile. *)
LEMMA CallsUnchanged ==
  ASSUME HostOK, HostOK', CallsOK, Len(answers) <= Len(answers'), UNCHANGED <<finish, app>>
  PROVE  CallsOK'
<1>1. ItemsOf(Len(answers)) \subseteq ItemsOf(Len(answers'))
  BY MoreItems DEF HostOK
<1>2. UNCHANGED Live
  BY DEF Live
<1> QED BY <1>1, <1>2 DEF CallsOK

(* An answer ends the request, and the wait for it unless it was cut. *)
LEMMA AnswerOfCalls ==
  ASSUME CallsOK, HostOK, NEW r \in Requests, finish[r].at # "free",
         NEW has \in ItemsOf(Len(answers)), Answer(r, has), Len(answers') = Len(answers)
  PROVE  /\ CallsOK'
         /\ finish' = [finish EXCEPT ![r] = Free]
         /\ finish[r].cut => UNCHANGED app
         /\ ~finish[r].cut => app' = [at |-> "work", has |-> has, on |-> {}]
<1>1. /\ finish' = [finish EXCEPT ![r] = Free]
      /\ finish[r].cut => UNCHANGED app
      /\ ~finish[r].cut => app' = [at |-> "work", has |-> has, on |-> {}]
  BY DEF Answer
<1>2. Free \in [at : {"free", "poll", "sleep"}, accept : BOOLEAN, left : 0 .. FinishRetries,
                cut : BOOLEAN, about : ItemsOf(Len(answers))]
  BY FreeType DEF HostOK
<1>3. finish' \in [Requests -> [at : {"free", "poll", "sleep"}, accept : BOOLEAN,
                               left : 0 .. FinishRetries, cut : BOOLEAN,
                               about : ItemsOf(Len(answers))]]
  BY <1>1, <1>2 DEF CallsOK
<1>4. Live' = Live \ {r}
  BY <1>1, <1>3 DEF Live, Free, CallsOK
<1>5. \A q \in Requests : finish'[q].at = "poll" => finish'[q].left > 0
  BY <1>1 DEF Free, CallsOK
<1>6. CASE finish[r].cut
  <2>1. Live' = Live
    BY <1>4, <1>6 DEF Live
  <2>2. r \notin Live
    BY <1>6 DEF Live
  <2>3. \A q \in Requests : app.on = {q} => finish'[q] = finish[q]
    BY <1>1, <2>2 DEF CallsOK
  <2> QED BY <1>1, <1>3, <1>6, <1>5, <2>1, <2>3 DEF CallsOK
<1>7. CASE ~finish[r].cut
  <2>1. Live = {r}
    BY <1>7, TheOneItWaitsFor DEF Live, CallsOK
  <2>2. app' = [at |-> "work", has |-> has, on |-> {}]
    BY <1>1, <1>7
  <2>3. Live' = {}
    BY <1>4, <2>1
  <2> QED BY <1>1, <1>3, <1>5, <2>2, <2>3 DEF CallsOK
<1> QED BY <1>1, <1>6, <1>7

(* Every action keeps the requests and the application well formed. *)
LEMMA CallsStep ==
  ASSUME HostOK, CallsOK, APINext
  PROVE  CallsOK'
<1> DEFINE Known == ItemsOf(Len(answers))
           Shape == [at : {"free", "poll", "sleep"}, accept : BOOLEAN, left : 0 .. FinishRetries,
                     cut : BOOLEAN, about : Known]
<1>1. HostOK' /\ (~PostInspect => Len(answers') = Len(answers)) /\ Len(answers) \in Nat
  BY HostStep DEF HostOK
<1>2. /\ finish \in [Requests -> Shape]
      /\ app \in [at : {"work", "wait"}, has : Known, on : SUBSET Requests]
      /\ Nothing \in Known
  BY DEF CallsOK, ItemsOf
<1>3. ASSUME NEW r \in Requests, NEW accept \in Accepts, PostFinish(r, accept), Len(answers') = Len(answers)
      PROVE  CallsOK'
  <2>1. /\ app.at = "work" /\ finish[r] = Free
        /\ finish' = [finish EXCEPT ![r] = [at |-> "poll", accept |-> accept, left |-> FinishRetries,
                                           cut |-> FALSE, about |-> app.has]]
        /\ app' = [app EXCEPT !.at = "wait", !.on = {r}]
    BY <1>3 DEF PostFinish
  <2>2. [at |-> "poll", accept |-> accept, left |-> FinishRetries, cut |-> FALSE, about |-> app.has] \in Shape
    BY <1>2, RollupAPIAssumption
  <2>3. finish' \in [Requests -> Shape] /\ finish'[r].about = app.has
    BY <1>2, <2>1, <2>2
  <2>4. app' \in [at : {"work", "wait"}, has : Known, on : SUBSET Requests]
        /\ app'.on = {r} /\ app'.at = "wait" /\ app'.has = app.has
    BY <1>2, <2>1
  <2>5. Live = {}
    BY <2>1 DEF CallsOK
  <2>6. Live' = {r}
    BY <1>2, <2>1, <2>5 DEF Live
  <2>7. \A q \in Requests : finish'[q].at = "poll" => finish'[q].left > 0
    BY <1>2, <2>1, RollupAPIAssumption DEF CallsOK
  <2> QED BY <1>3, <2>3, <2>4, <2>6, <2>7 DEF CallsOK
<1>4. ASSUME NEW r \in Requests, Poll(r), Len(answers') = Len(answers)
      PROVE  CallsOK'
  <2>1. finish[r].at = "poll"
    BY <1>4 DEF Poll
  <2>2. CASE hand' = Nothing
    <3>1. finish' = [finish EXCEPT ![r].at = "sleep", ![r].left = @ - 1] /\ UNCHANGED app
      BY <1>4, <2>2 DEF Poll
    <3>2. finish[r] \in Shape /\ finish[r].left - 1 \in 0 .. FinishRetries
      BY <1>2, <2>1, RollupAPIAssumption DEF CallsOK
    <3>3. /\ finish' \in [Requests -> Shape]
          /\ \A q \in Requests : /\ finish'[q].cut = finish[q].cut
                                 /\ finish'[q].about = finish[q].about
                                 /\ finish'[q].at = "free" <=> finish[q].at = "free"
                                 /\ finish'[q].at = "poll" => finish'[q] = finish[q]
      BY <1>2, <2>1, <3>1, <3>2
    <3>4. Live' = Live
      BY <3>3 DEF Live
    <3> QED BY <1>4, <3>1, <3>3, <3>4 DEF CallsOK
  <2>3. CASE hand' # Nothing
    <3>1. PICK has : has = hand'
      OBVIOUS
    <3>2. Answer(r, has)
      BY <1>4, <2>3, <3>1 DEF Poll
    <3>3. has \in ItemsOf(Len(answers))
      BY <1>1, <1>4, <3>1 DEF HostOK
    <3> QED BY <1>4, <2>1, <3>2, <3>3, AnswerOfCalls
  <2> QED BY <2>2, <2>3
<1>5. ASSUME NEW r \in Requests, PollFails(r), Len(answers') = Len(answers)
      PROVE  CallsOK'
  <2>1. finish[r].at = "poll" /\ Answer(r, app.has) /\ app.has \in Known
    BY <1>2, <1>5 DEF PollFails
  <2> QED BY <1>5, <2>1, AnswerOfCalls
<1>6. ASSUME NEW r \in Requests, Wake(r), Len(answers') = Len(answers)
      PROVE  CallsOK'
  <2>1. /\ finish[r].at = "sleep" /\ finish[r].left > 0
        /\ finish' = [finish EXCEPT ![r].at = "poll"] /\ UNCHANGED app
    BY <1>6 DEF Wake
  <2>2. finish[r] \in Shape
    BY <1>2
  <2>3. /\ finish' \in [Requests -> Shape]
        /\ \A q \in Requests : /\ finish'[q].cut = finish[q].cut
                               /\ finish'[q].about = finish[q].about
                               /\ finish'[q].left = finish[q].left
                               /\ finish'[q].at = "free" <=> finish[q].at = "free"
                               /\ finish'[q].at = "poll" => finish[q].at = "poll" \/ q = r
    BY <1>2, <2>1, <2>2
  <2>4. Live' = Live
    BY <2>3 DEF Live
  <2>5. \A q \in Requests : finish'[q].at = "poll" => finish'[q].left > 0
    BY <2>1, <2>3 DEF CallsOK
  <2> QED BY <1>6, <2>1, <2>3, <2>4, <2>5 DEF CallsOK
<1>7. ASSUME NEW r \in Requests, NoneAvailable(r) \/ Leave(r), Len(answers') = Len(answers)
      PROVE  CallsOK'
  <2>1. finish[r].at = "sleep" /\ Answer(r, Nothing)
    BY <1>7 DEF NoneAvailable, Leave
  <2> QED BY <1>2, <1>7, <2>1, AnswerOfCalls
<1>8. ASSUME NEW r \in Requests, Cut(r), Len(answers') = Len(answers)
      PROVE  CallsOK'
  <2>1. /\ app.on = {r} /\ finish' = [finish EXCEPT ![r].cut = TRUE]
        /\ app' = [app EXCEPT !.at = "work", !.on = {}]
    BY <1>8 DEF Cut
  <2>2. finish[r] \in Shape /\ Live = {r}
    BY <1>2, <2>1 DEF CallsOK
  <2>3. /\ finish' \in [Requests -> Shape]
        /\ app' \in [at : {"work", "wait"}, has : Known, on : SUBSET Requests]
        /\ app'.at = "work" /\ app'.on = {}
    BY <1>2, <2>1, <2>2
  <2>4. \A q \in Requests : /\ finish'[q].at = finish[q].at /\ finish'[q].left = finish[q].left
                            /\ finish'[q].cut = (q = r \/ finish[q].cut)
    BY <1>2, <2>1
  <2>5. Live' = {}
    BY <2>2, <2>4 DEF Live
  <2> QED BY <1>8, <2>3, <2>4, <2>5 DEF CallsOK
<1>9. ASSUME PostException, Len(answers') = Len(answers)
      PROVE  CallsOK'
  <2>1. UNCHANGED finish /\ app' = [app EXCEPT !.has = Nothing] /\ app.at = "work"
    BY <1>9 DEF PostException
  <2>2. UNCHANGED Live
    BY <2>1 DEF Live
  <2> QED BY <1>2, <1>9, <2>1, <2>2 DEF CallsOK
<1>10. ASSUME Relaunch, Len(answers') = Len(answers)
       PROVE  CallsOK'
  <2>1. /\ finish' = [r \in Requests |-> IF r \in app.on THEN [finish[r] EXCEPT !.cut = TRUE] ELSE finish[r]]
        /\ app' = [at |-> "work", has |-> Nothing, on |-> {}]
    BY <1>10 DEF Relaunch
  <2>2. /\ finish' \in [Requests -> Shape]
        /\ app' \in [at : {"work", "wait"}, has : Known, on : SUBSET Requests]
    BY <1>2, <2>1
  <2>3. \A q \in Requests : /\ finish'[q].at = finish[q].at /\ finish'[q].left = finish[q].left
                            /\ finish'[q].cut = (q \in app.on \/ finish[q].cut)
    BY <1>2, <2>1
  <2>4. Live' = {}
    BY <2>3 DEF Live, CallsOK
  <2> QED BY <1>10, <2>1, <2>2, <2>3, <2>4 DEF CallsOK
<1>11. CASE UNCHANGED <<finish, app>>
  <2>1. PostInspect => Len(answers) <= Len(answers')
    BY <1>1 DEF PostInspect, AddInspect, HostOK
  <2> QED BY <1>1, <1>11, <2>1, CallsUnchanged
<1>12. \/ AddOutput \/ PostInspect \/ \E i \in Inputs : NewInput(i)
       \/ \E k \in 1 .. MaxInspects : PollInspect(k) \/ CutInspect(k)
       => UNCHANGED <<finish, app>>
  BY DEF AddOutput, PostInspect, NewInput, PollInspect, CutInspect, apiVars
<1>13. CASE PostInspect
  BY <1>11, <1>12, <1>13
<1>14. CASE ~PostInspect
  BY <1>1, <1>3, <1>4, <1>5, <1>6, <1>7, <1>8, <1>9, <1>10, <1>11, <1>12, <1>14 DEF APINext, Handler
<1> QED BY <1>13, <1>14
-----------------------------------------------------------------------------
(* A verdict judges what is in hand, and takes no other verdict back. *)
LEMMA VerdictsStay ==
  ASSUME HostOK, NEW verdict \in Verdicts,
         status' = StatusAfter(verdict), answers' = AnswersAfter(verdict),
         NEW item \in ItemsOf(Len(answers)), Judged(item) \/ item = hand
  PROVE  Judged(item)'
<1>1. /\ item = Item(item.kind, item.of)
      /\ item.kind = "advance" => item.of \in Inputs
      /\ item.kind = "inspect" => item.of \in 1 .. Len(answers)
  <2>1. Len(answers) \in Nat
    BY DEF HostOK
  <2> QED BY <2>1, ItemCases
<1>2. ASSUME item.kind = "advance" PROVE status'[item.of] \in Verdicts
  BY <1>1, <1>2, AfterVerdict DEF Judged
<1>3. ASSUME item.kind = "inspect" PROVE answers'[item.of] \in Verdicts
  BY <1>1, <1>3, AfterVerdict DEF Judged
<1> QED BY <1>2, <1>3 DEF Judged

(* Nor does anything else. *)
LEMMA JudgedStays ==
  ASSUME HostOK, APINext, NEW item \in ItemsOf(Len(answers)), Judged(item)
  PROVE  Judged(item)'
<1>1. CASE UNCHANGED hostVars
  BY <1>1 DEF hostVars, Judged
<1>2. ASSUME NEW r \in Requests, Poll(r) PROVE Judged(item)'
  BY <1>2, VerdictsStay, VerdictType DEF Poll
<1>3. ASSUME NEW r \in Requests, PollFails(r) PROVE Judged(item)'
  <2>1. CASE Settle(Verdict(r))
    BY <2>1, VerdictsStay, VerdictType DEF Settle
  <2> QED BY <1>1, <1>3, <2>1 DEF PollFails
<1>4. CASE PostException
  <2>1. "exception" \in Verdicts
    BY DEF Verdicts
  <2> QED BY <1>4, <2>1, VerdictsStay DEF PostException
<1>5. ASSUME NEW i \in Inputs, NewInput(i) PROVE Judged(item)'
  <2>1. status[i] = "absent" /\ status' = [status EXCEPT ![i] = "unprocessed"] /\ UNCHANGED answers
    BY <1>5 DEF NewInput, AddInput
  <2>2. "absent" \notin Verdicts
    BY DEF Verdicts
  <2>3. item.kind = "advance" => item.of # i
    BY <2>1, <2>2 DEF Judged
  <2> QED BY <2>1, <2>3 DEF Judged, HostOK
<1>6. CASE PostInspect
  <2>1. answers' = Append(answers, "unprocessed") /\ UNCHANGED status
    BY <1>6 DEF PostInspect, AddInspect
  <2>2. item.kind = "inspect" => item.of \in 1 .. Len(answers)
    BY ItemCases DEF HostOK
  <2> QED BY <2>1, <2>2 DEF Judged, HostOK
<1>7. \/ \E r \in Requests : \/ \E accept \in Accepts : PostFinish(r, accept)
                            \/ Wake(r) \/ NoneAvailable(r) \/ Leave(r) \/ Cut(r)
      \/ AddOutput \/ Relaunch
      \/ \E k \in 1 .. MaxInspects : PollInspect(k) \/ CutInspect(k)
      => UNCHANGED hostVars
  BY DEF PostFinish, Wake, NoneAvailable, Leave, Cut, AddOutput, Relaunch, PollInspect, CutInspect
<1> QED BY <1>1, <1>2, <1>3, <1>4, <1>5, <1>6, <1>7 DEF APINext, Handler

(* A request that sleeps and is not answered slept before. *)
LEMMA SleepersStay ==
  ASSUME SleepsWithoutHand, UNCHANGED hand, app'.has = app.has,
         \A q \in Live' : finish'[q].at = "sleep" => q \in Live /\ finish[q].at = "sleep"
  PROVE  SleepsWithoutHand'
BY DEF SleepsWithoutHand

LEMMA HeldStep ==
  ASSUME TypesOK, HeldOrJudged, SleepsWithoutHand, APINext
  PROVE  HeldOrJudged' /\ SleepsWithoutHand'
<1>1. HostOK /\ CallsOK /\ HostOK' /\ CallsOK'
  BY HostStep, CallsStep DEF TypesOK
<1>2. PICK has \in ItemsOf(Len(answers)) : has = app.has
  BY <1>1 DEF CallsOK
<1>3. Judged(has) \/ has = hand
  BY <1>2 DEF HeldOrJudged
<1>4. ASSUME UNCHANGED hand, app'.has = app.has PROVE HeldOrJudged'
  BY <1>1, <1>2, <1>3, <1>4, JudgedStays DEF HeldOrJudged
<1>5. ASSUME app'.has = Nothing PROVE HeldOrJudged' /\ SleepsWithoutHand'
  <2>1. Judged(Nothing)'
    BY DEF Judged, Nothing, Item
  <2> QED BY <1>5, <2>1 DEF HeldOrJudged, SleepsWithoutHand
<1>6. ASSUME NEW r \in Requests, NEW accept \in Accepts, PostFinish(r, accept)
      PROVE  HeldOrJudged' /\ SleepsWithoutHand'
  <2>1. UNCHANGED hand /\ app'.has = app.has /\ app'.on = {r} /\ finish'[r].at = "poll"
    BY <1>1, <1>6 DEF PostFinish, hostVars, CallsOK
  <2>2. Live' = {r}
    BY <1>1, <2>1 DEF CallsOK
  <2> QED BY <1>4, <2>1, <2>2, SleepersStay
<1>7. ASSUME NEW r \in Requests, Poll(r)
      PROVE  HeldOrJudged' /\ SleepsWithoutHand'
  <2>1. /\ Len(answers') = Len(answers) /\ finish[r].at = "poll"
        /\ status' = StatusAfter(Verdict(r)) /\ answers' = AnswersAfter(Verdict(r))
        /\ hand'.kind = "advance" => status'[hand'.of] = "unprocessed"
        /\ hand'.kind = "inspect" => answers'[hand'.of] = "unprocessed"
    BY <1>1, <1>7, PollOfHost DEF Poll
  <2>2. Judged(has)'
    BY <1>1, <1>3, <2>1, VerdictsStay, VerdictType
  <2>3. has = Nothing \/ has # hand'
    <3>1. has.kind \in {"advance", "inspect"} \/ has = Nothing
      BY <1>1, ItemCases DEF HostOK
    <3>2. "unprocessed" \notin Verdicts
      BY DEF Verdicts
    <3> QED BY <2>1, <2>2, <3>1, <3>2 DEF Judged
  <2>4. CASE app'.has = has
    BY <2>2, <2>3, <2>4 DEF HeldOrJudged, SleepsWithoutHand
  <2>5. CASE app' = [at |-> "work", has |-> hand', on |-> {}]
    <3>1. Live' = {}
      BY <1>1, <2>5 DEF CallsOK
    <3> QED BY <2>5, <3>1 DEF HeldOrJudged, SleepsWithoutHand
  <2>6. app'.has = has \/ app' = [at |-> "work", has |-> hand', on |-> {}]
    BY <1>2, <1>7 DEF Poll, Answer
  <2> QED BY <2>4, <2>5, <2>6
<1>8. ASSUME NEW r \in Requests, PollFails(r)
      PROVE  HeldOrJudged' /\ SleepsWithoutHand'
  <2>1. UNCHANGED hand /\ finish[r].at = "poll" /\ Answer(r, app.has)
    BY <1>8 DEF PollFails, Settle, hostVars
  <2>2. app'.has = app.has /\ finish' = [finish EXCEPT ![r] = Free]
    BY <2>1 DEF Answer
  <2>3. \A q \in Live' : finish'[q].at = "sleep" => q \in Live /\ finish[q].at = "sleep"
    BY <1>1, <2>2 DEF Live, Free, CallsOK
  <2> QED BY <1>4, <2>1, <2>2, <2>3, SleepersStay
<1>9. ASSUME NEW r \in Requests, Wake(r)
      PROVE  HeldOrJudged' /\ SleepsWithoutHand'
  <2>1. UNCHANGED <<hand, app>> /\ finish' = [finish EXCEPT ![r].at = "poll"]
    BY <1>9 DEF Wake, hostVars
  <2>2. \A q \in Live' : finish'[q].at = "sleep" => q \in Live /\ finish[q].at = "sleep"
    BY <1>1, <2>1 DEF Live, CallsOK
  <2> QED BY <1>4, <2>1, <2>2, SleepersStay
<1>10. ASSUME NEW r \in Requests, NoneAvailable(r) \/ Leave(r)
       PROVE  HeldOrJudged' /\ SleepsWithoutHand'
  <2>1. UNCHANGED hand /\ Answer(r, Nothing)
    BY <1>10 DEF NoneAvailable, Leave, hostVars
  <2>2. CASE finish[r].cut
    <3>1. UNCHANGED app /\ finish' = [finish EXCEPT ![r] = Free]
      BY <2>1, <2>2 DEF Answer
    <3>2. \A q \in Live' : finish'[q].at = "sleep" => q \in Live /\ finish[q].at = "sleep"
      BY <1>1, <3>1 DEF Live, Free, CallsOK
    <3> QED BY <1>4, <2>1, <3>1, <3>2, SleepersStay
  <2>3. CASE ~finish[r].cut
    BY <1>5, <2>1, <2>3 DEF Answer
  <2> QED BY <2>2, <2>3
<1>11. ASSUME NEW r \in Requests, Cut(r)
       PROVE  HeldOrJudged' /\ SleepsWithoutHand'
  <2>1. UNCHANGED hand /\ app'.has = app.has /\ app'.on = {}
    BY <1>1, <1>11 DEF Cut, hostVars, CallsOK
  <2>2. Live' = {}
    BY <1>1, <2>1 DEF CallsOK
  <2> QED BY <1>4, <2>1, <2>2, SleepersStay
<1>12. CASE PostException \/ Relaunch
  <2>1. app'.has = Nothing
    BY <1>1, <1>12 DEF PostException, Relaunch, CallsOK
  <2> QED BY <1>5, <2>1
<1>13. CASE UNCHANGED <<hand, finish, app>>
  <2>1. UNCHANGED Live
    BY <1>13 DEF Live
  <2> QED BY <1>4, <1>13, <2>1 DEF SleepsWithoutHand
<1>14. \/ AddOutput \/ PostInspect \/ \E i \in Inputs : NewInput(i)
       \/ \E k \in 1 .. MaxInspects : PollInspect(k) \/ CutInspect(k)
       => UNCHANGED <<hand, finish, app>>
  BY DEF AddOutput, PostInspect, AddInspect, NewInput, AddInput, PollInspect, CutInspect, apiVars, hostVars
<1> QED BY <1>6, <1>7, <1>8, <1>9, <1>10, <1>11, <1>12, <1>13, <1>14 DEF APINext, Handler
-----------------------------------------------------------------------------
(* Every action keeps the clients of inspects well formed. *)
LEMMA ClientsStep ==
  ASSUME HostOK, ClientsOK, APINext
  PROVE  ClientsOK'
<1>1. ~PostInspect => Len(answers') = Len(answers)
  BY HostStep
<1>2. CASE PostInspect
  <2>1. /\ answers' = Append(answers, "unprocessed") /\ clients' = Append(clients, "waiting")
        /\ answers \in Seq(Statuses)
    BY <1>2 DEF PostInspect, AddInspect, HostOK
  <2> QED BY <2>1 DEF ClientsOK
<1>3. ASSUME NEW k \in 1 .. MaxInspects, PollInspect(k) \/ CutInspect(k)
      PROVE  clients' \in Seq({"waiting", "done"}) /\ Len(clients') = Len(clients) /\ ~PostInspect
  <2>1. clients' = [clients EXCEPT ![k] = "done"] /\ k \in DOMAIN clients
    BY <1>3 DEF PollInspect, CutInspect
  <2>2. clients' # Append(clients, "waiting")
    BY <2>1 DEF ClientsOK
  <2> QED BY <2>1, <2>2 DEF ClientsOK, PostInspect
<1>4. \/ \E r \in Requests : \/ \E accept \in Accepts : PostFinish(r, accept)
                            \/ Handler(r) \/ Cut(r)
      \/ AddOutput \/ PostException \/ Relaunch \/ \E i \in Inputs : NewInput(i)
      => UNCHANGED clients
  BY DEF PostFinish, Handler, Poll, PollFails, Wake, NoneAvailable, Leave, Cut, AddOutput,
         PostException, Relaunch, NewInput, apiVars
<1>5. CASE UNCHANGED clients /\ ~PostInspect
  BY <1>1, <1>5 DEF ClientsOK
<1>6. CASE \E k \in 1 .. MaxInspects : PollInspect(k) \/ CutInspect(k)
  BY <1>1, <1>3, <1>6 DEF ClientsOK
<1> QED BY <1>2, <1>4, <1>5, <1>6 DEF APINext

(* Requests in flight are finitely many, and so are those about to do harm. *)
LEMMA DoomedFinite == IsFiniteSet(Doomed) /\ Cardinality(Doomed) \in Nat
<1>1. Doomed \in SUBSET Requests /\ IsFiniteSet(Requests)
  BY RollupAPIAssumption DEF Doomed
<1> QED BY <1>1, FS_Subset, FS_CardinalityType

(* The polls of a request that was cut do their harm once. *)
LEMMA DoomedByHandler ==
  ASSUME CallsOK, NEW r \in Requests, Poll(r) \/ PollFails(r)
  PROVE  /\ finish[r].cut => Cardinality(Doomed') = Cardinality(Doomed) - 1 /\ Cardinality(Doomed) > 0
         /\ ~finish[r].cut => Doomed' = Doomed
<1>1. finish[r].at = "poll"
  BY DEF Poll, PollFails
<1>2. \/ finish' = [finish EXCEPT ![r].at = "sleep", ![r].left = @ - 1]
      \/ finish' = [finish EXCEPT ![r] = Free]
  BY DEF Poll, PollFails, Answer
<1>3. Doomed' = Doomed \ {r}
  <2>1. finish'[r].at # "poll" /\ \A q \in Requests \ {r} : finish'[q] = finish[q]
    BY <1>2 DEF Free, CallsOK
  <2> QED BY <2>1 DEF Doomed
<1>4. CASE finish[r].cut
  <2>1. r \in Doomed
    BY <1>1, <1>4 DEF Doomed
  <2>2. Cardinality(Doomed \ {r}) = Cardinality(Doomed) - 1
    BY <2>1, DoomedFinite, FS_RemoveElement
  <2>3. Cardinality(Doomed) # 0
    BY <2>1, DoomedFinite, FS_EmptySet
  <2> QED BY <1>3, <1>4, <2>2, <2>3, DoomedFinite
<1>5. CASE ~finish[r].cut
  BY <1>3, <1>5 DEF Doomed
<1> QED BY <1>4, <1>5

LEMMA DoomedByCut ==
  ASSUME CallsOK, NEW r \in Requests, finish' = [finish EXCEPT ![r].cut = TRUE]
  PROVE  Cardinality(Doomed') \in Nat /\ Cardinality(Doomed') <= Cardinality(Doomed) + 1
<1>1. Doomed' \in SUBSET (Doomed \cup {r})
  BY DEF Doomed, CallsOK
<1>2. /\ IsFiniteSet(Doomed \cup {r}) /\ Cardinality(Doomed \cup {r}) \in Nat
      /\ Cardinality(Doomed \cup {r}) <= Cardinality(Doomed) + 1
  <2>1. /\ IsFiniteSet(Doomed \cup {r})
        /\ Cardinality(Doomed \cup {r}) = IF r \in Doomed THEN Cardinality(Doomed) ELSE Cardinality(Doomed) + 1
    BY DoomedFinite, FS_AddElement
  <2> QED BY <2>1, DoomedFinite
<1>3. /\ Cardinality(Doomed') \in Nat
      /\ Cardinality(Doomed') <= Cardinality(Doomed \cup {r})
  <2>1. PICK more, all : more = Doomed' /\ all = Doomed \cup {r}
    OBVIOUS
  <2>2. IsFiniteSet(more) /\ Cardinality(more) <= Cardinality(all)
    BY <1>1, <1>2, <2>1, FS_Subset
  <2>3. Cardinality(more) \in Nat
    BY <2>2, FS_CardinalityType
  <2> QED BY <2>1, <2>2, <2>3
<1> QED BY <1>2, <1>3, DoomedFinite

(* No other action moves a request that was cut. *)
LEMMA DoomedOtherwise ==
  ASSUME CallsOK,
         \/ UNCHANGED finish
         \/ \E r \in Requests : \/ \E accept \in Accepts : PostFinish(r, accept)
                               \/ Wake(r) \/ NoneAvailable(r) \/ Leave(r)
  PROVE  Doomed' = Doomed
<1>1. CASE UNCHANGED finish
  BY <1>1 DEF Doomed
<1>2. ASSUME NEW r \in Requests, NEW accept \in Accepts, PostFinish(r, accept)
      PROVE  Doomed' = Doomed
  <2>1. /\ finish[r] = Free
        /\ finish' = [finish EXCEPT ![r] = [at |-> "poll", accept |-> accept, left |-> FinishRetries,
                                           cut |-> FALSE, about |-> app.has]]
    BY <1>2 DEF PostFinish
  <2>2. finish[r].cut = FALSE /\ finish'[r].cut = FALSE
    BY <2>1 DEF Free, CallsOK
  <2>3. \A q \in Requests \ {r} : finish'[q] = finish[q]
    BY <2>1 DEF CallsOK
  <2> QED BY <2>2, <2>3 DEF Doomed
<1>3. ASSUME NEW r \in Requests, Wake(r)
      PROVE  Doomed' = Doomed
  BY <1>3 DEF Wake, Doomed, CallsOK
<1>4. ASSUME NEW r \in Requests, NoneAvailable(r) \/ Leave(r)
      PROVE  Doomed' = Doomed
  BY <1>4 DEF NoneAvailable, Leave, Answer, Free, Doomed, CallsOK
<1> QED BY <1>1, <1>2, <1>3, <1>4
-----------------------------------------------------------------------------
(* What a verdict, or an output, adds to its history. *)
LEMMA AddedTo ==
  ASSUME NEW set, IsFiniteSet(set), NEW item, NEW spared, NEW after,
         after = IF item \in spared THEN set ELSE set \cup {item}
  PROVE  /\ IsFiniteSet(after) /\ Cardinality(after) \in Nat /\ Cardinality(set) \in Nat
         /\ item \in spared \cup after
         /\ Cardinality(after) <= Cardinality(set) + (IF item \in spared \cup set THEN 0 ELSE 1)
<1>1. Cardinality(set) \in Nat
  BY FS_CardinalityType
<1>2. CASE item \in spared
  BY <1>1, <1>2
<1>3. CASE item \notin spared
  <2>1. /\ IsFiniteSet(set \cup {item})
        /\ Cardinality(set \cup {item}) = IF item \in set THEN Cardinality(set) ELSE Cardinality(set) + 1
    BY FS_AddElement
  <2> QED BY <1>1, <1>3, <2>1
<1> QED BY <1>2, <1>3

LEMMA Noted ==
  ASSUME HistoryOK, HostOK, NEW about, NoteVerdict(about)
  PROVE  /\ foreign' \subseteq ItemsOf(Len(answers)) \ {Nothing} /\ IsFiniteSet(foreign')
         /\ Cardinality(foreign') \in Nat /\ Cardinality(foreign) \in Nat
         /\ Cardinality(foreign') <= Cardinality(foreign) + 1
         /\ about = app.has => /\ hand \in {Nothing, app.has} \cup foreign'
                              /\ Cardinality(foreign') <= Cardinality(foreign) + ToMisjudge
<1>1. foreign' = IF hand \in {Nothing, about} THEN foreign ELSE foreign \cup {hand}
  BY DEF NoteVerdict
<1>2. PICK before, after, item, spared :
        before = foreign /\ after = foreign' /\ item = hand /\ spared = {Nothing, about}
  OBVIOUS
<1>3. /\ IsFiniteSet(after) /\ Cardinality(after) \in Nat /\ Cardinality(before) \in Nat
      /\ item \in spared \cup after
      /\ Cardinality(after) <= Cardinality(before) + (IF item \in spared \cup before THEN 0 ELSE 1)
  <2>1. IsFiniteSet(before) /\ after = IF item \in spared THEN before ELSE before \cup {item}
    BY <1>1, <1>2 DEF HistoryOK
  <2> QED BY <2>1, AddedTo
<1>4. foreign' \subseteq ItemsOf(Len(answers)) \ {Nothing}
  BY <1>1 DEF HistoryOK, HostOK
<1> QED BY <1>2, <1>3, <1>4 DEF ToMisjudge

(* Every action keeps the history and the counters well formed. *)
LEMMA HistoryStep ==
  ASSUME TypesOK, APINext
  PROVE  HistoryOK'
<1>1. HostOK /\ CallsOK /\ HistoryOK /\ HostOK' /\ Len(answers) \in Nat /\ Len(answers') \in Nat
  BY HostStep DEF TypesOK, HostOK
<1>2. ItemsOf(Len(answers)) \subseteq ItemsOf(Len(answers'))
  <2>1. Len(answers) <= Len(answers')
    BY <1>1, HostStep DEF PostInspect, AddInspect, HostOK
  <2> QED BY <1>1, <2>1, MoreItems
<1>3. /\ foreign' \subseteq ItemsOf(Len(answers)) \ {Nothing} /\ IsFiniteSet(foreign')
  <2>1. CASE UNCHANGED foreign
    BY <1>1, <2>1 DEF HistoryOK
  <2>2. ASSUME NEW about, NoteVerdict(about)
        PROVE  foreign' \subseteq ItemsOf(Len(answers)) \ {Nothing} /\ IsFiniteSet(foreign')
    BY <1>1, <2>2, Noted
  <2>3. ASSUME NEW r \in Requests, Poll(r) \/ PollFails(r)
        PROVE  UNCHANGED foreign \/ NoteVerdict(finish[r].about)
    BY <2>3 DEF Poll, PollFails
  <2>4. PostException => NoteVerdict(app.has)
    BY DEF PostException
  <2>5. \/ \E r \in Requests : \/ \E accept \in Accepts : PostFinish(r, accept)
                              \/ Wake(r) \/ NoneAvailable(r) \/ Leave(r) \/ Cut(r)
        \/ AddOutput \/ Relaunch \/ PostInspect \/ \E i \in Inputs : NewInput(i)
        \/ \E k \in 1 .. MaxInspects : PollInspect(k) \/ CutInspect(k)
        => UNCHANGED foreign
    BY DEF PostFinish, Wake, NoneAvailable, Leave, Cut, AddOutput, Relaunch, PostInspect,
           NewInput, PollInspect, CutInspect, history
  <2>6. \A r \in Requests : Poll(r) \/ PollFails(r) =>
          foreign' \subseteq ItemsOf(Len(answers)) \ {Nothing} /\ IsFiniteSet(foreign')
    BY <2>1, <2>2, <2>3
  <2> QED BY <2>1, <2>2, <2>4, <2>5, <2>6 DEF APINext, Handler
<1>4. /\ tainted' \subseteq ItemsOf(Len(answers)) \ {Nothing} /\ IsFiniteSet(tainted')
  <2>1. CASE UNCHANGED tainted
    BY <1>1, <2>1 DEF HistoryOK
  <2>2. CASE AddOutput
    <3>1. tainted' = IF hand \in {Nothing, app.has} THEN tainted ELSE tainted \cup {hand}
      BY <2>2 DEF AddOutput
    <3>2. IsFiniteSet(tainted')
      BY <1>1, <3>1, FS_AddElement DEF HistoryOK
    <3> QED BY <1>1, <3>1, <3>2 DEF HistoryOK, HostOK
  <2>3. AddOutput \/ UNCHANGED tainted
    BY DEF APINext, Handler, Poll, PollFails, PostFinish, Wake, NoneAvailable, Leave, Cut, Relaunch,
           PostException, PostInspect, NewInput, PollInspect, CutInspect, history
  <2> QED BY <2>1, <2>2, <2>3
<1>5. cuts' \in Nat /\ relaunches' \in Nat /\ errors' \in Nat
  <2>1. Relaunch => cuts' \in Nat /\ relaunches' \in Nat /\ UNCHANGED errors
    <3>1. IsFiniteSet(app.on)
      BY <1>1, FS_Subset, RollupAPIAssumption DEF CallsOK
    <3>2. Cardinality(app.on) \in Nat
      BY <3>1, FS_CardinalityType
    <3> QED BY <1>1, <3>2 DEF Relaunch, HistoryOK
  <2>2. (\E r \in Requests : Cut(r)) => cuts' = cuts + 1 /\ UNCHANGED <<relaunches, errors>>
    BY DEF Cut
  <2>3. (\E r \in Requests : PollFails(r)) => errors' = errors + 1 /\ UNCHANGED <<cuts, relaunches>>
    BY DEF PollFails
  <2>4. \/ \E r \in Requests : \/ \E accept \in Accepts : PostFinish(r, accept)
                              \/ Poll(r) \/ Wake(r) \/ NoneAvailable(r) \/ Leave(r)
        \/ AddOutput \/ PostException \/ PostInspect \/ \E i \in Inputs : NewInput(i)
        \/ \E k \in 1 .. MaxInspects : PollInspect(k) \/ CutInspect(k)
        => UNCHANGED <<cuts, relaunches, errors>>
    BY DEF PostFinish, Poll, Wake, NoneAvailable, Leave, AddOutput, PostException, PostInspect,
           NewInput, PollInspect, CutInspect, counters
  <2> QED BY <1>1, <2>1, <2>2, <2>3, <2>4 DEF APINext, Handler, HistoryOK
<1> QED BY <1>2, <1>3, <1>4, <1>5 DEF HistoryOK
-----------------------------------------------------------------------------
(* The terms of the bounds are numbers. *)
LEMMA Terms ==
  ASSUME HistoryOK
  PROVE  /\ Cardinality(foreign) \in Nat /\ Cardinality(tainted) \in Nat
         /\ Cardinality(Doomed) \in Nat /\ cuts \in Nat /\ relaunches \in Nat
         /\ ToMisjudge \in {0, 1} /\ ToTaint \in {0, 1}
BY FS_CardinalityType, DoomedFinite DEF HistoryOK, ToMisjudge, ToTaint

(* A relaunch cuts the request that the application waits for, if any. *)
LEMMA DoomedByRelaunch ==
  ASSUME CallsOK, Relaunch
  PROVE  /\ Cardinality(app.on) \in Nat /\ Cardinality(Doomed') \in Nat
         /\ Cardinality(Doomed') <= Cardinality(Doomed) + Cardinality(app.on)
<1>1. finish' = [r \in Requests |-> IF r \in app.on THEN [finish[r] EXCEPT !.cut = TRUE] ELSE finish[r]]
  BY DEF Relaunch
<1>2. CASE app.on = {}
  <2>1. \A r \in Requests : finish'[r] = finish[r]
    BY <1>1, <1>2
  <2>2. Doomed' = Doomed
    BY <2>1 DEF Doomed
  <2>3. Cardinality(app.on) = 0
    BY <1>2, FS_EmptySet
  <2>4. PICK n \in Nat : n = Cardinality(Doomed)
    BY DoomedFinite
  <2>5. Cardinality(Doomed') = n
    BY <2>2, <2>4
  <2>6. PICK m \in Nat : m = Cardinality(app.on) /\ m = 0
    BY ONLY <2>3
  <2>7. PICK d : d = Cardinality(Doomed')
    OBVIOUS
  <2>8. d \in Nat /\ d <= n + m
    BY ONLY n \in Nat, <2>5, <2>6, <2>7
  <2> QED BY ONLY <2>4, <2>6, <2>7, <2>8
<1>3. ASSUME NEW r \in Requests, app.on = {r}
      PROVE  /\ Cardinality(app.on) \in Nat /\ Cardinality(Doomed') \in Nat
             /\ Cardinality(Doomed') <= Cardinality(Doomed) + Cardinality(app.on)
  <2>1. finish' = [finish EXCEPT ![r].cut = TRUE]
    BY <1>1, <1>3 DEF CallsOK
  <2>2. Cardinality(app.on) = 1
    BY <1>3, FS_Singleton
  <2>3. Cardinality(Doomed') \in Nat /\ Cardinality(Doomed') <= Cardinality(Doomed) + 1
    BY <2>1, DoomedByCut
  <2>4. PICK n, m, d : n = Cardinality(Doomed) /\ m = Cardinality(app.on) /\ d = Cardinality(Doomed')
    OBVIOUS
  <2>5. m = 1 /\ d \in Nat /\ d <= n + m
    BY ONLY <2>2, <2>3, <2>4
  <2>6. m \in Nat /\ d \in Nat /\ d <= n + m
    BY ONLY <2>5
  <2> QED BY ONLY <2>4, <2>6
<1> QED BY <1>2, <1>3 DEF CallsOK

(* Every action keeps the bound on what is misjudged. *)
LEMMA MisjudgedStep ==
  ASSUME TypesOK, SleepsWithoutHand, MisjudgedOrToCome, APINext
  PROVE  MisjudgedOrToCome'
<1>1. HostOK /\ CallsOK /\ HistoryOK /\ HistoryOK'
  BY HistoryStep DEF TypesOK
<1>2. /\ Cardinality(foreign) \in Nat /\ Cardinality(Doomed) \in Nat
      /\ cuts \in Nat /\ relaunches \in Nat /\ ToMisjudge \in {0, 1}
  BY <1>1, Terms
<1>3. Cardinality(foreign)' \in Nat /\ ToMisjudge' \in {0, 1}
  BY <1>1, FS_CardinalityType DEF HistoryOK, ToMisjudge
<1>4. Cardinality(foreign) + 2 * Cardinality(Doomed) + ToMisjudge <= 2 * cuts + relaunches
  BY DEF MisjudgedOrToCome
<1>5. ASSUME UNCHANGED <<foreign, cuts, relaunches>>, Doomed' = Doomed, ToMisjudge' = ToMisjudge
      PROVE  MisjudgedOrToCome'
  BY <1>5 DEF MisjudgedOrToCome
<1>6. ASSUME NEW r \in Requests, Poll(r) \/ PollFails(r), finish[r].cut
      PROVE  MisjudgedOrToCome'
  <2>1. Cardinality(Doomed)' = Cardinality(Doomed) - 1
    BY <1>1, <1>6, DoomedByHandler
  <2>2. Cardinality(foreign)' <= Cardinality(foreign) + 1
    <3>1. UNCHANGED foreign \/ NoteVerdict(finish[r].about)
      BY <1>6 DEF Poll, PollFails
    <3> QED BY <1>1, <1>2, <3>1, Noted
  <2>3. UNCHANGED <<cuts, relaunches>>
    BY <1>6 DEF Poll, PollFails, counters
  <2> QED BY <1>2, <1>3, <1>4, <2>1, <2>2, <2>3 DEF MisjudgedOrToCome
<1>7. ASSUME NEW r \in Requests, Poll(r) \/ PollFails(r), ~finish[r].cut
      PROVE  MisjudgedOrToCome'
  <2>1. finish[r].about = app.has /\ Doomed' = Doomed
    <3>1. r \in Live
      BY <1>7 DEF Live, Poll, PollFails
    <3> QED BY <1>1, <1>7, <3>1, TheOneItWaitsFor, DoomedByHandler
  <2>2. UNCHANGED <<cuts, relaunches>>
    BY <1>7 DEF Poll, PollFails, counters
  <2>3. CASE UNCHANGED <<hand, foreign>> /\ app'.has = app.has
    BY <1>5, <2>1, <2>2, <2>3 DEF ToMisjudge
  <2>4. CASE NoteVerdict(app.has) /\ hand' \in {Nothing, app'.has} \cup foreign'
    <3>1. Cardinality(foreign)' <= Cardinality(foreign) + ToMisjudge
      BY <1>1, <2>4, Noted
    <3>2. ToMisjudge' = 0
      BY <2>4 DEF ToMisjudge
    <3>3. Cardinality(Doomed)' = Cardinality(Doomed)
      BY <2>1
    <3> QED BY <1>2, <1>3, <1>4, <2>2, <3>1, <3>2, <3>3 DEF MisjudgedOrToCome
  <2>5. CASE Poll(r)
    <3>1. hand' \in {Nothing, app'.has}
      BY <1>7, <2>5 DEF Poll, Answer
    <3> QED BY <2>1, <2>4, <2>5, <3>1 DEF Poll
  <2>6. CASE PollFails(r)
    <3>1. UNCHANGED hand /\ app'.has = app.has
      BY <1>7, <2>6 DEF PollFails, Answer, Settle, hostVars
    <3>2. NoteVerdict(app.has) => hand \in {Nothing, app.has} \cup foreign'
      BY <1>1, Noted
    <3>3. UNCHANGED foreign \/ NoteVerdict(app.has)
      BY <2>1, <2>6 DEF PollFails
    <3> QED BY <2>3, <2>4, <3>1, <3>2, <3>3
  <2> QED BY <1>7, <2>5, <2>6
<1>8. ASSUME NEW r \in Requests, NoneAvailable(r) \/ Leave(r)
      PROVE  MisjudgedOrToCome'
  <2>1. /\ Doomed' = Doomed /\ UNCHANGED <<hand, foreign, cuts, relaunches>>
        /\ finish[r].at = "sleep" /\ Answer(r, Nothing)
    BY <1>1, <1>8, DoomedOtherwise DEF NoneAvailable, Leave, hostVars, history, counters
  <2>2. CASE finish[r].cut
    BY <1>5, <2>1, <2>2 DEF Answer, ToMisjudge
  <2>3. CASE ~finish[r].cut
    <3>1. r \in Live
      BY <2>1, <2>3 DEF Live
    <3>2. app.has = Nothing \/ app.has # hand
      BY <2>1, <3>1 DEF SleepsWithoutHand
    <3>3. app'.has = Nothing
      BY <2>1, <2>3 DEF Answer
    <3>4. ToMisjudge' = ToMisjudge
      BY <2>1, <3>2, <3>3 DEF ToMisjudge
    <3> QED BY <1>5, <2>1, <3>4
  <2> QED BY <2>2, <2>3
<1>9. ASSUME NEW r \in Requests, Cut(r)
      PROVE  MisjudgedOrToCome'
  <2>1. /\ cuts' = cuts + 1 /\ UNCHANGED <<hand, foreign, relaunches>>
        /\ finish' = [finish EXCEPT ![r].cut = TRUE] /\ app'.has = app.has
    BY <1>1, <1>9 DEF Cut, hostVars, history, CallsOK
  <2>2. Cardinality(Doomed)' \in Nat /\ Cardinality(Doomed)' <= Cardinality(Doomed) + 1
    BY <1>1, <2>1, DoomedByCut
  <2>3. ToMisjudge' = ToMisjudge /\ Cardinality(foreign)' = Cardinality(foreign)
    BY <2>1 DEF ToMisjudge
  <2> QED BY <1>2, <1>4, <2>1, <2>2, <2>3 DEF MisjudgedOrToCome
<1>10. CASE PostException
  <2>1. /\ NoteVerdict(app.has) /\ hand' = Nothing /\ UNCHANGED <<finish, cuts, relaunches>>
    BY <1>10 DEF PostException, counters
  <2>2. Cardinality(foreign)' <= Cardinality(foreign) + ToMisjudge
    BY <1>1, <2>1, Noted
  <2>3. ToMisjudge' = 0 /\ Doomed' = Doomed
    BY <1>1, <2>1, DoomedOtherwise DEF ToMisjudge
  <2>4. Cardinality(Doomed)' = Cardinality(Doomed)
    BY <2>3
  <2> QED BY <1>2, <1>3, <1>4, <2>1, <2>2, <2>3, <2>4 DEF MisjudgedOrToCome
<1>11. CASE Relaunch
  <2>1. /\ relaunches' = relaunches + 1 /\ cuts' = cuts + Cardinality(app.on)
        /\ Cardinality(foreign)' = Cardinality(foreign)
    BY <1>11 DEF Relaunch, history
  <2>2. /\ Cardinality(app.on) \in Nat /\ Cardinality(Doomed)' \in Nat
        /\ Cardinality(Doomed)' <= Cardinality(Doomed) + Cardinality(app.on)
    BY <1>1, <1>11, DoomedByRelaunch
  <2> QED BY <1>2, <1>3, <1>4, <2>1, <2>2 DEF MisjudgedOrToCome
<1>12. \/ \E r \in Requests : (\E accept \in Accepts : PostFinish(r, accept)) \/ Wake(r)
       \/ AddOutput \/ PostInspect \/ \E i \in Inputs : NewInput(i)
       \/ \E k \in 1 .. MaxInspects : PollInspect(k) \/ CutInspect(k)
       => UNCHANGED <<hand, foreign, cuts, relaunches>> /\ app'.has = app.has /\ Doomed' = Doomed
  <2>1. (\E r \in Requests : (\E accept \in Accepts : PostFinish(r, accept)) \/ Wake(r))
        => UNCHANGED <<hand, foreign, cuts, relaunches>> /\ app'.has = app.has
    BY <1>1 DEF PostFinish, Wake, hostVars, history, counters, CallsOK
  <2>2. \/ AddOutput \/ PostInspect \/ \E i \in Inputs : NewInput(i)
        \/ \E k \in 1 .. MaxInspects : PollInspect(k) \/ CutInspect(k)
        => UNCHANGED <<hand, foreign, cuts, relaunches, app, finish>>
    BY DEF AddOutput, PostInspect, AddInspect, NewInput, AddInput, PollInspect, CutInspect,
           apiVars, hostVars, history, counters
  <2> QED BY <1>1, <2>1, <2>2, DoomedOtherwise
<1>13. UNCHANGED <<hand, foreign>> /\ app'.has = app.has => ToMisjudge' = ToMisjudge
  BY DEF ToMisjudge
<1> QED BY <1>5, <1>6, <1>7, <1>8, <1>9, <1>10, <1>11, <1>12, <1>13 DEF APINext, Handler
(* Every action keeps the bound on what is credited wrong outputs. *)
LEMMA TaintedStep ==
  ASSUME TypesOK, TaintedOrToCome, APINext
  PROVE  TaintedOrToCome'
<1>1. HostOK /\ CallsOK /\ HistoryOK /\ HistoryOK'
  BY HistoryStep DEF TypesOK
<1>2. /\ Cardinality(tainted) \in Nat /\ Cardinality(Doomed) \in Nat
      /\ cuts \in Nat /\ ToTaint \in {0, 1}
  BY <1>1, Terms
<1>3. Cardinality(tainted)' \in Nat /\ ToTaint' \in {0, 1}
  BY <1>1, FS_CardinalityType DEF HistoryOK, ToTaint
<1>4. Cardinality(tainted) + Cardinality(Doomed) + ToTaint <= cuts
  BY DEF TaintedOrToCome
<1>5. ASSUME UNCHANGED <<tainted, cuts>>, Doomed' = Doomed, ToTaint' \in {0, ToTaint}
      PROVE  TaintedOrToCome'
  <2>1. Cardinality(tainted)' = Cardinality(tainted) /\ Cardinality(Doomed)' = Cardinality(Doomed)
    BY <1>5
  <2> QED BY <1>2, <1>4, <1>5, <2>1 DEF TaintedOrToCome
<1>6. /\ app'.has = Nothing => ToTaint' = 0
      /\ UNCHANGED <<hand, tainted>> /\ app'.has = app.has => ToTaint' = ToTaint
  BY DEF ToTaint
<1>7. ASSUME NEW r \in Requests, Poll(r) \/ PollFails(r), finish[r].cut
      PROVE  TaintedOrToCome'
  <2>1. Cardinality(Doomed)' = Cardinality(Doomed) - 1
    BY <1>1, <1>7, DoomedByHandler
  <2>2. UNCHANGED <<tainted, cuts>> /\ Cardinality(tainted)' = Cardinality(tainted)
    BY <1>7 DEF Poll, PollFails, counters
  <2> QED BY <1>2, <1>3, <1>4, <2>1, <2>2 DEF TaintedOrToCome
<1>8. ASSUME NEW r \in Requests, Poll(r) \/ PollFails(r), ~finish[r].cut
      PROVE  TaintedOrToCome'
  <2>1. Doomed' = Doomed /\ UNCHANGED <<tainted, cuts>>
    BY <1>1, <1>8, DoomedByHandler DEF Poll, PollFails, counters
  <2>2. CASE Poll(r)
    <3>1. hand' \in {Nothing, app'.has}
      BY <1>8, <2>2 DEF Poll, Answer
    <3>2. ToTaint' = 0
      BY <3>1 DEF ToTaint
    <3> QED BY <1>5, <2>1, <3>2
  <2>3. CASE PollFails(r)
    <3>1. UNCHANGED hand /\ app'.has = app.has
      BY <1>8, <2>3 DEF PollFails, Answer, Settle, hostVars
    <3> QED BY <1>5, <1>6, <2>1, <3>1
  <2> QED BY <1>8, <2>2, <2>3
<1>9. ASSUME NEW r \in Requests, NoneAvailable(r) \/ Leave(r)
      PROVE  TaintedOrToCome'
  <2>1. /\ Doomed' = Doomed /\ UNCHANGED <<hand, tainted, cuts>> /\ Answer(r, Nothing)
    BY <1>1, <1>9, DoomedOtherwise DEF NoneAvailable, Leave, hostVars, history, counters
  <2>2. app'.has \in {Nothing, app.has}
    BY <2>1 DEF Answer
  <2> QED BY <1>5, <1>6, <2>1, <2>2
<1>10. ASSUME NEW r \in Requests, Cut(r)
       PROVE  TaintedOrToCome'
  <2>1. /\ cuts' = cuts + 1 /\ UNCHANGED <<hand, tainted>>
        /\ finish' = [finish EXCEPT ![r].cut = TRUE] /\ app'.has = app.has
    BY <1>1, <1>10 DEF Cut, hostVars, history, CallsOK
  <2>2. Cardinality(Doomed)' \in Nat /\ Cardinality(Doomed)' <= Cardinality(Doomed) + 1
    BY <1>1, <2>1, DoomedByCut
  <2>3. ToTaint' = ToTaint /\ Cardinality(tainted)' = Cardinality(tainted)
    BY <1>6, <2>1
  <2> QED BY <1>2, <1>4, <2>1, <2>2, <2>3 DEF TaintedOrToCome
<1>11. CASE AddOutput
  <2>1. /\ app.has # Nothing /\ UNCHANGED <<hand, app, finish, cuts>>
        /\ tainted' = IF hand \in {Nothing, app.has} THEN tainted ELSE tainted \cup {hand}
    BY <1>11 DEF AddOutput, hostVars, apiVars, counters
  <2>2. PICK before, after, item, spared :
          before = tainted /\ after = tainted' /\ item = hand /\ spared = {Nothing, app.has}
    OBVIOUS
  <2>3. /\ item \in spared \cup after
        /\ Cardinality(after) <= Cardinality(before) + (IF item \in spared \cup before THEN 0 ELSE 1)
    <3>1. IsFiniteSet(before) /\ after = IF item \in spared THEN before ELSE before \cup {item}
      BY <1>1, <2>1, <2>2 DEF HistoryOK
    <3> QED BY <3>1, AddedTo
  <2>4. Cardinality(tainted)' <= Cardinality(tainted) + ToTaint /\ ToTaint' = 0
    BY <2>1, <2>2, <2>3 DEF ToTaint
  <2>5. Doomed' = Doomed
    BY <1>1, <2>1, DoomedOtherwise
  <2>6. Cardinality(Doomed)' = Cardinality(Doomed)
    BY <2>5
  <2> QED BY <1>2, <1>3, <1>4, <2>1, <2>4, <2>6 DEF TaintedOrToCome
<1>12. CASE PostException
  <2>1. app'.has = Nothing /\ UNCHANGED <<finish, tainted, cuts>>
    BY <1>1, <1>12 DEF PostException, counters, CallsOK
  <2>2. Doomed' = Doomed
    BY <1>1, <2>1, DoomedOtherwise
  <2> QED BY <1>5, <1>6, <2>1, <2>2
<1>13. CASE Relaunch
  <2>1. /\ cuts' = cuts + Cardinality(app.on) /\ app'.has = Nothing
        /\ Cardinality(tainted)' = Cardinality(tainted)
    BY <1>13 DEF Relaunch, history
  <2>2. /\ Cardinality(app.on) \in Nat /\ Cardinality(Doomed)' \in Nat
        /\ Cardinality(Doomed)' <= Cardinality(Doomed) + Cardinality(app.on)
    BY <1>1, <1>13, DoomedByRelaunch
  <2> QED BY <1>2, <1>3, <1>4, <1>6, <2>1, <2>2 DEF TaintedOrToCome
<1>14. \/ \E r \in Requests : (\E accept \in Accepts : PostFinish(r, accept)) \/ Wake(r)
       \/ PostInspect \/ \E i \in Inputs : NewInput(i)
       \/ \E k \in 1 .. MaxInspects : PollInspect(k) \/ CutInspect(k)
       => UNCHANGED <<hand, tainted, cuts>> /\ app'.has = app.has /\ Doomed' = Doomed
  <2>1. (\E r \in Requests : (\E accept \in Accepts : PostFinish(r, accept)) \/ Wake(r))
        => UNCHANGED <<hand, tainted, cuts>> /\ app'.has = app.has
    BY <1>1 DEF PostFinish, Wake, hostVars, history, counters, CallsOK
  <2>2. \/ PostInspect \/ \E i \in Inputs : NewInput(i)
        \/ \E k \in 1 .. MaxInspects : PollInspect(k) \/ CutInspect(k)
        => UNCHANGED <<hand, tainted, cuts, app, finish>>
    BY DEF PostInspect, AddInspect, NewInput, AddInput, PollInspect, CutInspect,
           apiVars, hostVars, history, counters
  <2> QED BY <1>1, <2>1, <2>2, DoomedOtherwise
<1> QED BY <1>5, <1>6, <1>7, <1>8, <1>9, <1>10, <1>11, <1>12, <1>13, <1>14 DEF APINext, Handler

-----------------------------------------------------------------------------
(* The invariant holds before anybody calls. *)
LEMMA InitInvariant == APIInit => IInv
<1> SUFFICES ASSUME APIInit PROVE IInv
  OBVIOUS
<1>1. /\ status = [i \in Inputs |-> "absent"] /\ answers = <<>> /\ hand = Nothing
      /\ finish = [r \in Requests |-> Free] /\ app = [at |-> "work", has |-> Nothing, on |-> {}]
      /\ clients = <<>> /\ foreign = {} /\ tainted = {}
      /\ cuts = 0 /\ relaunches = 0 /\ errors = 0
  BY DEF APIInit, Init
<1>2. Nothing \in ItemsOf(Len(answers)) /\ Len(answers) = 0
  BY <1>1 DEF ItemsOf
<1>3. HostOK
  BY <1>1, <1>2 DEF HostOK
<1>4. Live = {} /\ Doomed = {}
  BY <1>1 DEF Live, Doomed, Free
<1>5. CallsOK
  <2>1. \A r \in Requests : finish[r] = Free /\ Free.at # "poll"
    BY <1>1 DEF Free
  <2>2. Free \in [at : {"free", "poll", "sleep"}, accept : BOOLEAN, left : 0 .. FinishRetries,
                  cut : BOOLEAN, about : ItemsOf(Len(answers))]
    BY <1>2, FreeType
  <2> QED BY <1>1, <1>2, <1>4, <2>1, <2>2 DEF CallsOK
<1>6. ClientsOK
  BY <1>1 DEF ClientsOK
<1>7. HistoryOK
  BY <1>1, FS_EmptySet DEF HistoryOK
<1>8. HeldOrJudged /\ SleepsWithoutHand
  BY <1>1, <1>4 DEF HeldOrJudged, SleepsWithoutHand
<1>9. Cardinality(foreign) = 0 /\ Cardinality(tainted) = 0 /\ Cardinality(Doomed) = 0
  BY <1>1, <1>4, FS_EmptySet
<1>10. ToMisjudge = 0 /\ ToTaint = 0
  BY <1>1 DEF ToMisjudge, ToTaint
<1>11. MisjudgedOrToCome /\ TaintedOrToCome
  BY <1>1, <1>9, <1>10 DEF MisjudgedOrToCome, TaintedOrToCome
<1> QED BY <1>3, <1>5, <1>6, <1>7, <1>8, <1>11 DEF IInv, TypesOK

(* A step of a handler, the application or a client keeps it. *)
LEMMA StepInvariant == IInv /\ [APINext]_vars => IInv'
<1> SUFFICES ASSUME IInv, [APINext]_vars PROVE IInv'
  OBVIOUS
<1>1. CASE APINext
  <2>1. TypesOK'
    BY <1>1, HostStep, CallsStep, ClientsStep, HistoryStep DEF IInv, TypesOK
  <2>2. HeldOrJudged' /\ SleepsWithoutHand'
    BY <1>1, HeldStep DEF IInv
  <2>3. MisjudgedOrToCome' /\ TaintedOrToCome'
    BY <1>1, MisjudgedStep, TaintedStep DEF IInv
  <2> QED BY <2>1, <2>2, <2>3 DEF IInv
<1>2. CASE UNCHANGED vars
  <2>1. UNCHANGED <<status, answers, hand, finish, app, clients, foreign, tainted, cuts, relaunches, errors>>
    BY <1>2 DEF vars, hostVars, apiVars, history, counters
  <2>2. TypesOK'
    BY <2>1 DEF IInv, TypesOK, HostOK, CallsOK, Live, ClientsOK, HistoryOK
  <2>3. HeldOrJudged' /\ SleepsWithoutHand'
    BY <2>1 DEF IInv, HeldOrJudged, Judged, SleepsWithoutHand, Live
  <2>4. UNCHANGED <<Doomed, ToMisjudge, ToTaint>>
    BY <2>1 DEF Doomed, ToMisjudge, ToTaint
  <2>5. MisjudgedOrToCome' /\ TaintedOrToCome'
    BY <2>1, <2>4 DEF IInv, MisjudgedOrToCome, TaintedOrToCome
  <2> QED BY <2>2, <2>3, <2>5 DEF IInv
<1> QED BY <1>1, <1>2

(* Every reachable state satisfies the inductive invariant. *)
THEOREM APIInvariant == APISpec => []IInv
BY InitInvariant, StepInvariant, PTL DEF APISpec

(* Requests, application, inspects and host are always well formed. *)
THEOREM APITypeCorrect == APISpec => []APITypeOK
<1>1. IInv => APITypeOK
  BY DEF IInv, TypesOK, HostOK, CallsOK, Live, ClientsOK, HistoryOK, APITypeOK, Items, ItemsOf
<1> QED BY <1>1, APIInvariant, PTL

(***************************************************************************)
(* However requests, failures and relaunches of the application interleave *)
(* a cut request ends at most two things with a verdict that was not about *)
(* them, and a relaunch one.                                               *)
(***************************************************************************)
THEOREM MisjudgedIsBounded == APISpec => []MisjudgedBounded
<1>1. IInv => MisjudgedBounded
  BY Terms DEF IInv, TypesOK, MisjudgedOrToCome, MisjudgedBounded
<1> QED BY <1>1, APIInvariant, PTL

(***************************************************************************)
(* Nothing but a cut request makes outputs be credited to something else   *)
(* than what they were emitted for, and each does so once: relaunches of   *)
(* the application, failed polls and further requests do not.              *)
(***************************************************************************)
THEOREM TaintedIsBounded == APISpec => []TaintedBounded
<1>1. IInv => TaintedBounded
  BY Terms DEF IInv, TypesOK, TaintedOrToCome, TaintedBounded
<1> QED BY <1>1, APIInvariant, PTL
=============================================================================
