----------------------------- MODULE RollupAPI -----------------------------
(***************************************************************************)
(* The rollup and inspect HTTP APIs over RollupsHost, with the application *)
(* and the clients of inspects.  POST /finish polls the model until there  *)
(* is something to hand out; a request whose connection is gone, or that   *)
(* the timeout middleware answered, may still be about to poll once more,  *)
(* while the application calls finish again or is launched again; and an   *)
(* inspect outlives the request that asked for it.                         *)
(*                                                                         *)
(* The mutex makes a call of the model one step.  What an output contains  *)
(* and how it is stored is NonodoModel's matter, as is a host that stops.  *)
(* Requests refused for their form change nothing and are left out.        *)
(***************************************************************************)
EXTENDS RollupsHost, FiniteSets

CONSTANTS
  Requests,      \* finish requests in flight at a time
  Accepts,       \* what the application says of what it has: TRUE is accept
  FinishRetries, \* polls of a finish request
  MaxInspects,   \* bound: inspects requested
  MaxCuts,       \* bound: finish requests cut from the application
  MaxRelaunches, \* bound: times the application is launched again
  MaxErrors      \* bound: polls that fail in the database

ASSUME RollupAPIAssumption ==
  /\ Inputs \subseteq Nat
  /\ IsFiniteSet(Requests)
  /\ Accepts \subseteq BOOLEAN
  /\ FinishRetries \in Nat \ {0}
  /\ {MaxInspects, MaxCuts, MaxRelaunches, MaxErrors} \subseteq Nat

VARIABLES
  finish,     \* the finish requests: where each is, and what it is about
  app,        \* the application: what it has in work, the request it waits for
  clients,    \* the request behind each inspect
  foreign,    \* history: what got a verdict that was about something else
  tainted,    \* history: what was credited the outputs of something else
  cuts, relaunches, errors  \* how many of each so far

apiVars == <<finish, app, clients>>
history == <<foreign, tainted>>
counters == <<cuts, relaunches, errors>>
vars == <<hostVars, apiVars, history, counters>>

Free == [at |-> "free", accept |-> TRUE, left |-> 0, cut |-> FALSE, about |-> Nothing]

APIInit ==
  /\ Init
  /\ finish = [r \in Requests |-> Free]
  /\ app = [at |-> "work", has |-> Nothing, on |-> {}]
  /\ clients = <<>>
  /\ foreign = {} /\ tainted = {}
  /\ cuts = 0 /\ relaunches = 0 /\ errors = 0

-----------------------------------------------------------------------------
(* The application asks for more, with its verdict on what it has; without *)
(* anything, or after a 202, any status will do.                           *)
PostFinish(r, accept) ==
  /\ app.at = "work"
  /\ r = CHOOSE free \in Requests : finish[free] = Free
  /\ finish[r] = Free
  /\ finish' = [finish EXCEPT ![r] =
       [at |-> "poll", accept |-> accept, left |-> FinishRetries, cut |-> FALSE, about |-> app.has]]
  /\ app' = [app EXCEPT !.at = "wait", !.on = {r}]
  /\ UNCHANGED <<hostVars, clients, history, counters>>

Verdict(r) == IF finish[r].accept THEN "accepted" ELSE "rejected"

(* The status is taken for whatever is in hand. *)
NoteVerdict(about) ==
  foreign' = IF hand \in {Nothing, about} THEN foreign ELSE foreign \cup {hand}

(* Mutant of Answer: when nobody read the answer the loop goes on. *)
AnswerGoesOn(r, has) ==
  /\ finish' = [finish EXCEPT ![r] = IF @.cut THEN @ ELSE Free]
  /\ app' = IF finish[r].cut THEN app ELSE [at |-> "work", has |-> has, on |-> {}]

(* The request is answered; nobody reads the answer if it was cut. *)
Answer(r, has) ==
  /\ finish' = [finish EXCEPT ![r] = Free]
  /\ app' = IF finish[r].cut THEN app ELSE [at |-> "work", has |-> has, on |-> {}]

(* Mutant of Poll: the turns are not counted. *)
PollUncounted(r) ==
  /\ finish[r].at = "poll"
  /\ NoteVerdict(finish[r].about)
  /\ status' = StatusAfter(Verdict(r))
  /\ answers' = AnswersAfter(Verdict(r))
  /\ hand' \in NextInLine(status', answers')
  /\ IF hand' = Nothing
     THEN finish' = [finish EXCEPT ![r].at = "sleep"] /\ UNCHANGED app
     ELSE Answer(r, hand')
  /\ UNCHANGED <<clients, tainted, counters>>

(* One turn of the loop of Finish: FinishAndGetNext, and then an answer,   *)
(* or the wait for FinishPollInterval.  The node is one with a sequencer   *)
(* (with --disable-advance every finish is a 500 that changes nothing) and *)
(* what it hands out is one of the two types that convertInput knows.      *)
Poll(r) ==
  /\ finish[r].at = "poll"
  /\ NoteVerdict(finish[r].about)
  /\ status' = StatusAfter(Verdict(r))
  /\ answers' = AnswersAfter(Verdict(r))
  /\ hand' \in NextInLine(status', answers')
  /\ IF hand' = Nothing
     THEN /\ finish' = [finish EXCEPT ![r].at = "sleep", ![r].left = @ - 1]
          /\ UNCHANGED app
     ELSE Answer(r, hand')
  /\ UNCHANGED <<clients, tainted, counters>>

(* The poll fails before the verdict is recorded or after it; 500. *)
PollFails(r) ==
  /\ errors < MaxErrors
  /\ finish[r].at = "poll"
  /\ \/ UNCHANGED <<hostVars, foreign>>
     \/ Settle(Verdict(r)) /\ NoteVerdict(finish[r].about)
  /\ Answer(r, app.has)
  /\ errors' = errors + 1
  /\ UNCHANGED <<clients, tainted, cuts, relaunches>>

(* Mutant of Wake: one turn too many. *)
WakeOnceMore(r) ==
  /\ finish[r].at = "sleep" /\ ~finish[r].cut
  /\ finish' = [finish EXCEPT ![r].at = "poll"]
  /\ UNCHANGED <<hostVars, app, clients, history, counters>>

(* Mutant of Wake: it does not look at the request's context. *)
WakeBlind(r) ==
  /\ finish[r].at = "sleep" /\ finish[r].left > 0
  /\ finish' = [finish EXCEPT ![r].at = "poll"]
  /\ UNCHANGED <<hostVars, app, clients, history, counters>>

(* The select: the interval is over and there is another turn ...  A       *)
(* handler that waits in the select takes what comes first; a context that *)
(* was done before it got there finds the interval only beginning.         *)
Wake(r) ==
  /\ finish[r].at = "sleep" /\ finish[r].left > 0 /\ ~finish[r].cut
  /\ finish' = [finish EXCEPT ![r].at = "poll"]
  /\ UNCHANGED <<hostVars, app, clients, history, counters>>

(* ... or there is none: 202 ... *)
NoneAvailable(r) ==
  /\ finish[r].at = "sleep" /\ finish[r].left = 0
  /\ Answer(r, Nothing)
  /\ UNCHANGED <<hostVars, clients, history, counters>>

(* ... or the context is done. *)
Leave(r) ==
  /\ finish[r].at = "sleep" /\ finish[r].cut
  /\ Answer(r, Nothing)
  /\ UNCHANGED <<hostVars, clients, history, counters>>

(* The connection breaks, or the middleware answers 503: the application   *)
(* will call again with the same status, the handler runs on.              *)
Cut(r) ==
  /\ cuts < MaxCuts
  /\ app.on = {r}
  /\ cuts' = cuts + 1
  /\ finish' = [finish EXCEPT ![r].cut = TRUE]
  /\ app' = [app EXCEPT !.at = "work", !.on = {}]
  /\ UNCHANGED <<hostVars, clients, history, relaunches, errors>>

-----------------------------------------------------------------------------
(* AddVoucher, AddNotice and AddReport: refused unless an advance, or for  *)
(* a report an inspect, is in hand; credited to what is.                   *)
AddOutput ==
  /\ app.at = "work" /\ app.has # Nothing
  /\ tainted' = IF hand \in {Nothing, app.has} THEN tainted ELSE tainted \cup {hand}
  /\ UNCHANGED <<hostVars, apiVars, foreign, counters>>

(* POST /exception: refused in the idle state. *)
PostException ==
  /\ app.at = "work" /\ app.has # Nothing
  /\ hand # Nothing
  /\ NoteVerdict(app.has)
  /\ status' = StatusAfter("exception")
  /\ answers' = AnswersAfter("exception")
  /\ hand' = Nothing
  /\ app' = [app EXCEPT !.has = Nothing]
  /\ UNCHANGED <<finish, clients, tainted, counters>>

(* The application stops and is launched again; its connection breaks. *)
Relaunch ==
  /\ relaunches < MaxRelaunches
  /\ cuts + Cardinality(app.on) <= MaxCuts
  /\ relaunches' = relaunches + 1
  /\ cuts' = cuts + Cardinality(app.on)
  /\ finish' = [r \in Requests |-> IF r \in app.on THEN [finish[r] EXCEPT !.cut = TRUE] ELSE finish[r]]
  /\ app' = [at |-> "work", has |-> Nothing, on |-> {}]
  /\ UNCHANGED <<hostVars, clients, history, errors>>

-----------------------------------------------------------------------------
(* The inputter adds an input. *)
NewInput(i) ==
  /\ AddInput(i)
  /\ UNCHANGED <<apiVars, history, counters>>

(* inspect: AddInspectInput ... *)
PostInspect ==
  /\ Len(clients) < MaxInspects
  /\ AddInspect
  /\ clients' = Append(clients, "waiting")
  /\ UNCHANGED <<finish, app, history, counters>>

(* ... then GetInspectInput until it has a verdict ... *)
PollInspect(k) ==
  /\ k \in DOMAIN clients /\ clients[k] = "waiting"
  /\ answers[k] # "unprocessed"
  /\ clients' = [clients EXCEPT ![k] = "done"]
  /\ UNCHANGED <<hostVars, finish, app, history, counters>>

(* ... or until the context is done; the inspect stays in the model. *)
CutInspect(k) ==
  /\ k \in DOMAIN clients /\ clients[k] = "waiting"
  /\ clients' = [clients EXCEPT ![k] = "done"]
  /\ UNCHANGED <<hostVars, finish, app, history, counters>>

Handler(r) == Poll(r) \/ PollFails(r) \/ Wake(r) \/ NoneAvailable(r) \/ Leave(r)

APINext ==
  \/ \E r \in Requests : \/ \E accept \in Accepts : PostFinish(r, accept)
                         \/ Handler(r)
                         \/ Cut(r)
  \/ AddOutput
  \/ PostException
  \/ Relaunch
  \/ \E i \in Inputs : NewInput(i)
  \/ PostInspect
  \/ \E k \in 1 .. MaxInspects : PollInspect(k) \/ CutInspect(k)

APISpec == APIInit /\ [][APINext]_vars

(* Handlers run on; the application, again and again, calls finish. *)
FairAPISpec ==
  /\ APISpec
  /\ \A r \in Requests : WF_vars(Handler(r))
  /\ \A k \in 1 .. MaxInspects : WF_vars(PollInspect(k))
  /\ WF_vars(\E r \in Requests, accept \in Accepts : PostFinish(r, accept))

-----------------------------------------------------------------------------
(* The requests, the application and the inspects are well formed: the     *)
(* application waits for the one request that is not cut, and that request *)
(* is about what the application has in work.                              *)
Items == {Nothing} \cup {Item("advance", i) : i \in Inputs} \cup {Item("inspect", k) : k \in 1 .. Len(answers)}

Statuses == Verdicts \cup {"unprocessed"}

APITypeOK ==
  /\ status \in [Inputs -> Statuses \cup {"absent"}]
  /\ answers \in Seq(Statuses)
  /\ hand \in Items
  /\ finish \in [Requests -> [at : {"free", "poll", "sleep"}, accept : BOOLEAN,
                              left : 0 .. FinishRetries, cut : BOOLEAN, about : Items]]
  /\ app \in [at : {"work", "wait"}, has : Items, on : SUBSET Requests]
  /\ app.on = {r \in Requests : finish[r].at # "free" /\ ~finish[r].cut}
  /\ IF app.at = "wait" THEN \E r \in Requests : app.on = {r} /\ finish[r].about = app.has
                        ELSE app.on = {}
  /\ Len(clients) = Len(answers)
  /\ clients \in Seq({"waiting", "done"})
  /\ foreign \subseteq Items \ {Nothing} /\ tainted \subseteq Items \ {Nothing}
  /\ cuts \in Nat /\ relaunches \in Nat /\ errors \in Nat

(***************************************************************************)
(* A verdict meant for one thing is recorded for another only after a cut  *)
(* request or a relaunch, and each of these does bounded harm: a cut       *)
(* request polls at most once more, which ends what the application is at  *)
(* work on and takes the next thing away from it; a relaunched application *)
(* decides with its first finish what the one before it had in hand.       *)
(***************************************************************************)
MisjudgedBounded == Cardinality(foreign) <= 2 * cuts + relaunches

(***************************************************************************)
(* Outputs are credited to another input or inspect than the one that the  *)
(* application emits them for only when a cut request took it away, which  *)
(* it does once: restarts of the application do not mix up outputs.        *)
(***************************************************************************)
TaintedBounded == Cardinality(tainted) <= cuts

(***************************************************************************)
(* A call of finish returns, with a request or with 202 or with an error,  *)
(* so that the application comes to call it again.                         *)
(***************************************************************************)
FinishReturns == app.at = "wait" ~> app.at = "work"

(***************************************************************************)
(* Every input added gets a verdict, although requests that were cut poll  *)
(* too and take inputs that nobody reads, and inspects go first.           *)
(***************************************************************************)
InputsGetVerdicts ==
  \A i \in Inputs : status[i] = "unprocessed" ~> status[i] \in Verdicts

(***************************************************************************)
(* The client of every inspect that does not leave gets its answer, though *)
(* the inspects of those who left are served before it.                    *)
(***************************************************************************)
InspectsReturn ==
  \A k \in 1 .. MaxInspects :
    (k \in DOMAIN clients /\ clients[k] = "waiting") ~>
      (k \in DOMAIN clients /\ clients[k] = "done")
=============================================================================
