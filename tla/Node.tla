-------------------------------- MODULE Node --------------------------------
(***************************************************************************)
(* The process: a supervisor with the workers that the options name.  The  *)
(* host of an application has an Inputter among them, the GraphQL server   *)
(* of a v1 node a Synchronizer; they share the context, which the exit of  *)
(* any worker, a slow start or a signal cancels, and the process runs      *)
(* again on the same database.  Servers, commands and the listener are no  *)
(* more than their handshakes and their exit.                              *)
(***************************************************************************)
EXTENDS Inputter, Sequences

CONSTANTS
  Deployments,  \* the lists of workers that the options lead to
  Feed,         \* the outputs that the v1 node will ever serve
  BatchSize,    \* outputs in a page of them
  Undecodable   \* those that the decoder refuses

VARIABLES
  kinds, main, launched, place, readied, result,            \* the supervisor
  served, at, cursorAfter, page, done, notices, saved,      \* the synchronizer
  step, config, exec, torn                                  \* the release of anvil

Sup == INSTANCE Supervisor
Sync == INSTANCE Synchronizer
Release == INSTANCE AnvilRelease

ASSUME NodeAssumption ==
  /\ Deployments \subseteq Seq(Sup!Kinds)
  /\ \A list \in Deployments : \A v, w \in DOMAIN list :
       list[v] = list[w] /\ list[v] \in {"inputter", "synchronizer"} => v = w
  /\ Feed \in Seq(Sync!Row)
  /\ BatchSize \in Nat \ {0}

supVars == <<kinds, main, launched, place, readied, result>>
syncVars == <<served, at, cursorAfter, page, done, notices, saved>>
releaseVars == <<step, config, exec, torn>>
inputterVars == <<head, pc, currentBlock, logs, added, unseen, gap, faults, crashes>>
nodeVars == <<vars, supVars, syncVars, releaseVars>>

(* The workers of a kind that this process has. *)
Of(kind) == {w \in Sup!Workers : kinds[w] = kind}

NodeInit == Init /\ Sup!Init /\ Sync!Init /\ Release!Init

-----------------------------------------------------------------------------
(* The rest of the world: as far as a worker of this process looks at it. *)
World ==
  \/ Of("inputter") # {} /\ Mine /\ UNCHANGED <<supVars, syncVars>>
  \/ Of("synchronizer") # {} /\ Sync!Serve /\ UNCHANGED <<vars, supVars>>

(* A node with a chain of its own installs anvil before it supervises; the *)
(* context of the signals is not the one of the installation.              *)
Install ==
  /\ Of("server") # {}
  /\ Release!Install \/ Release!Fails
  /\ UNCHANGED <<vars, supVars, syncVars>>

Supervise ==
  /\ Of("server") # {} => step = "ready"
  /\ Sup!Supervise
  /\ UNCHANGED <<inputterVars, syncVars>>

(* The inputter offers its message when it has its connection.  (Whatever  *)
(* anvil was installed, any process may answer on its port.)               *)
Starts(w) ==
  \/ kinds[w] # "inputter" /\ Sup!Progress(w) /\ UNCHANGED <<inputterVars, syncVars>>
  \/ /\ kinds[w] = "inputter" /\ place[w] = "starting"
     /\ Dial
     /\ IF pc' = "ended" THEN UNCHANGED supVars ELSE Sup!Offer(w)
     /\ UNCHANGED syncVars

(* Mutant of Running: a worker does not wait for its message to be taken. *)
RunningUnready(w) == place[w] \in {"offering", "running"}

Running(w) == place[w] = "running"

InputterSteps(w) ==
  /\ kinds[w] = "inputter" /\ Running(w)
  /\ Step
  /\ UNCHANGED <<supVars, syncVars>>

(* A statement fails when the context is cancelled, and may fail by itself. *)
SyncPolls == Sync!Poll \/ (~cancelled /\ Sync!Store)

SynchronizerSteps(w) ==
  /\ kinds[w] = "synchronizer" /\ Running(w)
  /\ \/ SyncPolls
     \/ Sync!Fails \/ Sync!FetchFails \/ (cancelled /\ Sync!Leave)
  /\ UNCHANGED <<vars, supVars>>

(* Start of the two workers that are modelled returns where they end. *)
Exits(w) ==
  /\ kinds[w] = "inputter" => pc = "ended"
  /\ kinds[w] = "synchronizer" => at = "ended"
  /\ Sup!Exit(w)
  /\ UNCHANGED <<inputterVars, syncVars>>

Signal == Cancel /\ UNCHANGED <<supVars, syncVars>>

Restart == Crash /\ Sup!Restart /\ Sync!Restart /\ Release!Restart

(* The process exits with an error of the supervisor at once. *)
Alive == result # "timeout"

Activity ==
  \/ World
  \/ Supervise
  \/ Alive /\ \E w \in Sup!Workers :
       Starts(w) \/ InputterSteps(w) \/ SynchronizerSteps(w) \/ Exits(w)
  \/ Signal

NodeNext == Install \/ (Activity /\ UNCHANGED releaseVars) \/ Restart

NodeSpec == NodeInit /\ [][NodeNext]_nodeVars

(***************************************************************************)
(* Timers fire, requests end and do not fail for ever, what Start returns  *)
(* is seen; the port that anvil is to open may never open, and a server    *)
(* may never exit.                                                         *)
(***************************************************************************)
Work ==
  /\ Alive
  /\ \E w \in Of("inputter") \cup Of("synchronizer") :
       Starts(w) \/ InputterSteps(w) \/ SynchronizerSteps(w) \/ Exits(w)
  /\ UNCHANGED releaseVars

Fetch ==
  /\ Alive
  /\ \E w \in Of("synchronizer") : Running(w) /\ Sync!Fetch
  /\ UNCHANGED <<vars, supVars, releaseVars>>

FairNodeSpec ==
  /\ NodeSpec
  /\ WF_nodeVars(Supervise /\ UNCHANGED releaseVars)
  /\ WF_nodeVars(Work)
  /\ SF_nodeVars(Fetch)

-----------------------------------------------------------------------------
(***************************************************************************)
(* The parts of the node are well formed, and each worker that is modelled *)
(* is where the supervisor sees it: it does nothing before its message is  *)
(* taken, and nothing after it returned.                                   *)
(***************************************************************************)
NodeTypeOK ==
  /\ TypeOK /\ Sup!TypeOK /\ Sync!TypeOK /\ Release!TypeOK
  /\ \A w \in Of("inputter") :
       /\ place[w] \in {"none", "starting"} => pc \in {"dial", "ended"}
       /\ place[w] = "offering" => pc = "read"
       /\ Sup!Exited(w) => pc = "ended"
  /\ \A w \in Of("synchronizer") :
       /\ place[w] \in {"none", "starting", "offering"} => at = "load"
       /\ Sup!Exited(w) => at = "ended"

(***************************************************************************)
(* A worker is started only after every one before it said it was ready    *)
(* (see Supervisor), whatever fails, is late or is cancelled meanwhile.    *)
(***************************************************************************)
StartsInOrder == Sup!StartsInOrder

(***************************************************************************)
(* A worker blocks for ever on its ready channel only in a node that is    *)
(* stopping (see Supervisor).                                              *)
(***************************************************************************)
NotLeftHanging == Sup!NotLeftHanging

(***************************************************************************)
(* "When a worker exits, send a cancel signal to all of them and wait for  *)
(* them to finish" (SupervisorWorker): the exit of any worker, at any time *)
(* of the start or after it, and a signal make the supervisor return, and  *)
(* a worker that never becomes ready or never ends cannot hold it up.      *)
(***************************************************************************)
Restarted == launched = 0

ShutsDown ==
  (cancelled \/ \E w \in Sup!Workers : Sup!Exited(w)) ~> (main = "returned" \/ Restarted)

(***************************************************************************)
(* The first output of every input before the saved cursor is stored (see  *)
(* Synchronizer), however often errors, signals and crashes end the        *)
(* process between two rows.                                               *)
(***************************************************************************)
NothingSkipped == Sync!NothingSkipped

(***************************************************************************)
(* The synchronizer does not get past an output that the decoder refuses   *)
(* (see Synchronizer), at this start or any later one.                     *)
(***************************************************************************)
NeverPastUndecodable == Sync!NeverPastUndecodable

(***************************************************************************)
(* The anvil that the supervisor is given is whole, unless an earlier      *)
(* process ended in the middle of writing (see AnvilRelease).              *)
(***************************************************************************)
WholeUnlessTorn == Release!WholeUnlessTorn

(***************************************************************************)
(* An input that is mined is added in the end, if the node is left to run, *)
(* or else was mined in the gap.                                           *)
(***************************************************************************)
InputsArrive ==
  \A i \in Inputs : i \in Mined ~> (i \in added \cup gap \/ cancelled \/ pc = "ended")

(***************************************************************************)
(* The cursor gets to every output that the v1 node serves, if the process *)
(* is left to run, through requests that fail and pages that are empty.    *)
(***************************************************************************)
CatchesUp ==
  \A k \in 1 .. Len(Feed) : served >= k ~> (saved >= k \/ cancelled \/ at = "ended")
=============================================================================
