----------------------------- MODULE Node_proofs -----------------------------
(***************************************************************************)
(* Proofs about Node.  Each of its parts runs its own specification in the *)
(* node, so what holds of the part alone holds of it there; the invariants *)
(* of the supervisor, of the synchronizer and of the release are proved    *)
(* from those specifications, and those of the inputter are its own.       *)
(***************************************************************************)
EXTENDS Node, Inputter_proofs

(* No step of the inputter touches the context. *)
LEMMA StepKeepsContext == Step => UNCHANGED cancelled
  BY DEF Step, Dial, FilterInputAdded, AddPastInput, PastRead, Subscribe, WatchEvent,
         WatchEnds, Wake, RequestFails, Disconnect, counters

(* The supervisor in a node does what the supervisor does. *)
LEMMA StepOfSupervisor == [NodeNext]_nodeVars => [Sup!Next]_<<Sup!supVars, cancelled>>
<1> SUFFICES ASSUME [NodeNext]_nodeVars PROVE [Sup!Next]_<<Sup!supVars, cancelled>>
  OBVIOUS
<1> DEFINE Stutter == UNCHANGED <<supVars, cancelled>>
<1>0. Stutter => [Sup!Next]_<<Sup!supVars, cancelled>>
  BY DEF supVars, Sup!supVars
<1>1. CASE Install
  BY <1>0, <1>1 DEF Install, vars, counters
<1>2. CASE World
  BY <1>0, <1>2 DEF World, Mine, vars, counters
<1>3. CASE Supervise
  BY <1>3 DEF Supervise, Sup!Next
<1>4. ASSUME NEW w \in Sup!Workers, Starts(w) PROVE [Sup!Next]_<<Sup!supVars, cancelled>>
  <2>1. CASE Sup!Progress(w)
    BY <2>1 DEF Sup!Next
  <2>2. CASE Dial /\ UNCHANGED supVars
    BY <1>0, <2>2, StepKeepsContext DEF Step
  <2>3. CASE Sup!Offer(w)
    BY <2>3 DEF Sup!Next, Sup!Progress
  <2> QED
    BY <1>4, <2>1, <2>2, <2>3 DEF Starts
<1>5. ASSUME NEW w \in Sup!Workers, InputterSteps(w) PROVE Stutter
  BY <1>5, StepKeepsContext DEF InputterSteps
<1>6. ASSUME NEW w \in Sup!Workers, SynchronizerSteps(w) PROVE Stutter
  BY <1>6 DEF SynchronizerSteps, vars, counters
<1>7. ASSUME NEW w \in Sup!Workers, Exits(w) PROVE Sup!Next
  BY <1>7 DEF Exits, Sup!Next
<1>8. CASE Signal
  BY <1>8 DEF Signal, Cancel, Sup!Next, Sup!Signal, supVars, Sup!supVars
<1>9. CASE Restart
  BY <1>9 DEF Restart, Sup!Next
<1>10. CASE UNCHANGED nodeVars
  BY <1>0, <1>10 DEF nodeVars, vars, counters
<1> QED
  BY <1>0, <1>1, <1>2, <1>3, <1>4, <1>5, <1>6, <1>7, <1>8, <1>9, <1>10 DEF NodeNext, Activity

(* Every behaviour of a node is, for the supervisor, one of its own: the   *)
(* workers' steps are handshakes and exits, or leave SupervisorWorker be.  *)
THEOREM RunsSupervisor == NodeSpec => Sup!Spec
<1>1. NodeInit => Sup!Init
  BY DEF NodeInit
<1> QED
  BY <1>1, StepOfSupervisor, PTL DEF NodeSpec, Sup!Spec

-----------------------------------------------------------------------------
(***************************************************************************)
(* The supervisor.  Ordered: whoever is started follows those that said    *)
(* they are ready, all of them while the loop goes on.  Waited: a worker   *)
(* that is not ready yet has the supervisor waiting for it, or everything  *)
(* is being stopped.                                                       *)
(***************************************************************************)
Ordered ==
  /\ \A w \in 1 .. launched - 1 : w \in readied
  /\ main = "launch" => \A w \in 1 .. launched : w \in readied

Waited ==
  \A w \in Sup!Workers :
    place[w] \in {"starting", "booting", "offering", "stuck"}
      => cancelled \/ (main = "await" /\ w = launched)

SupInv == Sup!TypeOK /\ Ordered /\ Waited

LEMMA SupInitInvariant == Sup!Init => SupInv
<1> SUFFICES ASSUME Sup!Init PROVE SupInv
  OBVIOUS
<1>1. kinds \in Seq(Sup!Kinds)
  BY NodeAssumption DEF Sup!Init
<1>2. Sup!Workers = 1 .. Len(kinds) /\ Len(kinds) \in Nat
  BY <1>1 DEF Sup!Workers
<1>3. Sup!TypeOK
  <2>1. place \in [Sup!Workers -> Sup!Places]
    BY DEF Sup!Init, Sup!Places
  <2>2. \A w \in Sup!Workers : place[w] = "none" /\ w > launched
    BY <1>2 DEF Sup!Init
  <2>3. cancelled \in BOOLEAN
    BY DEF Sup!Init
  <2>4. main = "launch" /\ launched = 0 /\ readied = {} /\ result = "none"
    BY DEF Sup!Init
  <2> QED BY <1>1, <1>2, <2>1, <2>2, <2>3, <2>4 DEF Sup!TypeOK
<1>4. Ordered /\ Waited
  BY <1>2 DEF Sup!Init, Ordered, Waited
<1> QED BY <1>3, <1>4 DEF SupInv

LEMMA WorkersAre ==
  ASSUME SupInv
  PROVE  /\ Sup!Workers = 1 .. Len(kinds) /\ Len(kinds) \in Nat
         /\ launched \in 0 .. Len(kinds)
BY DEF SupInv, Sup!TypeOK, Sup!Workers

(* A worker that moves was started, and had not returned. *)
LEMMA WorkerMoves ==
  ASSUME SupInv, NEW w \in Sup!Workers, NEW to \in Sup!Places \ {"none"},
         place[w] \in {"starting", "booting", "offering", "running"},
         place' = [place EXCEPT ![w] = to],
         to \in {"starting", "booting", "offering", "stuck"}
           => place[w] \in {"starting", "booting", "offering"},
         cancelled' \in BOOLEAN, cancelled => cancelled',
         UNCHANGED <<kinds, main, launched, readied, result>>
  PROVE  SupInv'
<1>1. Sup!Workers = 1 .. Len(kinds) /\ Len(kinds) \in Nat /\ launched \in 0 .. Len(kinds)
  BY WorkersAre
<1>2. w \in 1 .. launched /\ ~Sup!Exited(w)
  BY <1>1 DEF SupInv, Sup!TypeOK, Sup!Exited
<1>3. Sup!TypeOK'
  BY <1>1, <1>2 DEF SupInv, Sup!TypeOK, Sup!Workers
<1>4. Ordered' /\ Waited'
  BY <1>1, <1>2 DEF SupInv, Ordered, Waited, Sup!TypeOK, Sup!Workers
<1> QED BY <1>3, <1>4 DEF SupInv

LEMMA SupStepInvariant == SupInv /\ [Sup!Next]_<<Sup!supVars, cancelled>> => SupInv'
<1> SUFFICES ASSUME SupInv, [Sup!Next]_<<Sup!supVars, cancelled>> PROVE SupInv'
  OBVIOUS
<1>0. /\ Sup!Workers = 1 .. Len(kinds) /\ Len(kinds) \in Nat
      /\ launched \in 0 .. Len(kinds)
  BY WorkersAre
<1> USE DEF SupInv
<1>1. CASE Sup!Launch
  <2>1. Sup!TypeOK'
    BY <1>0, <1>1 DEF Sup!Launch, Sup!TypeOK, Sup!Workers, Sup!Places
  <2>2. Ordered' /\ Waited'
    BY <1>0, <1>1 DEF Sup!Launch, Ordered, Waited, Sup!TypeOK, Sup!Workers
  <2> QED BY <2>1, <2>2
<1>2. CASE Sup!Ready
  <2>1. Sup!TypeOK'
    BY <1>0, <1>2 DEF Sup!Ready, Sup!TypeOK, Sup!Workers, Sup!Places
  <2>2. Ordered'
    BY <1>0, <1>2 DEF Sup!Ready, Ordered
  <2>3. Waited'
    BY <1>0, <1>2 DEF Sup!Ready, Waited, Sup!TypeOK, Sup!Workers
  <2> QED BY <2>1, <2>2, <2>3
<1>3. CASE Sup!StartTimeout
  BY <1>3 DEF Sup!StartTimeout, Sup!TypeOK, Ordered, Waited, Sup!Workers
<1>4. CASE Sup!StartCancelled
  BY <1>4 DEF Sup!StartCancelled, Sup!TypeOK, Ordered, Waited, Sup!Workers
<1>5. CASE Sup!AllLaunched
  BY <1>5 DEF Sup!AllLaunched, Sup!TypeOK, Ordered, Waited, Sup!Workers
<1>6. CASE Sup!ContextDone
  BY <1>6 DEF Sup!ContextDone, Sup!TypeOK, Ordered, Waited, Sup!Workers
<1>7. CASE Sup!AllExited
  BY <1>7 DEF Sup!AllExited, Sup!TypeOK, Ordered, Waited, Sup!Workers
<1>8. CASE Sup!WaitTimeout
  BY <1>8 DEF Sup!WaitTimeout, Sup!TypeOK, Ordered, Waited, Sup!Workers
<1>9. ASSUME NEW w \in Sup!Workers, Sup!Progress(w) PROVE SupInv'
  <2>1. PICK from \in {"starting", "booting"}, to \in {"booting", "offering", "stuck"} :
          Sup!Move(w, from, to)
    BY <1>9 DEF Sup!Progress, Sup!Offer, Sup!Boot, Sup!BootMissed
  <2>2. cancelled \in BOOLEAN
    BY DEF Sup!TypeOK
  <2>3. to \in Sup!Places \ {"none"}
    BY DEF Sup!Places
  <2> QED BY <2>1, <2>2, <2>3, WorkerMoves DEF Sup!Move
<1>10. ASSUME NEW w \in Sup!Workers, Sup!Exit(w) PROVE SupInv'
  <2>1. place[w] \in {"starting", "booting", "offering", "running"}
    BY <1>10 DEF Sup!Exit, Sup!ReturnsFrom
  <2>2. PICK to \in {"ghost", "exited"} : place' = [place EXCEPT ![w] = to]
    BY <1>10 DEF Sup!Exit, Sup!After
  <2>3. to \in Sup!Places \ {"none"}
    BY DEF Sup!Places
  <2> QED BY <1>10, <2>1, <2>2, <2>3, WorkerMoves DEF Sup!Exit
<1>11. CASE Sup!Signal
  BY <1>11 DEF Sup!Signal, Sup!supVars, Sup!TypeOK, Ordered, Waited, Sup!Workers
<1>12. CASE Sup!Restart
  <2>1. Sup!TypeOK'
    <3>1. Sup!Workers' = Sup!Workers
      BY <1>12 DEF Sup!Restart, Sup!Workers
    <3>2. (place \in [Sup!Workers -> Sup!Places])'
      BY <1>12, <3>1 DEF Sup!Restart, Sup!Places
    <3>3. (\A w \in Sup!Workers : place[w] = "none" /\ w > launched)'
      BY <1>0, <1>12, <3>1 DEF Sup!Restart
    <3>4. (cancelled \in BOOLEAN)'
      BY <1>12 DEF Sup!Restart
    <3>5. /\ main' = "launch" /\ launched' = 0 /\ readied' = {} /\ result' = "none"
          /\ kinds' = kinds /\ kinds \in Seq(Sup!Kinds)
      BY <1>12 DEF Sup!Restart, Sup!TypeOK
    <3> QED BY <1>0, <3>2, <3>3, <3>4, <3>5 DEF Sup!TypeOK
  <2>2. Ordered' /\ Waited'
    BY <1>0, <1>12 DEF Sup!Restart, Ordered, Waited, Sup!Workers
  <2> QED BY <2>1, <2>2
<1>13. CASE UNCHANGED <<Sup!supVars, cancelled>>
  BY <1>13 DEF Sup!supVars, Sup!TypeOK, Ordered, Waited, Sup!Workers
<1> QED
  BY <1>1, <1>2, <1>3, <1>4, <1>5, <1>6, <1>7, <1>8, <1>9, <1>10, <1>11, <1>12, <1>13
  DEF Sup!Next, Sup!Supervise

(***************************************************************************)
(* The invariant of the supervisor holds in every node: it starts workers  *)
(* in order, waits for those it started, and its own context is what its   *)
(* workers' contexts are.                                                  *)
(***************************************************************************)
THEOREM SupervisorInvariant == NodeSpec => []SupInv
BY RunsSupervisor, SupInitInvariant, SupStepInvariant, PTL DEF Sup!Spec

(***************************************************************************)
(* A worker is started only after every one before it was ready, for any   *)
(* list of workers.                                                        *)
(***************************************************************************)
THEOREM WorkersStartInOrder == NodeSpec => []StartsInOrder
<1>1. SupInv => StartsInOrder
  BY DEF SupInv, Ordered, StartsInOrder, Sup!StartsInOrder, Sup!TypeOK
<1> QED BY <1>1, SupervisorInvariant, PTL

(* A worker blocks on its ready channel for ever only while it is stopped. *)
THEOREM NobodyHangs == NodeSpec => []NotLeftHanging
<1>1. SupInv => NotLeftHanging
  BY DEF SupInv, Waited, NotLeftHanging, Sup!NotLeftHanging
<1> QED BY <1>1, SupervisorInvariant, PTL

-----------------------------------------------------------------------------
(* The supervisor cancels the inputter or leaves it alone. *)
LEMMA SupervisorOnlyCancels ==
  ASSUME cancelled \in BOOLEAN, UNCHANGED inputterVars, cancelled' \in {cancelled, TRUE}
  PROVE  [Next]_vars
<1>1. CASE cancelled' = cancelled
  BY <1>1 DEF inputterVars, vars
<1>2. CASE cancelled' # cancelled
  <2>1. ~cancelled /\ cancelled' = TRUE
    BY <1>2
  <2> QED BY <2>1 DEF inputterVars, Next, Cancel, chain
<1> QED BY <1>1, <1>2

LEMMA StepOfInputter ==
  ASSUME SupInv, [NodeNext]_nodeVars
  PROVE  [Next]_vars
<1>0. cancelled \in BOOLEAN
  BY DEF SupInv, Sup!TypeOK
<1>1. CASE Install
  BY <1>1 DEF Install
<1>2. CASE World
  BY <1>2 DEF World, Next
<1>3. CASE Supervise
  <2>1. cancelled' \in {cancelled, TRUE}
    BY <1>3 DEF Supervise, Sup!Supervise, Sup!Launch, Sup!Ready, Sup!StartTimeout,
                Sup!StartCancelled, Sup!AllLaunched, Sup!ContextDone, Sup!AllExited,
                Sup!WaitTimeout
  <2> QED BY <1>0, <1>3, <2>1, SupervisorOnlyCancels DEF Supervise
<1>4. ASSUME NEW w \in Sup!Workers, Starts(w) PROVE [Next]_vars
  <2>1. CASE Dial
    BY <2>1 DEF Next, Step
  <2>2. CASE Sup!Progress(w) /\ UNCHANGED inputterVars
    BY <1>0, <2>2, SupervisorOnlyCancels
    DEF Sup!Progress, Sup!Offer, Sup!Boot, Sup!BootMissed, Sup!Move
  <2> QED BY <1>4, <2>1, <2>2 DEF Starts
<1>5. ASSUME NEW w \in Sup!Workers, InputterSteps(w) PROVE Next
  BY <1>5 DEF InputterSteps, Next
<1>6. ASSUME NEW w \in Sup!Workers, SynchronizerSteps(w) PROVE UNCHANGED vars
  BY <1>6 DEF SynchronizerSteps
<1>7. ASSUME NEW w \in Sup!Workers, Exits(w) PROVE [Next]_vars
  BY <1>0, <1>7, SupervisorOnlyCancels DEF Exits, Sup!Exit
<1>8. CASE Signal
  BY <1>8 DEF Signal, Next
<1>9. CASE Restart
  BY <1>9 DEF Restart, Next
<1>10. CASE UNCHANGED nodeVars
  BY <1>10 DEF nodeVars
<1> QED
  BY <1>1, <1>2, <1>3, <1>4, <1>5, <1>6, <1>7, <1>8, <1>9, <1>10 DEF NodeNext, Activity

(***************************************************************************)
(* In a node, too, the inputter does what it does alone, so its theorems   *)
(* hold there.                                                             *)
(***************************************************************************)
THEOREM RunsInputter == NodeSpec => Spec
<1>1. NodeInit => Init
  BY DEF NodeInit
<1> QED
  BY <1>1, StepOfInputter, SupervisorInvariant, PTL DEF NodeSpec, Spec

(* The state of the inputter is well formed in every node. *)
THEOREM InputterTypeCorrect == NodeSpec => []TypeOK
BY RunsInputter, TypeCorrect, PTL

(* In every node an inputter that watches misses only what the gap took. *)
THEOREM NodeMissesOnlyTheGap == NodeSpec => []MissedOnlyInGap
BY RunsInputter, OnlyTheGapIsMissed, PTL

(* In every node inputs are added without holes. *)
THEOREM NodeAddsWithoutHoles == NodeSpec => []NoHoles
BY RunsInputter, AddedWithoutHoles, PTL

-----------------------------------------------------------------------------
(* The synchronizer in a node does what the synchronizer does, *)
LEMMA StepOfSynchronizer == [NodeNext]_nodeVars => [Sync!Next]_(Sync!syncVars)
<1> SUFFICES ASSUME [NodeNext]_nodeVars PROVE [Sync!Next]_(Sync!syncVars)
  OBVIOUS
<1>0. UNCHANGED syncVars => UNCHANGED Sync!syncVars
  BY DEF syncVars, Sync!syncVars
<1>1. CASE Install \/ World \/ Supervise \/ Signal \/ UNCHANGED nodeVars
  BY <1>0, <1>1 DEF Install, World, Supervise, Signal, nodeVars, Sync!Next
<1>2. ASSUME NEW w \in Sup!Workers, Starts(w) \/ InputterSteps(w) \/ Exits(w)
      PROVE  UNCHANGED syncVars
  BY <1>2 DEF Starts, InputterSteps, Exits
<1>3. ASSUME NEW w \in Sup!Workers, SynchronizerSteps(w) PROVE Sync!Next
  BY <1>3 DEF SynchronizerSteps, SyncPolls, Sync!Next
<1>4. CASE Restart
  BY <1>4 DEF Restart, Sync!Next
<1> QED
  BY <1>0, <1>1, <1>2, <1>3, <1>4 DEF NodeNext, Activity

(* and the installation of anvil what it does. *)
LEMMA StepOfRelease == [NodeNext]_nodeVars => [Release!Next]_(Release!releaseVars)
<1> SUFFICES ASSUME [NodeNext]_nodeVars PROVE [Release!Next]_(Release!releaseVars)
  OBVIOUS
<1>1. CASE Install \/ Restart
  BY <1>1 DEF Install, Restart, Release!Next
<1>2. CASE UNCHANGED releaseVars
  BY <1>2 DEF releaseVars, Release!releaseVars
<1> QED BY <1>1, <1>2 DEF NodeNext, nodeVars

(* The worker of a v1 node runs its loop as if it were by itself: being    *)
(* started, cancelled and restarted by the node adds no behaviour to it.   *)
THEOREM RunsSynchronizer == NodeSpec => Sync!Spec
<1>1. NodeInit => Sync!Init
  BY DEF NodeInit
<1> QED BY <1>1, StepOfSynchronizer, PTL DEF NodeSpec, Sync!Spec

(* The files of the anvil release are touched by CheckAnvilAndInstall only. *)
THEOREM RunsRelease == NodeSpec => Release!Spec
<1>1. NodeInit => Release!Init
  BY DEF NodeInit
<1> QED BY <1>1, StepOfRelease, PTL DEF NodeSpec, Release!Spec

-----------------------------------------------------------------------------
(***************************************************************************)
(* The synchronizer.  Up to some output all were handled: the cursors and  *)
(* the rows are within them, and nothing in them was refused.  (A restart  *)
(* goes back to the saved cursor, while rows behind it stay.)              *)
(***************************************************************************)
FirstOfInput(k) == \A j \in 1 .. k - 1 : Feed[j].input # Feed[k].input

HandledUpto(m) ==
  /\ saved <= m /\ cursorAfter <= m /\ done <= m
  /\ notices \subseteq Sync!Upto(m)
  /\ \A k \in 1 .. m : FirstOfInput(k) => Feed[k] \in notices
  /\ \A k \in 1 .. m : Feed[k] \notin Undecodable

SyncInv ==
  /\ Sync!TypeOK
  /\ at = "handle" => done <= page
  /\ \E m \in 0 .. served : HandledUpto(m)

LEMMA SyncInitInvariant == Sync!Init => SyncInv
<1> SUFFICES ASSUME Sync!Init PROVE SyncInv
  OBVIOUS
<1>1. Len(Feed) \in Nat
  BY NodeAssumption
<1>2. HandledUpto(0)
  BY DEF Sync!Init, HandledUpto, Sync!Upto
<1>3. 0 \in 0 .. served
  BY DEF Sync!Init
<1>4. Sync!TypeOK /\ (at = "handle" => done <= page)
  BY <1>1 DEF Sync!Init, Sync!TypeOK
<1> QED BY <1>2, <1>3, <1>4 DEF SyncInv

(* Storing the next output handles one more. *)
LEMMA HandleOne ==
  ASSUME SyncInv, Sync!Handle
  PROVE  SyncInv'
<1>1. /\ done \in Nat /\ page \in Nat /\ served \in Nat /\ done < page /\ page <= served
      /\ saved \in Nat /\ cursorAfter \in Nat
  BY DEF SyncInv, Sync!TypeOK, Sync!Handle
<1>2. PICK m \in 0 .. served : HandledUpto(m)
  BY DEF SyncInv
<1>3. PICK k \in 1 .. page : k = done + 1
  BY <1>1
<1>4. PICK n \in 0 .. served : /\ k \in 1 .. n /\ m <= n
                              /\ \A i \in 1 .. n : i = k \/ i \in 1 .. m
  <2>1. CASE m < k
    <3>1. k \in 0 .. served /\ \A i \in 1 .. k : i = k \/ i \in 1 .. m
      BY <1>1, <1>2, <1>3 DEF HandledUpto
    <3> QED BY <1>1, <2>1, <3>1
  <2>2. CASE ~(m < k)
    BY <1>1, <2>2
  <2> QED BY <2>1, <2>2
<1>5. /\ notices \subseteq notices'
      /\ notices' \subseteq notices \cup {Feed[k]}
      /\ ~(\E r \in notices : r.table = Feed[k].table /\ r.input = Feed[k].input)
           => Feed[k] \in notices'
  BY <1>3 DEF Sync!Handle, Sync!Created, Sync!Found, Sync!RowsOfInput
<1>6. UNCHANGED <<served, cursorAfter, saved, page, at>> /\ done' = k /\ Feed[k] \notin Undecodable
  BY <1>3 DEF Sync!Handle
<1>7. notices' \subseteq Sync!Upto(n)
  <2>1. Feed[k] \in Sync!Upto(n)
    BY <1>4 DEF Sync!Upto
  <2>2. Sync!Upto(m) \subseteq Sync!Upto(n)
    BY <1>1, <1>2, <1>4 DEF Sync!Upto
  <2> QED BY <1>2, <1>5, <2>1, <2>2 DEF HandledUpto
<1>8. ASSUME FirstOfInput(k) PROVE Feed[k] \in notices'
  <2>1. CASE k \in 1 .. m
    BY <1>2, <1>5, <1>8, <2>1 DEF HandledUpto
  <2>2. CASE k \notin 1 .. m
    <3>1. ASSUME NEW r \in notices PROVE r.input # Feed[k].input
      <4>1. PICK j \in 1 .. m : r = Feed[j]
        BY <1>2, <3>1 DEF HandledUpto, Sync!Upto
      <4>2. j \in 1 .. k - 1
        BY <1>1, <1>2, <1>3, <2>2, <4>1
      <4> QED BY <1>8, <4>1, <4>2 DEF FirstOfInput
    <3> QED BY <1>5, <3>1
  <2> QED BY <2>1, <2>2
<1>9. ASSUME NEW i \in 1 .. n, FirstOfInput(i) PROVE Feed[i] \in notices'
  <2>1. CASE i \in 1 .. m
    BY <1>2, <1>5, <1>9, <2>1 DEF HandledUpto
  <2>2. CASE i = k
    BY <1>8, <1>9, <2>2
  <2> QED BY <1>4, <2>1, <2>2
<1>10. \A i \in 1 .. n : Feed[i] \notin Undecodable
  BY <1>2, <1>4, <1>6 DEF HandledUpto
<1>11. saved <= n /\ cursorAfter <= n /\ k <= n
  BY <1>1, <1>2, <1>4 DEF HandledUpto
<1>12. HandledUpto(n)'
  <2>1. saved' <= n /\ cursorAfter' <= n /\ done' <= n
    BY <1>6, <1>11
  <2>2. (notices \subseteq Sync!Upto(n))'
    BY <1>7 DEF Sync!Upto
  <2>3. (\A i \in 1 .. n : FirstOfInput(i) => Feed[i] \in notices)'
    BY <1>9 DEF FirstOfInput
  <2> QED BY <1>10, <2>1, <2>2, <2>3 DEF HandledUpto
<1>13. Sync!TypeOK'
  <2>1. notices' \subseteq Sync!Upto(served)
    <3>1. Sync!Upto(n) \subseteq Sync!Upto(served)
      BY <1>1, <1>4 DEF Sync!Upto
    <3> QED BY <1>7, <3>1
  <2>2. k \in 0 .. served
    BY <1>1, <1>4
  <2> QED BY <1>6, <2>1, <2>2 DEF SyncInv, Sync!TypeOK, Sync!Upto
<1>14. done' <= page'
  BY <1>1, <1>3, <1>6
<1> QED BY <1>4, <1>6, <1>12, <1>13, <1>14 DEF SyncInv

LEMMA PageEndBounded ==
  ASSUME Sync!TypeOK
  PROVE  Sync!PageEnd \in 0 .. served /\ cursorAfter <= Sync!PageEnd
BY NodeAssumption DEF Sync!TypeOK, Sync!PageEnd

LEMMA SyncStepInvariant == SyncInv /\ [Sync!Next]_(Sync!syncVars) => SyncInv'
<1> SUFFICES ASSUME SyncInv, [Sync!Next]_(Sync!syncVars) PROVE SyncInv'
  OBVIOUS
<1>1. PICK m \in 0 .. served : HandledUpto(m)
  BY DEF SyncInv
<1>2. Len(Feed) \in Nat /\ served \in Nat
  BY NodeAssumption DEF SyncInv, Sync!TypeOK
<1>3. ASSUME notices' = notices, served' \in {served, served + 1},
             saved' \in {saved, cursorAfter}, cursorAfter' \in {0, saved, cursorAfter, done},
             done' \in {0, cursorAfter, done}
      PROVE  \E n \in 0 .. served' : HandledUpto(n)'
  <2>1. m \in 0 .. served'
    BY <1>2, <1>3
  <2>2. saved' <= m /\ cursorAfter' <= m /\ done' <= m
    BY <1>1, <1>3 DEF HandledUpto
  <2>3. HandledUpto(m)'
    BY <1>1, <1>3, <2>2 DEF HandledUpto, Sync!Upto, FirstOfInput
  <2> QED BY <2>1, <2>3
<1> USE DEF SyncInv, Sync!TypeOK
<1>4. CASE Sync!Serve
  <2>1. Sync!Upto(served) \subseteq Sync!Upto(served')
    BY <1>2, <1>4 DEF Sync!Serve, Sync!Upto
  <2>2. Sync!TypeOK'
    BY <1>2, <1>4, <2>1 DEF Sync!Serve, Sync!Upto
  <2> QED BY <1>3, <1>4, <2>2 DEF Sync!Serve
<1>5. CASE Sync!Handle
  BY <1>5, HandleOne
<1>6. CASE Sync!Fetch
  <2>1. Sync!TypeOK' /\ done' <= page'
    BY <1>6, PageEndBounded DEF Sync!Fetch, Sync!Upto
  <2> QED BY <1>3, <1>6, <2>1 DEF Sync!Fetch
<1>7. CASE Sync!Handled
  BY <1>3, <1>7 DEF Sync!Handled, Sync!Upto
<1>8. CASE Sync!Load
  BY <1>3, <1>8 DEF Sync!Load, Sync!Upto
<1>9. CASE Sync!Save
  BY <1>3, <1>9 DEF Sync!Save, Sync!Upto
<1>10. CASE Sync!Restart
  BY <1>2, <1>3, <1>10 DEF Sync!Restart, Sync!Upto
<1>11. CASE Sync!Refuse \/ Sync!Wake \/ Sync!Fails \/ Sync!FetchFails \/ Sync!Leave
  BY <1>3, <1>11 DEF Sync!Refuse, Sync!Wake, Sync!Fails, Sync!FetchFails, Sync!Leave, Sync!Upto
<1>12. CASE UNCHANGED Sync!syncVars
  BY <1>3, <1>12 DEF Sync!syncVars, Sync!Upto
<1> QED
  BY <1>4, <1>5, <1>6, <1>7, <1>8, <1>9, <1>10, <1>11, <1>12
  DEF Sync!Next, Sync!Poll, Sync!Store

(***************************************************************************)
(* The invariant of the synchronizer: there is a point of the feed up to   *)
(* which all was handled, however often it starts again.                   *)
(***************************************************************************)
THEOREM SynchronizerInvariant == NodeSpec => []SyncInv
BY RunsSynchronizer, SyncInitInvariant, SyncStepInvariant, PTL DEF Sync!Spec

(* What is before the saved cursor is stored, for any feed and page size. *)
THEOREM NothingIsSkipped == NodeSpec => []NothingSkipped
<1>1. SyncInv => NothingSkipped
  <2> SUFFICES ASSUME SyncInv, NEW k \in 1 .. saved, FirstOfInput(k) PROVE Feed[k] \in notices
    BY DEF NothingSkipped, Sync!NothingSkipped, FirstOfInput
  <2>1. PICK m \in 0 .. served : HandledUpto(m)
    BY DEF SyncInv
  <2>2. k \in 1 .. m
    BY <2>1 DEF HandledUpto, SyncInv, Sync!TypeOK
  <2> QED BY <2>1, <2>2 DEF HandledUpto
<1> QED BY <1>1, SynchronizerInvariant, PTL

(* The cursor and the rows stay before what the decoder refuses. *)
THEOREM UndecodableStops == NodeSpec => []NeverPastUndecodable
<1>1. SyncInv => NeverPastUndecodable
  <2> SUFFICES ASSUME SyncInv, NEW k \in 1 .. Len(Feed), Feed[k] \in Undecodable
               PROVE  saved < k /\ notices \subseteq Sync!Upto(k - 1)
    BY DEF NeverPastUndecodable, Sync!NeverPastUndecodable
  <2>1. PICK m \in 0 .. served : HandledUpto(m)
    BY DEF SyncInv
  <2>2. m < k /\ served \in Nat /\ saved \in Nat
    BY <2>1, NodeAssumption DEF HandledUpto, SyncInv, Sync!TypeOK
  <2>3. Sync!Upto(m) \subseteq Sync!Upto(k - 1)
    BY <2>1, <2>2, NodeAssumption DEF Sync!Upto
  <2> QED BY <2>1, <2>2, <2>3 DEF HandledUpto
<1> QED BY <1>1, SynchronizerInvariant, PTL

-----------------------------------------------------------------------------
(***************************************************************************)
(* The installation of anvil.  A file that is cut is being written, or an  *)
(* earlier write of it ended in its middle.                                *)
(***************************************************************************)
ReleaseInv ==
  /\ Release!TypeOK
  /\ config = "cut" => step = "saving" \/ torn
  /\ exec = "cut" => step = "extracting" \/ torn
  /\ step = "ready" => exec = "whole" \/ torn

(* A cut file is one being written, or was left by a process that ended    *)
(* while HandleRelease wrote it; what is ready is whole or was torn.       *)
THEOREM ReleaseInvariant == NodeSpec => []ReleaseInv
<1> USE DEF ReleaseInv, Release!TypeOK, Release!Files
<1>1. Release!Init => ReleaseInv
  BY DEF Release!Init
<1>2. ReleaseInv /\ [Release!Next]_(Release!releaseVars) => ReleaseInv'
  <2> SUFFICES ASSUME ReleaseInv, [Release!Next]_(Release!releaseVars) PROVE ReleaseInv'
    OBVIOUS
  <2>1. CASE Release!Install
    BY <2>1 DEF Release!Install, Release!LoadConfig, Release!ListReleases, Release!SaveConfig,
                Release!FindAsset, Release!Download, Release!ExtractAsset
  <2>2. CASE Release!Fails \/ Release!Restart
    BY <2>2 DEF Release!Fails, Release!Restart, Release!Torn
  <2>3. CASE UNCHANGED Release!releaseVars
    BY <2>3 DEF Release!releaseVars
  <2> QED BY <2>1, <2>2, <2>3 DEF Release!Next
<1> QED BY <1>1, <1>2, RunsRelease, PTL DEF Release!Spec

(* No process is given a cut executable unless an earlier one was torn. *)
THEOREM AnvilIsWhole == NodeSpec => []WholeUnlessTorn
<1>1. ReleaseInv => WholeUnlessTorn
  BY DEF ReleaseInv, WholeUnlessTorn, Release!WholeUnlessTorn
<1> QED BY <1>1, ReleaseInvariant, PTL

-----------------------------------------------------------------------------
(***************************************************************************)
(* Each worker that is modelled is where the supervisor sees it.  There is *)
(* one of each kind at most, and it never is where only servers are.       *)
(***************************************************************************)
OneOfEach ==
  \A v, w \in Sup!Workers :
    kinds[v] = kinds[w] /\ kinds[v] \in {"inputter", "synchronizer"} => v = w

InputterPlaced ==
  \A w \in Of("inputter") :
    /\ place[w] \in {"none", "starting"} => pc \in {"dial", "ended"}
    /\ place[w] = "offering" => pc = "read"
    /\ place[w] = "exited" => pc = "ended"
    /\ place[w] \notin {"booting", "stuck", "ghost"}

SynchronizerPlaced ==
  \A w \in Of("synchronizer") :
    /\ place[w] \in {"none", "starting", "offering"} => at = "load"
    /\ place[w] = "exited" => at = "ended"
    /\ place[w] \notin {"booting", "stuck", "ghost"}

Placed == OneOfEach /\ InputterPlaced /\ SynchronizerPlaced

LEMMA PlacedInit == NodeInit => Placed
<1> SUFFICES ASSUME NodeInit PROVE Placed
  OBVIOUS
<1>1. OneOfEach
  BY NodeAssumption DEF NodeInit, Sup!Init, Sup!Workers, OneOfEach
<1>2. \A w \in Sup!Workers : place[w] = "none"
  BY DEF NodeInit, Sup!Init
<1>3. pc = "dial" /\ at = "load"
  BY DEF NodeInit, Init, Sync!Init
<1> QED BY <1>1, <1>2, <1>3 DEF Placed, InputterPlaced, SynchronizerPlaced, Of

(* Steps that leave a worker's place and its own position alone. *)
LEMMA SamePlaces ==
  ASSUME Placed, UNCHANGED <<kinds, pc, at>>,
         \A w \in Sup!Workers :
           kinds[w] \in {"inputter", "synchronizer"} => place'[w] = place[w]
  PROVE  Placed'
BY DEF Placed, OneOfEach, InputterPlaced, SynchronizerPlaced, Of, Sup!Workers

LEMMA PlacedStep == SupInv /\ Placed /\ [NodeNext]_nodeVars => Placed'
<1> SUFFICES ASSUME SupInv, Placed, [NodeNext]_nodeVars PROVE Placed'
  OBVIOUS
<1>0. place \in [Sup!Workers -> Sup!Places] /\ launched \in Nat
  BY WorkersAre DEF SupInv, Sup!TypeOK
<1>1. CASE Install
  BY <1>1, SamePlaces DEF Install, vars, supVars, syncVars
<1>2. CASE World
  BY <1>2, SamePlaces DEF World, Mine, Sync!Serve, vars, supVars, syncVars
<1>3. CASE Supervise
  <2>1. UNCHANGED <<kinds, pc, at>>
    BY <1>3 DEF Supervise, inputterVars, syncVars, Sup!Supervise, Sup!Launch, Sup!Ready,
                Sup!StartTimeout, Sup!StartCancelled, Sup!AllLaunched, Sup!ContextDone,
                Sup!AllExited, Sup!WaitTimeout
  <2>2. CASE UNCHANGED place
    BY <2>1, <2>2, SamePlaces
  <2>3. CASE Sup!Launch
    <3>1. launched + 1 \in Sup!Workers /\ place[launched + 1] = "none"
      BY <1>0, <2>3, WorkersAre DEF Sup!Launch, SupInv, Sup!TypeOK
    <3> QED BY <1>0, <2>1, <2>3, <3>1
            DEF Sup!Launch, Placed, OneOfEach, InputterPlaced, SynchronizerPlaced, Of, Sup!Workers
  <2>4. CASE Sup!Ready
    BY <1>0, <2>1, <2>4
    DEF Sup!Ready, Placed, OneOfEach, InputterPlaced, SynchronizerPlaced, Of, Sup!Workers
  <2> QED BY <1>3, <2>2, <2>3, <2>4
          DEF Supervise, Sup!Supervise, Sup!StartTimeout, Sup!StartCancelled, Sup!AllLaunched,
              Sup!ContextDone, Sup!AllExited, Sup!WaitTimeout
<1>4. ASSUME NEW w \in Sup!Workers, Starts(w) PROVE Placed'
  <2>1. CASE kinds[w] \notin {"inputter", "synchronizer"}
    <3>1. Sup!Progress(w) /\ UNCHANGED <<kinds, pc, at>>
      BY <1>4, <2>1 DEF Starts, inputterVars, syncVars, Sup!Progress, Sup!Offer, Sup!Boot,
                        Sup!BootMissed, Sup!Move
    <3>2. \A v \in Sup!Workers : v # w => place'[v] = place[v]
      BY <1>0, <3>1 DEF Sup!Progress, Sup!Offer, Sup!Boot, Sup!BootMissed, Sup!Move
    <3> QED BY <2>1, <3>1, <3>2, SamePlaces
  <2>2. CASE kinds[w] = "synchronizer"
    <3>1. /\ place[w] = "starting" /\ place' = [place EXCEPT ![w] = "offering"]
          /\ UNCHANGED <<kinds, pc, at>>
      BY <1>4, <2>2 DEF Starts, inputterVars, syncVars, Sup!Progress, Sup!Offer, Sup!Boot,
                        Sup!BootMissed, Sup!Move
    <3> QED BY <1>0, <2>2, <3>1
            DEF Placed, OneOfEach, InputterPlaced, SynchronizerPlaced, Of, Sup!Workers
  <2>3. CASE kinds[w] = "inputter"
    <3>1. /\ place[w] = "starting" /\ pc' \in {"read", "ended"}
          /\ UNCHANGED <<kinds, at>>
          /\ place' = IF pc' = "ended" THEN place ELSE [place EXCEPT ![w] = "offering"]
      BY <1>4, <2>3 DEF Starts, Dial, supVars, syncVars, Sup!Offer, Sup!Move
    <3>2. \A v \in Of("inputter") : v = w
      BY <2>3 DEF Placed, OneOfEach, Of
    <3> QED BY <1>0, <2>3, <3>1, <3>2
            DEF Placed, OneOfEach, InputterPlaced, SynchronizerPlaced, Of, Sup!Workers
  <2> QED BY <2>1, <2>2, <2>3
<1>5. ASSUME NEW w \in Sup!Workers, InputterSteps(w) PROVE Placed'
  <2>1. /\ kinds[w] = "inputter" /\ place[w] = "running"
        /\ UNCHANGED <<kinds, place, at>>
    BY <1>5 DEF InputterSteps, Running, supVars, syncVars
  <2>2. \A v \in Of("inputter") : v = w
    BY <2>1 DEF Placed, OneOfEach, Of
  <2> QED BY <2>1, <2>2
          DEF Placed, OneOfEach, InputterPlaced, SynchronizerPlaced, Of, Sup!Workers
<1>6. ASSUME NEW w \in Sup!Workers, SynchronizerSteps(w) PROVE Placed'
  <2>1. /\ kinds[w] = "synchronizer" /\ place[w] = "running"
        /\ UNCHANGED <<kinds, place, pc>>
    BY <1>6 DEF SynchronizerSteps, Running, supVars, vars
  <2>2. \A v \in Of("synchronizer") : v = w
    BY <2>1 DEF Placed, OneOfEach, Of
  <2> QED BY <2>1, <2>2
          DEF Placed, OneOfEach, InputterPlaced, SynchronizerPlaced, Of, Sup!Workers
<1>7. ASSUME NEW w \in Sup!Workers, Exits(w) PROVE Placed'
  <2>1. /\ UNCHANGED <<kinds, pc, at>>
        /\ kinds[w] = "inputter" => pc = "ended" /\ place[w] \in {"starting", "running"}
        /\ kinds[w] = "synchronizer" => at = "ended" /\ place[w] = "running"
    BY <1>7 DEF Exits, inputterVars, syncVars, Sup!Exit, Sup!ReturnsFrom
  <2>2. PICK to \in Sup!After(w) : place' = [place EXCEPT ![w] = to]
    BY <1>7 DEF Exits, Sup!Exit
  <2>3. kinds[w] \in {"inputter", "synchronizer"} => to = "exited"
    BY <2>1, <2>2 DEF Sup!After
  <2> QED BY <1>0, <2>1, <2>2, <2>3
          DEF Placed, OneOfEach, InputterPlaced, SynchronizerPlaced, Of, Sup!Workers
<1>8. CASE Signal
  BY <1>8, SamePlaces DEF Signal, Cancel, supVars, syncVars
<1>9. CASE Restart
  <2>1. /\ pc' = "dial" /\ at' = "load" /\ kinds' = kinds
        /\ \A w \in Sup!Workers : place'[w] = "none"
    BY <1>9 DEF Restart, Crash, Sup!Restart, Sync!Restart
  <2> QED BY <2>1
          DEF Placed, OneOfEach, InputterPlaced, SynchronizerPlaced, Of, Sup!Workers
<1>10. CASE UNCHANGED nodeVars
  BY <1>10, SamePlaces DEF nodeVars, vars, supVars, syncVars
<1> QED
  BY <1>1, <1>2, <1>3, <1>4, <1>5, <1>6, <1>7, <1>8, <1>9, <1>10 DEF NodeNext, Activity

(***************************************************************************)
(* The whole node is well formed: no worker works before its message is    *)
(* taken or after it returned, for any lists of workers.                   *)
(***************************************************************************)
THEOREM NodeTypeCorrect == NodeSpec => []NodeTypeOK
<1>1. TypeOK /\ SupInv /\ SyncInv /\ ReleaseInv /\ Placed => NodeTypeOK
  BY DEF SupInv, SyncInv, ReleaseInv, Placed, InputterPlaced, SynchronizerPlaced, NodeTypeOK,
         Sup!Exited
<1>2. NodeSpec => []Placed
  BY PlacedInit, PlacedStep, SupervisorInvariant, PTL DEF NodeSpec
<1> QED
  BY <1>1, <1>2, InputterTypeCorrect, SupervisorInvariant, SynchronizerInvariant, ReleaseInvariant,
     PTL
=============================================================================
