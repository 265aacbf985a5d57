----------------------------- MODULE Supervisor -----------------------------
(***************************************************************************)
(* SupervisorWorker: it starts its workers in order, each after the one    *)
(* before it is ready, cancels all of them when one exits, and waits for   *)
(* them; with the handshakes of the workers of this node.                  *)
(*                                                                         *)
(* A worker is its position in the list; its kind says which Start it      *)
(* runs.  What it does while it runs is not this module's matter.  The     *)
(* timeouts may fire at any time.                                          *)
(***************************************************************************)
EXTENDS Integers, Sequences

CONSTANT Deployments  \* the lists of workers that the options lead to

VARIABLES
  kinds,     \* the list of this process
  main,      \* where Start of the supervisor is
  launched,  \* how many workers it started
  place,     \* where Start of each worker is
  readied,   \* history: workers whose message was received
  cancelled, \* whether the context of the workers is
  result     \* what Start returned

supVars == <<kinds, main, launched, place, readied, result>>

Kinds == {"server", "inputter", "synchronizer", "listener", "http", "command"}
Places == {"none", "starting", "booting", "offering", "stuck", "running", "ghost", "exited"}

Workers == DOMAIN kinds

(* Start has returned; a ghost's port poll is still offering its message. *)
Exited(w) == place[w] \in {"ghost", "exited"}

Init ==
  /\ kinds \in Deployments
  /\ main = "launch" /\ launched = 0
  /\ place = [w \in Workers |-> "none"]
  /\ readied = {}
  /\ cancelled = FALSE
  /\ result = "none"

-----------------------------------------------------------------------------
Launch ==
  /\ main = "launch" /\ launched < Len(kinds)
  /\ main' = "await"
  /\ launched' = launched + 1
  /\ place' = [place EXCEPT ![launched + 1] = "starting"]
  /\ UNCHANGED <<kinds, readied, cancelled, result>>

(* The select: the worker's message on the unbuffered channel ... *)
Ready ==
  /\ main = "await" /\ place[launched] \in {"offering", "ghost"}
  /\ main' = "launch"
  /\ place' = [place EXCEPT ![launched] = IF @ = "ghost" THEN "exited" ELSE "running"]
  /\ readied' = readied \cup {launched}
  /\ UNCHANGED <<kinds, launched, cancelled, result>>

(* Mutants of StartTimeout: the loop goes on; nobody is told. *)
StartTimeoutGoesOn ==
  /\ main = "await"
  /\ main' = "launch"
  /\ UNCHANGED <<kinds, launched, place, readied, cancelled, result>>
StartTimeoutSilent ==
  /\ main = "await"
  /\ main' = "run"
  /\ UNCHANGED <<kinds, launched, place, readied, cancelled, result>>

(* ... the timeout ... *)
StartTimeout ==
  /\ main = "await"
  /\ main' = "run"
  /\ cancelled' = TRUE
  /\ UNCHANGED <<kinds, launched, place, readied, result>>

(* ... or the context is done. *)
StartCancelled ==
  /\ main = "await" /\ cancelled
  /\ main' = "run"
  /\ UNCHANGED <<kinds, launched, place, readied, cancelled, result>>

(* The end of the loop; either way the caller is told that all is ready. *)
AllLaunched ==
  /\ main = "launch" /\ launched = Len(kinds)
  /\ main' = "run"
  /\ UNCHANGED <<kinds, launched, place, readied, cancelled, result>>

ContextDone ==
  /\ main = "run" /\ cancelled
  /\ main' = "wait"
  /\ UNCHANGED <<kinds, launched, place, readied, cancelled, result>>

(* The wait group is down to zero ... *)
AllExited ==
  /\ main = "wait" /\ \A w \in 1 .. launched : Exited(w)
  /\ main' = "returned" /\ result' = "nil"
  /\ UNCHANGED <<kinds, launched, place, readied, cancelled>>

(* ... or the timeout: an error, and the process exits with it. *)
WaitTimeout ==
  /\ main = "wait"
  /\ main' = "returned" /\ result' = "timeout"
  /\ UNCHANGED <<kinds, launched, place, readied, cancelled>>

Supervise ==
  \/ Launch \/ Ready \/ StartTimeout \/ StartCancelled \/ AllLaunched
  \/ ContextDone \/ AllExited \/ WaitTimeout

-----------------------------------------------------------------------------
Move(w, from, to) ==
  /\ place[w] = from
  /\ place' = [place EXCEPT ![w] = to]
  /\ UNCHANGED <<kinds, main, launched, readied, cancelled, result>>

(* The worker blocks on its ready channel: at once, or when it listens on  *)
(* its port or has its connection; a server's port answers its poll.       *)
Offer(w) ==
  Move(w, IF kinds[w] = "server" THEN "booting" ELSE "starting", "offering")

(* A server: its command meets the goroutine that is to poll the port ... *)
Boot(w) == kinds[w] = "server" /\ Move(w, "starting", "booting")

(* ... or that goroutine is gone with the context: nobody takes the message *)
(* of the command.                                                          *)
BootMissed(w) == kinds[w] = "server" /\ cancelled /\ Move(w, "starting", "stuck")

(* Where Start of a kind can return. *)
ReturnsFrom(kind) ==
  CASE kind = "server" -> {"starting", "booting", "offering", "running"}
    [] kind \in {"inputter", "http"} -> {"starting", "running"}
    [] OTHER -> {"running"}

(* The goroutine that polls a server's port outlives the server's command. *)
After(w) ==
  CASE place[w] = "offering" -> {"ghost"}
    [] place[w] = "booting" -> {"ghost", "exited"}
    [] OTHER -> {"exited"}

(* Mutant of Exit: the others are not cancelled. *)
ExitAlone(w) ==
  /\ place[w] \in ReturnsFrom(kinds[w])
  /\ \E to \in After(w) : place' = [place EXCEPT ![w] = to]
  /\ UNCHANGED <<kinds, main, launched, readied, cancelled, result>>

(* Start of a worker returns: the context is cancelled, and the wait group *)
(* counts one less.                                                        *)
Exit(w) ==
  /\ place[w] \in ReturnsFrom(kinds[w])
  /\ \E to \in After(w) : place' = [place EXCEPT ![w] = to]
  /\ cancelled' = TRUE
  /\ UNCHANGED <<kinds, main, launched, readied, result>>

(* A signal cancels the context of the supervisor. *)
Signal ==
  /\ ~cancelled
  /\ cancelled' = TRUE
  /\ UNCHANGED supVars

(* The process exits or is killed, and is started again. *)
Restart ==
  /\ main' = "launch" /\ launched' = 0
  /\ place' = [w \in Workers |-> "none"]
  /\ readied' = {}
  /\ cancelled' = FALSE
  /\ result' = "none"
  /\ UNCHANGED kinds

Progress(w) == Offer(w) \/ Boot(w) \/ BootMissed(w)

Next ==
  \/ Supervise
  \/ \E w \in Workers : Progress(w) \/ Exit(w)
  \/ Signal
  \/ Restart

Spec == Init /\ [][Next]_<<supVars, cancelled>>

-----------------------------------------------------------------------------
(* The supervisor and its workers are well formed: those launched, and     *)
(* only those, have started.                                               *)
TypeOK ==
  /\ kinds \in Seq(Kinds)
  /\ main \in {"launch", "await", "run", "wait", "returned"}
  /\ launched \in 0 .. Len(kinds)
  /\ main = "await" => launched > 0
  /\ place \in [Workers -> Places]
  /\ \A w \in Workers : place[w] = "none" <=> w > launched
  /\ readied \subseteq 1 .. launched
  /\ cancelled \in BOOLEAN
  /\ result \in {"none", "nil", "timeout"}
  /\ main = "returned" <=> result # "none"
  /\ main \in {"wait", "returned"} => cancelled

(***************************************************************************)
(* A worker is started only after every one before it said it was ready:   *)
(* the inputter after anvil listens, the servers after the inputter has    *)
(* its connection.  A worker that fails, a slow one and a signal in the    *)
(* middle of the start all end it; none is passed over.                    *)
(***************************************************************************)
StartsInOrder == \A w \in 1 .. launched : \A v \in 1 .. w - 1 : v \in readied

(***************************************************************************)
(* A worker that sends to a ready channel nobody receives from any more is *)
(* left so only in a node that is stopping.                                *)
(***************************************************************************)
NotLeftHanging ==
  \A w \in Workers :
    place[w] \in {"offering", "stuck"} => cancelled \/ (main = "await" /\ w = launched)
=============================================================================
