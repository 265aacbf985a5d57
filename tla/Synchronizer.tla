---------------------------- MODULE Synchronizer ----------------------------
(***************************************************************************)
(* The first Synchronizer and its VoucherFetcher: the worker that copies   *)
(* the outputs of a v1 node, page by page, into the convenience database.  *)
(* Unlike GraphileSynchronizer it has no transaction: each output is       *)
(* stored by itself and the cursor after the whole page, any error but the *)
(* fetcher's ends the worker, and a restart handles the page again.        *)
(*                                                                         *)
(* A cursor is the position in the feed of the last output read.  The      *)
(* decoder takes every output for a notice.                                *)
(***************************************************************************)
EXTENDS Convenience, Integers, Sequences

CONSTANTS
  Feed,         \* the outputs that the node will ever serve: their rows, in order
  BatchSize,    \* outputs in a page
  Undecodable   \* the rows whose payload makes the decoder return an error

VARIABLES
  served,       \* how many of them the node serves now
  at,           \* where the worker is
  cursorAfter,  \* VoucherFetcher.CursorAfter
  page,         \* the last output of the page in hand
  done,         \* the last output handled
  notices,      \* rows of convenience_notices
  saved         \* EndCursorAfter of the newest synchronizer_fetch row

syncVars == <<served, at, cursorAfter, page, done, notices, saved>>

Init ==
  /\ served = 0
  /\ at = "load"
  /\ cursorAfter = 0 /\ page = 0 /\ done = 0
  /\ notices = {}
  /\ saved = 0

(* The node has one more output. *)
Serve ==
  /\ served < Len(Feed)
  /\ served' = served + 1
  /\ UNCHANGED <<at, cursorAfter, page, done, notices, saved>>

-----------------------------------------------------------------------------
(* An error of the database ends the worker. *)
Fails ==
  /\ at \in {"load", "handle", "save"}
  /\ at' = "ended"
  /\ UNCHANGED <<served, cursorAfter, page, done, notices, saved>>

(* Start: the cursor comes from the newest synchronizer_fetch row. *)
Load ==
  /\ at = "load"
  /\ at' = "fetch"
  /\ cursorAfter' = saved
  /\ UNCHANGED <<served, page, done, notices, saved>>

PageEnd == IF served - cursorAfter < BatchSize THEN served ELSE cursorAfter + BatchSize

(* Mutant of Fetch: the cursor is stored before the page is handled. *)
FetchAndSave ==
  /\ at = "fetch"
  /\ at' = "handle"
  /\ page' = PageEnd /\ done' = cursorAfter
  /\ saved' = PageEnd
  /\ UNCHANGED <<served, cursorAfter, notices>>

Fetch ==
  /\ at = "fetch"
  /\ at' = "handle"
  /\ page' = PageEnd /\ done' = cursorAfter
  /\ UNCHANGED <<served, cursorAfter, notices, saved>>

(* No answer, or no JSON: it tries again later. *)
FetchFails ==
  /\ at = "fetch"
  /\ at' = "sleep"
  /\ UNCHANGED <<served, cursorAfter, page, done, notices, saved>>

(* Mutant of Handle: what the decoder refuses is passed over. *)
HandleSkipping ==
  /\ at = "handle" /\ done < page
  /\ done' = done + 1
  /\ notices' = IF Feed[done + 1] \in Undecodable THEN notices
                ELSE Created(notices, notices, Feed[done + 1])
  /\ UNCHANGED <<served, at, cursorAfter, page, saved>>

(* HandleOutputV2 of the next output, which it stores at once. *)
Handle ==
  /\ at = "handle" /\ done < page
  /\ Feed[done + 1] \notin Undecodable
  /\ done' = done + 1
  /\ notices' = Created(notices, notices, Feed[done + 1])
  /\ UNCHANGED <<served, at, cursorAfter, page, saved>>

(* The decoder returns an error. *)
Refuse ==
  /\ at = "handle" /\ done < page
  /\ Feed[done + 1] \in Undecodable
  /\ at' = "ended"
  /\ UNCHANGED <<served, cursorAfter, page, done, notices, saved>>

(* The fetcher's cursor moves, if the page has an end. *)
Handled ==
  /\ at = "handle" /\ done = page
  /\ IF page > cursorAfter THEN cursorAfter' = page /\ at' = "save"
                           ELSE UNCHANGED cursorAfter /\ at' = "sleep"
  /\ UNCHANGED <<served, page, done, notices, saved>>

(* Mutant of Save: the cursor is not stored. *)
SaveNothing ==
  /\ at = "save"
  /\ at' = "sleep"
  /\ UNCHANGED <<served, cursorAfter, page, done, notices, saved>>

Save ==
  /\ at = "save"
  /\ at' = "sleep"
  /\ saved' = cursorAfter
  /\ UNCHANGED <<served, cursorAfter, page, done, notices>>

(* The select: a little wait before another request, or the context. *)
Wake ==
  /\ at = "sleep"
  /\ at' = "fetch"
  /\ UNCHANGED <<served, cursorAfter, page, done, notices, saved>>

Leave ==
  /\ at = "sleep"
  /\ at' = "ended"
  /\ UNCHANGED <<served, cursorAfter, page, done, notices, saved>>

(* The process starts again: what is not in the database is gone. *)
Restart ==
  /\ at' = "load"
  /\ cursorAfter' = 0 /\ page' = 0 /\ done' = 0
  /\ UNCHANGED <<served, notices, saved>>

Poll == Load \/ Fetch \/ Refuse \/ Handled \/ Wake
Store == Handle \/ Save

Next == Serve \/ Poll \/ Store \/ Fails \/ FetchFails \/ Leave \/ Restart

Spec == Init /\ [][Next]_syncVars

-----------------------------------------------------------------------------
Upto(k) == {Feed[j] : j \in 1 .. k}

(* The worker is well formed: it has handled a part of its page. *)
TypeOK ==
  /\ served \in 0 .. Len(Feed)
  /\ at \in {"load", "fetch", "handle", "save", "sleep", "ended"}
  /\ cursorAfter \in 0 .. served /\ page \in 0 .. served /\ done \in 0 .. served
  /\ saved \in 0 .. served
  /\ notices \subseteq Upto(served)

(***************************************************************************)
(* The first output of every input that is behind the saved cursor is      *)
(* stored, wherever between two outputs, or between the last of them and   *)
(* the cursor, the worker failed and the process was started again.  (The  *)
(* later outputs of an input are looked up by the input alone, and lost.)  *)
(***************************************************************************)
NothingSkipped ==
  \A k \in 1 .. saved :
    (\A j \in 1 .. k - 1 : Feed[j].input # Feed[k].input) => Feed[k] \in notices

(***************************************************************************)
(* Neither the cursor nor a row gets past an output that the decoder       *)
(* refuses: at each start the worker handles what is before it in the page *)
(* again, and ends there.                                                  *)
(***************************************************************************)
NeverPastUndecodable ==
  \A k \in 1 .. Len(Feed) :
    Feed[k] \in Undecodable => saved < k /\ notices \subseteq Upto(k - 1)
=============================================================================
