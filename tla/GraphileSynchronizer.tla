------------------------ MODULE GraphileSynchronizer ------------------------
(***************************************************************************)
(* GraphileSynchronizer and GraphileFetcher: the worker that copies the    *)
(* outputs, inputs and reports of a rollups node, served by PostGraphile   *)
(* in pages behind cursors, into the convenience database.                 *)
(*                                                                         *)
(* A cursor is the position in its feed of the last entry read, 0 for the  *)
(* empty string.  Three places hold cursors: the fetcher's fields (memory, *)
(* lost in a crash), the newest synchronizer_fetch row (the database), and *)
(* the row written by the transaction that is open, if any.                *)
(***************************************************************************)
EXTENDS Convenience, Integers, Sequences

CONSTANTS
  Source,            \* Source[f]: everything feed f will ever serve, in order
  BatchSize,         \* DefaultQueryBatchSize
  Undecodable,       \* the rows whose blob makes the decoder return an error
  MaxInterruptions,  \* bound: database errors in a batch, and crashes
  MaxCommitErrors    \* bound: Commit calls that return an error

Feeds == {"outputs", "inputs", "reports"}

(***************************************************************************)
(* Every entry is a row of one table, no two entries are the same row, and *)
(* no table is filled from two feeds (outputs fill the vouchers and the    *)
(* notices, inputs and reports a table each).                              *)
(***************************************************************************)
ASSUME SourceAssumption ==
  /\ Source \in [Feeds -> Seq(Row)]
  /\ \A f, g \in Feeds : \A j \in 1 .. Len(Source[f]), k \in 1 .. Len(Source[g]) :
       /\ Source[f][j] = Source[g][k] => f = g /\ j = k
       /\ Source[f][j].table = Source[g][k].table => f = g

ASSUME BoundsAssumption ==
  /\ BatchSize \in Nat \ {0}
  /\ MaxInterruptions \in Nat
  /\ MaxCommitErrors \in Nat

VARIABLES
  published,     \* published[f]: length of feed f as PostGraphile serves it now
  pc,            \* where the worker is: "down", "fetch", "handle" or "commit"
  cursor,        \* GraphileFetcher.Cursor*After
  page,          \* page[f]: last entry of the page of f in hand (0 between batches)
  tx,            \* the open transaction: what Commit would make of the database
  rows,          \* committed rows of the convenience tables
  saved,         \* End*CursorAfter of the newest committed synchronizer_fetch row
  dropped,       \* history: entries of the batches whose commit was not applied
  interruptions, \* how many interruptions so far
  commitErrors   \* how many Commit calls returned an error so far

vars == <<published, pc, cursor, page, tx, rows, saved, dropped, interruptions, commitErrors>>

NoCursor == 0
Start0 == [f \in Feeds |-> NoCursor]
NoTx == [rows |-> {}, saved |-> Start0, read |-> {}]

Entries(f, lo, hi) == {Source[f][k] : k \in lo + 1 .. hi}
Behind(at) == UNION {Entries(f, 0, at[f]) : f \in Feeds}

(* What the page in hand holds: the first edges after the cursors. *)
Batch == UNION {Entries(f, cursor[f], page[f]) : f \in Feeds}

Init ==
  /\ published = [f \in Feeds |-> 0]
  /\ pc = "down"
  /\ cursor = Start0
  /\ page = Start0
  /\ tx = NoTx
  /\ rows = {}
  /\ saved = Start0
  /\ dropped = {}
  /\ interruptions = 0
  /\ commitErrors = 0

(* The node adds an entry to one of its tables. *)
Publish(f) ==
  /\ published[f] < Len(Source[f])
  /\ published' = [published EXCEPT ![f] = @ + 1]
  /\ UNCHANGED <<pc, cursor, page, tx, rows, saved, dropped, interruptions, commitErrors>>

(* Mutant of Start: the last fetch is not looked up. *)
StartFromScratch ==
  /\ pc = "down"
  /\ pc' = "fetch"
  /\ cursor' = Start0
  /\ UNCHANGED <<published, page, tx, rows, saved, dropped, interruptions, commitErrors>>

(* Start: the fetcher's cursors come from the newest synchronizer_fetch row. *)
Start ==
  /\ pc = "down"
  /\ pc' = "fetch"
  /\ cursor' = saved
  /\ UNCHANGED <<published, page, tx, rows, saved, dropped, interruptions, commitErrors>>

(***************************************************************************)
(* Fetch: one request for the three pages.  A failed request only sleeps   *)
(* and tries again: it changes nothing here.  The HTTP client has neither  *)
(* a timeout nor a context, so a request may never be answered: the worker *)
(* then stays at "fetch", and nothing obliges this step to be taken.       *)
(***************************************************************************)
(* Mutants of PageEnd: a page longer than the feed; the cursor not sent. *)
PageEndPastFeed(f) == cursor[f] + BatchSize
PageEndNoCursor(f) == IF published[f] < BatchSize THEN published[f] ELSE BatchSize

PageEnd(f) ==
  IF published[f] - cursor[f] < BatchSize THEN published[f] ELSE cursor[f] + BatchSize

Fetch ==
  /\ pc = "fetch"
  /\ pc' = "handle"
  /\ page' = [f \in Feeds |-> PageEnd(f)]
  /\ UNCHANGED <<published, cursor, tx, rows, saved, dropped, interruptions, commitErrors>>

(* PageInfo.EndCursor: empty when the page has no edge. *)
EndCursor(f) == IF page[f] > cursor[f] THEN page[f] ELSE NoCursor

(* Mutant of EndCursorAfter: an idle feed's cursor is not carried over. *)
EndCursorAfterForgets(f) == EndCursor(f)

(* end...CursorAfter: the page's end or, failing that, the cursor in force. *)
EndCursorAfter(f) == IF EndCursor(f) # NoCursor THEN EndCursor(f) ELSE cursor[f]

HasMore == \E f \in Feeds : EndCursor(f) # NoCursor

(***************************************************************************)
(* handleGraphileResponse: the whole page is created in one transaction,   *)
(* the synchronizer_fetch row included when any feed moved, and at the end *)
(* the fetcher's cursors move, BEFORE the caller commits.                  *)
(***************************************************************************)
Handle ==
  /\ pc = "handle"
  /\ Batch \cap Undecodable = {}
  /\ tx' = [rows  |-> CreatedAll(rows, Batch),
            saved |-> IF HasMore THEN [f \in Feeds |-> EndCursorAfter(f)] ELSE saved,
            read  |-> Batch]
  /\ cursor' = [f \in Feeds |-> IF EndCursorAfter(f) # NoCursor THEN EndCursorAfter(f) ELSE cursor[f]]
  /\ pc' = "commit"
  /\ page' = Start0
  /\ UNCHANGED <<published, rows, saved, dropped, interruptions, commitErrors>>

(* A decoder error: rollback, and the same cursors are fetched again. *)
RejectBatch ==
  /\ pc = "handle"
  /\ Batch \cap Undecodable # {}
  /\ pc' = "fetch"
  /\ page' = Start0
  /\ UNCHANGED <<published, cursor, tx, rows, saved, dropped, interruptions, commitErrors>>

(* Mutant of AbortBatch: the cursors move although the batch failed. *)
AbortBatchMovesCursors ==
  /\ pc = "handle"
  /\ interruptions < MaxInterruptions
  /\ pc' = "fetch"
  /\ cursor' = page
  /\ interruptions' = interruptions + 1
  /\ page' = Start0
  /\ UNCHANGED <<published, tx, rows, saved, dropped, commitErrors>>

(* A database error, or the 5 second timeout, before the cursors move. *)
AbortBatch ==
  /\ pc = "handle"
  /\ interruptions < MaxInterruptions
  /\ pc' = "fetch"
  /\ interruptions' = interruptions + 1
  /\ page' = Start0
  /\ UNCHANGED <<published, cursor, tx, rows, saved, dropped, commitErrors>>

(* Mutant of Commit: the synchronizer_fetch row is not in the transaction. *)
CommitWithoutCursor ==
  /\ pc = "commit"
  /\ rows' = tx.rows
  /\ tx' = NoTx
  /\ pc' = "fetch"
  /\ UNCHANGED <<published, cursor, page, saved, dropped, interruptions, commitErrors>>

Commit ==
  /\ pc = "commit"
  /\ rows' = tx.rows
  /\ saved' = tx.saved
  /\ tx' = NoTx
  /\ pc' = "fetch"
  /\ UNCHANGED <<published, cursor, page, dropped, interruptions, commitErrors>>

(***************************************************************************)
(* Commit returns an error.  The database may have applied the transaction *)
(* (the answer was lost) or not; callRollback then changes nothing that is *)
(* modelled, the fetcher's cursors included.                               *)
(***************************************************************************)
CommitError ==
  /\ pc = "commit"
  /\ commitErrors < MaxCommitErrors
  /\ commitErrors' = commitErrors + 1
  /\ \/ rows' = tx.rows /\ saved' = tx.saved /\ UNCHANGED dropped
     \/ dropped' = dropped \cup tx.read /\ UNCHANGED <<rows, saved>>
  /\ tx' = NoTx
  /\ pc' = "fetch"
  /\ UNCHANGED <<published, cursor, page, interruptions>>

(* The process stops at any point: memory and the open transaction go. *)
Crash ==
  /\ pc # "down"
  /\ interruptions < MaxInterruptions
  /\ interruptions' = interruptions + 1
  /\ pc' = "down"
  /\ cursor' = Start0
  /\ page' = Start0
  /\ tx' = NoTx
  /\ UNCHANGED <<published, rows, saved, dropped, commitErrors>>

Step == Start \/ Fetch \/ Handle \/ RejectBatch \/ Commit

Next ==
  \/ \E f \in Feeds : Publish(f)
  \/ Step
  \/ AbortBatch
  \/ CommitError
  \/ Crash

Spec == Init /\ [][Next]_vars

(***************************************************************************)
(* A stopped process is started again, a page in hand is handled and a     *)
(* transaction ends (handleWithDBTransaction bounds both by 5 seconds).    *)
(* That a request is answered (Fetch) is not assumed.                      *)
(***************************************************************************)
FairSpec ==
  /\ Spec
  /\ WF_vars(Start) /\ WF_vars(Handle) /\ WF_vars(RejectBatch) /\ WF_vars(Commit)

-----------------------------------------------------------------------------
(* The state is well formed, and no position is past the end of its feed. *)
Positions == {at \in [Feeds -> Nat] : \A f \in Feeds : at[f] <= Len(Source[f])}

TypeOK ==
  /\ \A at \in {published, cursor, page, saved} :
       at \in [Feeds -> Nat] /\ \A f \in Feeds : at[f] <= published[f]
  /\ published \in Positions
  /\ pc \in {"down", "fetch", "handle", "commit"}
  /\ tx.saved \in [Feeds -> Nat] /\ \A f \in Feeds : tx.saved[f] <= published[f]
  /\ tx.rows \subseteq Row /\ tx.read \subseteq Row
  /\ rows \subseteq Row /\ dropped \subseteq Row
  /\ interruptions \in 0 .. MaxInterruptions /\ commitErrors \in 0 .. MaxCommitErrors

(***************************************************************************)
(* handleWithDBTransaction puts the rows and the cursor row of a page in   *)
(* one transaction: whatever is stored lies behind the saved cursors.      *)
(***************************************************************************)
StoredWasRead == rows \subseteq Behind(saved)

(***************************************************************************)
(* No page ever holds an entry that an earlier page already stored,        *)
(* whatever restarts, failed batches and lost commit answers came between: *)
(* the UPDATE branch of ConvenienceService, which would reset `executed`   *)
(* on a voucher, is never taken for a row that is read again.              *)
(***************************************************************************)
NoReplay == pc = "handle" => Batch \cap rows = {}

(***************************************************************************)
(* An entry behind the saved cursors is missing only for one of two        *)
(* reasons: its batch was lost in a Commit that failed (line 96, after the *)
(* cursors moved), or the lookup of the service took another row of the    *)
(* same input for it.  Every other path loses nothing.                     *)
(***************************************************************************)
MissingExplained ==
  \A e \in Behind(saved) \ rows : e \in dropped \/ Found(rows, e)

(***************************************************************************)
(* The first row of each input in each table is never lost to the lookup:  *)
(* once the saved cursors have passed it, it is stored, or its batch is    *)
(* one whose Commit failed.  Aborted batches, crashes and restarts lose    *)
(* none, and neither do the other rows of its page, which                  *)
(* handleGraphileResponse creates in the same transaction.                 *)
(***************************************************************************)
SameInput(r, e) == r.table = e.table /\ r.input = e.input

FirstRowsStored ==
  \A f \in Feeds : \A k \in 1 .. saved[f] :
    (\A j \in 1 .. k - 1 : ~SameInput(Source[f][j], Source[f][k]))
      => Source[f][k] \in rows \cup dropped

(* What docs/convenience.md promises of a resumed synchronization: nothing *)
(* that the newest synchronizer_fetch row has passed is missing.           *)
NoDataLoss == Behind(saved) \subseteq rows

(* What the test of a rolled back batch says of CursorAfter and its like:  *)
(* between two batches the fetcher's cursors are those of the database.    *)
CursorsMatchDatabase == pc = "fetch" => cursor = saved

(* Create of SynchronizerRepository never records an earlier position. *)
SavedNeverGoesBack == [][\A f \in Feeds : saved[f] <= saved'[f]]_vars

(***************************************************************************)
(* The worker implements FeedMirror: committed rows and committed cursors  *)
(* move together, and only over the entries between the cursors.           *)
(***************************************************************************)
Mirror == INSTANCE FeedMirror WITH stored <- rows, read <- saved

MirrorsFeeds == Mirror!Spec

(***************************************************************************)
(* Polling catches up: once the node stops publishing, the saved cursors   *)
(* pass every entry, but for those of the batches whose Commit failed,     *)
(* through crashes and aborted batches.  Only two things stop it for good: *)
(* a request that is never answered, for which the client has no timeout,  *)
(* and an entry of the next page that the decoder refuses each time.       *)
(***************************************************************************)
Unanswered == pc = "fetch"

Poisoned == \E f \in Feeds : Entries(f, cursor[f], PageEnd(f)) \cap Undecodable # {}

CatchesUp ==
  \/ <>[]Unanswered
  \/ <>[]Poisoned
  \/ <>[](Behind(published) \ dropped \subseteq Behind(saved))
=============================================================================
