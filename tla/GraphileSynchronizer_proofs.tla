--------------------- MODULE GraphileSynchronizer_proofs ---------------------
(***************************************************************************)
(* Proofs about GraphileSynchronizer: type correctness, the safety         *)
(* invariants and the implementation of FeedMirror, for every source,      *)
(* page size and number of faults.                                         *)
(***************************************************************************)
EXTENDS GraphileSynchronizer, TLAPS

Stretch(lo, hi) == Mirror!Stretch(lo, hi)

AtMost(lo, hi) == \A f \in Feeds : lo[f] <= hi[f]

(***************************************************************************)
(* The inductive invariant.  SkippedWasDropped: between batches, what the  *)
(* fetcher's cursors have passed and the saved ones have not is a batch    *)
(* whose Commit failed.  TxInv: what the open transaction will store, and  *)
(* the cursors it will save, are about the same stretch of the feeds.      *)
(***************************************************************************)
SkippedWasDropped == pc \in {"fetch", "handle"} => Stretch(saved, cursor) \subseteq dropped

TxInv ==
  /\ tx.rows = CreatedAll(rows, tx.read)
  /\ tx.read \subseteq Stretch(saved, tx.saved)
  /\ Stretch(saved, cursor) \subseteq dropped \cup tx.read
  /\ tx.saved = cursor \/ (tx.saved = saved /\ tx.read = {})

IInv ==
  /\ TypeOK
  /\ StoredWasRead
  /\ MissingExplained
  /\ pc # "down" => AtMost(saved, cursor)
  /\ pc = "handle" => AtMost(cursor, page)
  /\ SkippedWasDropped
  /\ pc = "commit" => TxInv

-----------------------------------------------------------------------------
(* Membership in a stretch of the feeds, and in what is behind a position. *)
LEMMA StretchElement ==
  ASSUME NEW lo, NEW hi, NEW e
  PROVE  e \in Stretch(lo, hi) <=>
           \E f \in Feeds : \E k \in lo[f] + 1 .. hi[f] : e = Source[f][k]
BY DEF Stretch, Mirror!Stretch

(* What lies behind a position, as positions in the feeds. *)
LEMMA BehindElement ==
  ASSUME NEW at, NEW e
  PROVE  e \in Behind(at) <=> \E f \in Feeds : \E k \in 1 .. at[f] : e = Source[f][k]
BY DEF Behind, Entries

(**************************************************************************)
(* The page in hand is the stretch of the feeds from the cursors to its    *)
(* end.                                                                    *)
(**************************************************************************)
LEMMA BatchIsStretch == Batch = Stretch(cursor, page)
BY DEF Batch, Entries, Stretch, Mirror!Stretch

(* A position moved forward leaves behind what it had and the stretch. *)
LEMMA BehindSplits ==
  ASSUME NEW lo \in [Feeds -> Nat], NEW hi \in [Feeds -> Nat], AtMost(lo, hi)
  PROVE  Behind(hi) = Behind(lo) \cup Stretch(lo, hi)
<1>1. ASSUME NEW e \in Behind(hi) PROVE e \in Behind(lo) \cup Stretch(lo, hi)
  <2>1. PICK f \in Feeds : \E k \in 1 .. hi[f] : e = Source[f][k]
    BY <1>1, BehindElement
  <2>2. PICK k \in 1 .. hi[f] : e = Source[f][k]
    BY <2>1
  <2>3. lo[f] \in Nat /\ hi[f] \in Nat
    OBVIOUS
  <2>4. CASE k <= lo[f]
    <3>1. k \in 1 .. lo[f] BY <2>2, <2>3, <2>4
    <3> QED BY <3>1, <2>2, BehindElement
  <2>5. CASE ~(k <= lo[f])
    <3>1. k \in lo[f] + 1 .. hi[f] BY <2>2, <2>3, <2>5
    <3> QED BY <3>1, <2>2, StretchElement
  <2> QED BY <2>4, <2>5
<1>2. ASSUME NEW e \in Behind(lo) PROVE e \in Behind(hi)
  <2>1. PICK f \in Feeds : \E k \in 1 .. lo[f] : e = Source[f][k]
    BY <1>2, BehindElement
  <2>2. PICK k \in 1 .. lo[f] : e = Source[f][k]
    BY <2>1
  <2>3. lo[f] \in Nat /\ hi[f] \in Nat /\ lo[f] <= hi[f]
    BY DEF AtMost
  <2>4. k \in 1 .. hi[f]
    BY <2>2, <2>3
  <2> QED BY <2>2, <2>4, BehindElement
<1>3. ASSUME NEW e \in Stretch(lo, hi) PROVE e \in Behind(hi)
  <2>1. PICK f \in Feeds : \E k \in lo[f] + 1 .. hi[f] : e = Source[f][k]
    BY <1>3, StretchElement
  <2>2. PICK k \in lo[f] + 1 .. hi[f] : e = Source[f][k]
    BY <2>1
  <2>3. lo[f] \in Nat /\ hi[f] \in Nat
    OBVIOUS
  <2>4. k \in 1 .. hi[f]
    BY <2>2, <2>3
  <2> QED BY <2>2, <2>4, BehindElement
<1> QED BY <1>1, <1>2, <1>3

(* A stretch between equal positions is empty. *)
LEMMA EmptyStretch ==
  ASSUME NEW at \in [Feeds -> Nat]
  PROVE  Stretch(at, at) = {}
<1>1. ASSUME NEW e \in Stretch(at, at) PROVE FALSE
  <2>1. PICK f \in Feeds : \E k \in at[f] + 1 .. at[f] : e = Source[f][k]
    BY <1>1, StretchElement
  <2>2. at[f] \in Nat
    OBVIOUS
  <2> QED BY <2>1, <2>2
<1> QED BY <1>1

(* What lies between positions inside the feeds is rows. *)
LEMMA StretchOfRows ==
  ASSUME NEW lo \in [Feeds -> Nat], NEW hi \in Positions
  PROVE  Stretch(lo, hi) \subseteq Row
<1> SUFFICES ASSUME NEW e \in Stretch(lo, hi) PROVE e \in Row
  OBVIOUS
<1>1. PICK f \in Feeds : \E k \in lo[f] + 1 .. hi[f] : e = Source[f][k]
  BY StretchElement
<1>2. PICK k \in lo[f] + 1 .. hi[f] : e = Source[f][k]
  BY <1>1
<1>3. lo[f] \in Nat /\ hi[f] \in Nat /\ hi[f] <= Len(Source[f])
  BY DEF Positions
<1>4. Source[f] \in Seq(Row)
  BY SourceAssumption
<1>5. k \in 1 .. Len(Source[f])
  BY <1>2, <1>3, <1>4
<1> QED BY <1>2, <1>4, <1>5

-----------------------------------------------------------------------------
(* The lookup only finds more in a larger database. *)
LEMMA FoundMonotonic ==
  ASSUME NEW small, NEW large, small \subseteq large, NEW e, Found(small, e)
  PROVE  Found(large, e)
BY DEF Found, RowsOfInput

(**************************************************************************)
(* A batch keeps what was stored, adds only entries of its own, and        *)
(* leaves out only entries the lookup finds another row for.               *)
(**************************************************************************)
LEMMA CreatedAllBounds ==
  ASSUME NEW seen, NEW batch
  PROVE  /\ seen \subseteq CreatedAll(seen, batch)
         /\ CreatedAll(seen, batch) \subseteq seen \cup batch
         /\ \A e \in batch \ CreatedAll(seen, batch) : Found(seen, e)
BY DEF CreatedAll

-----------------------------------------------------------------------------
(* TypeOK spelled out for the provers. *)
LEMMA TypeFacts ==
  ASSUME TypeOK
  PROVE  /\ published \in [Feeds -> Nat] /\ cursor \in [Feeds -> Nat]
         /\ page \in [Feeds -> Nat] /\ saved \in [Feeds -> Nat]
         /\ AtMost(cursor, published) /\ AtMost(page, published) /\ AtMost(saved, published)
         /\ published \in Positions /\ cursor \in Positions
         /\ page \in Positions /\ saved \in Positions
<1>1. \A at \in {published, cursor, page, saved} : at \in [Feeds -> Nat] /\ AtMost(at, published)
  BY DEF TypeOK, AtMost
<1>2. published \in Positions /\ \A f \in Feeds : Len(Source[f]) \in Nat
  BY SourceAssumption DEF TypeOK
<1>3. \A f \in Feeds : published[f] <= Len(Source[f])
  BY <1>2 DEF Positions
<1>4. \A at \in {published, cursor, page, saved} : at \in Positions
  <2> SUFFICES ASSUME NEW at \in {published, cursor, page, saved} PROVE at \in Positions
    OBVIOUS
  <2>1. at \in [Feeds -> Nat] /\ AtMost(at, published)
    BY <1>1
  <2>2. \A f \in Feeds : at[f] \in Nat /\ published[f] \in Nat /\ at[f] <= published[f]
    BY <1>1, <2>1 DEF AtMost
  <2>3. \A f \in Feeds : at[f] <= Len(Source[f])
    BY <2>2, <1>2, <1>3
  <2> QED BY <2>1, <2>3 DEF Positions
<1> QED BY <1>1, <1>2, <1>4

(* The empty cursors are positions. *)
LEMMA Start0Type == Start0 \in [Feeds -> Nat] /\ \A f \in Feeds : Start0[f] = 0
BY DEF Start0, NoCursor

(* The page never ends before the cursor, nor after the feed. *)
LEMMA PageEndBounds ==
  ASSUME TypeOK, NEW f \in Feeds
  PROVE  PageEnd(f) \in Nat /\ cursor[f] <= PageEnd(f) /\ PageEnd(f) <= published[f]
BY TypeFacts, BoundsAssumption DEF PageEnd, AtMost

(***************************************************************************)
(* handleGraphileResponse leaves the fetcher at the end of the page, and   *)
(* the transaction either saves that position or, when no feed moved,      *)
(* holds nothing.                                                          *)
(***************************************************************************)
LEMMA HandlePositions ==
  ASSUME IInv, Handle
  PROVE  /\ cursor' = page
         /\ tx'.rows = CreatedAll(rows, tx'.read)
         /\ tx'.read = Stretch(cursor, page)
         /\ tx'.saved = page \/ (tx'.saved = saved /\ tx'.read = {})
<1> USE TypeFacts DEF IInv
<1>1. pc = "handle" /\ AtMost(cursor, page)
  BY DEF Handle
<1>2. ASSUME NEW f \in Feeds PROVE EndCursorAfter(f) = page[f]
  BY <1>1 DEF EndCursorAfter, EndCursor, NoCursor, AtMost
<1>3. cursor' = [f \in Feeds |-> page[f]]
  <2>1. ASSUME NEW f \in Feeds
        PROVE  (IF EndCursorAfter(f) # NoCursor THEN EndCursorAfter(f) ELSE cursor[f]) = page[f]
    BY <1>1, <1>2 DEF NoCursor, AtMost
  <2> QED BY <2>1 DEF Handle
<1>4. tx'.rows = CreatedAll(rows, Batch) /\ tx'.read = Batch
  BY DEF Handle
<1>5. CASE HasMore
  <2>1. tx'.saved = [f \in Feeds |-> page[f]]
    BY <1>2, <1>5 DEF Handle
  <2> QED BY <1>3, <1>4, <2>1, BatchIsStretch
<1>6. CASE ~HasMore
  <2>1. tx'.saved = saved
    BY <1>6 DEF Handle
  <2>2. \A f \in Feeds : page[f] = cursor[f]
    BY <1>1, <1>6 DEF HasMore, EndCursor, NoCursor, AtMost
  <2>3. page = cursor
    BY <2>2
  <2>4. Batch = {}
    BY <2>3, EmptyStretch, BatchIsStretch
  <2> QED BY <1>3, <1>4, <2>1, <2>4, BatchIsStretch
<1> QED BY <1>5, <1>6

(***************************************************************************)
(* Applying the open transaction: what both a successful Commit and a      *)
(* Commit whose answer was lost do to the database.                        *)
(***************************************************************************)
Applied == pc = "commit" /\ rows' = tx.rows /\ saved' = tx.saved

LEMMA AppliedMoves ==
  ASSUME IInv, Applied
  PROVE  /\ saved' \in [Feeds -> Nat] /\ AtMost(saved', published)
         /\ AtMost(saved, saved') /\ AtMost(saved', cursor)
         /\ rows \subseteq rows' /\ rows' \subseteq rows \cup tx.read
         /\ tx.read \subseteq Stretch(saved, saved')
<1> USE TypeFacts DEF IInv, Applied
<1>1. TxInv
  OBVIOUS
<1>2. rows \subseteq rows' /\ rows' \subseteq rows \cup tx.read
  BY <1>1, CreatedAllBounds DEF TxInv
<1>3. tx.saved = cursor \/ tx.saved = saved
  BY <1>1 DEF TxInv
<1>4. AtMost(saved, cursor)
  OBVIOUS
<1>5. AtMost(saved, saved) /\ AtMost(cursor, cursor)
  BY DEF AtMost
<1> QED BY <1>1, <1>2, <1>3, <1>4, <1>5 DEF TxInv

(* The stored rows stay behind the saved cursors. *)
LEMMA AppliedKeepsStored ==
  ASSUME IInv, Applied
  PROVE  StoredWasRead'
<1>1. Behind(saved') = Behind(saved) \cup Stretch(saved, saved')
  BY AppliedMoves, TypeFacts, BehindSplits DEF IInv
<1>2. rows \subseteq Behind(saved) /\ rows' \subseteq rows \cup tx.read
  BY AppliedMoves DEF IInv, StoredWasRead
<1>3. rows' \subseteq Behind(saved')
  BY <1>1, <1>2, AppliedMoves
<1> QED BY <1>3 DEF StoredWasRead, Behind, Entries

(* What is missing stays explained. *)
LEMMA AppliedKeepsMissing ==
  ASSUME IInv, Applied, UNCHANGED dropped
  PROVE  MissingExplained'
<1> USE DEF IInv
<1>1. ASSUME NEW e \in Behind(saved'), e \notin rows'
      PROVE  e \in dropped \/ Found(rows', e)
  <2>1. Behind(saved') = Behind(saved) \cup Stretch(saved, saved')
    BY AppliedMoves, TypeFacts, BehindSplits
  <2>2. CASE e \in Behind(saved)
    <3>1. e \in dropped \/ Found(rows, e)
      BY <1>1, <2>2, AppliedMoves DEF MissingExplained
    <3> QED BY <3>1, AppliedMoves, FoundMonotonic
  <2>3. CASE e \in Stretch(saved, saved')
    <3>1. TxInv
      BY DEF Applied
    <3>2. tx.saved = cursor \/ Stretch(saved, saved') = {}
      BY <3>1, EmptyStretch, TypeFacts DEF TxInv, Applied
    <3>3. e \in dropped \cup tx.read
      BY <2>3, <3>1, <3>2 DEF TxInv, Applied
    <3>4. e \in tx.read => Found(rows, e)
      BY <1>1, <3>1, CreatedAllBounds DEF TxInv, Applied
    <3> QED BY <3>3, <3>4, AppliedMoves, FoundMonotonic
  <2> QED BY <1>1, <2>1, <2>2, <2>3
<1>2. Behind(saved)' = Behind(saved')
  BY DEF Behind, Entries
<1>3. \A e : Found(rows, e)' <=> Found(rows', e)
  BY DEF Found, RowsOfInput
<1> QED BY <1>1, <1>2, <1>3 DEF MissingExplained

(**************************************************************************)
(* Once it is applied the saved cursors have caught up with the            *)
(* fetcher's, but for dropped batches.                                     *)
(**************************************************************************)
LEMMA AppliedLeavesSkipped ==
  ASSUME IInv, Applied, UNCHANGED <<cursor, dropped>>
  PROVE  SkippedWasDropped'
<1> USE TypeFacts DEF IInv, Applied
<1>1. TxInv
  OBVIOUS
<1>2. Stretch(saved', cursor) \subseteq dropped
  BY <1>1, EmptyStretch DEF TxInv
<1> QED BY <1>2 DEF SkippedWasDropped, Stretch, Mirror!Stretch

-----------------------------------------------------------------------------
(* Every action keeps the state well formed. *)
LEMMA TypeStep ==
  ASSUME IInv, Next
  PROVE  TypeOK'
<1> USE TypeFacts, Start0Type DEF IInv
<1>a. TypeOK
  OBVIOUS
<1>b. ASSUME published' \in Positions,
             published' \in [Feeds -> Nat], cursor' \in [Feeds -> Nat],
             page' \in [Feeds -> Nat], saved' \in [Feeds -> Nat],
             AtMost(cursor', published'), AtMost(page', published'), AtMost(saved', published'),
             pc' \in {"down", "fetch", "handle", "commit"},
             tx'.saved \in [Feeds -> Nat], AtMost(tx'.saved, published'),
             tx'.rows \subseteq Row, tx'.read \subseteq Row,
             rows' \subseteq Row, dropped' \subseteq Row,
             interruptions' \in 0 .. MaxInterruptions, commitErrors' \in 0 .. MaxCommitErrors
      PROVE  TypeOK'
  <2>1. AtMost(published', published')
    BY <1>b DEF AtMost
  <2>2. \A at \in {published', cursor', page', saved'} :
          at \in [Feeds -> Nat] /\ \A f \in Feeds : at[f] <= published'[f]
    BY <1>b, <2>1 DEF AtMost
  <2>3. \A f \in Feeds : tx'.saved[f] <= published'[f]
    BY <1>b DEF AtMost
  <2>4. (\A at \in {published, cursor, page, saved} :
           at \in [Feeds -> Nat] /\ \A f \in Feeds : at[f] <= published[f])'
    BY <2>2
  <2>5. Positions' = Positions
    BY DEF Positions
  <2> QED BY <1>b, <2>3, <2>4, <2>5 DEF TypeOK
<1>c. /\ AtMost(Start0, published) /\ AtMost(tx.saved, published)
      /\ NoTx.saved = Start0 /\ NoTx.rows = {} /\ NoTx.read = {}
  BY <1>a DEF TypeOK, AtMost, NoTx
<1>1. ASSUME NEW f \in Feeds, Publish(f) PROVE TypeOK'
  <2>1. published[f] + 1 <= Len(Source[f]) /\ published'[f] = published[f] + 1
    BY <1>1, <1>a, SourceAssumption DEF Publish
  <2>2. published' \in [Feeds -> Nat] /\ published' \in Positions
    <3>1. published' = [published EXCEPT ![f] = @ + 1] /\ published \in [Feeds -> Nat]
      BY <1>1 DEF Publish
    <3>2. published' \in [Feeds -> Nat]
      BY <3>1
    <3>3. \A g \in Feeds : published[g] <= Len(Source[g])
      BY DEF Positions
    <3>4. \A g \in Feeds : published'[g] <= Len(Source[g])
      BY <3>1, <3>3, <2>1
    <3> QED BY <3>2, <3>4 DEF Positions
  <2>3. \A g \in Feeds : published[g] <= published'[g]
    BY <1>1 DEF Publish
  <2>4. ASSUME NEW at \in [Feeds -> Nat], AtMost(at, published) PROVE AtMost(at, published')
    BY <2>2, <2>3, <2>4 DEF AtMost
  <2> QED BY <1>1, <1>a, <1>b, <1>c, <2>2, <2>4 DEF Publish, TypeOK
<1>2. CASE Start
  BY <1>2, <1>a, <1>b, <1>c DEF Start, TypeOK
<1>3. CASE Fetch
  <2>1. page' = [f \in Feeds |-> PageEnd(f)]
    BY <1>3 DEF Fetch
  <2>2. page' \in [Feeds -> Nat] /\ AtMost(page', published)
    BY <2>1, <1>a, PageEndBounds DEF AtMost
  <2> QED BY <1>3, <2>2, <1>a, <1>b, <1>c DEF Fetch, TypeOK
<1>4. CASE Handle
  <2>1. Stretch(cursor, page) \subseteq Row
    BY StretchOfRows
  <2>2. CreatedAll(rows, tx'.read) \subseteq Row
    BY <1>4, <2>1, HandlePositions, CreatedAllBounds DEF TypeOK
  <2>3. tx'.saved \in [Feeds -> Nat] /\ AtMost(tx'.saved, published)
    BY <1>4, HandlePositions
  <2>4. /\ cursor' \in [Feeds -> Nat] /\ AtMost(cursor', published)
        /\ tx'.rows \subseteq Row /\ tx'.read \subseteq Row
    BY <1>4, <2>1, <2>2, HandlePositions
  <2> QED BY <1>4, <2>3, <2>4, <1>a, <1>b, <1>c DEF Handle, TypeOK
<1>5. CASE RejectBatch
  BY <1>5, <1>a, <1>b, <1>c DEF RejectBatch, TypeOK
<1>6. CASE AbortBatch
  <2>1. interruptions' \in 0 .. MaxInterruptions
    BY <1>6, <1>a, BoundsAssumption DEF AbortBatch, TypeOK
  <2> QED BY <1>6, <2>1, <1>a, <1>b, <1>c DEF AbortBatch, TypeOK
<1>7. CASE Commit
  <2>1. saved' \in [Feeds -> Nat] /\ AtMost(saved', published)
    BY <1>7, AppliedMoves DEF Commit, Applied
  <2> QED BY <1>7, <2>1, <1>a, <1>b, <1>c DEF Commit, TypeOK
<1>8. CASE CommitError
  <2>1. commitErrors' \in 0 .. MaxCommitErrors
    BY <1>8, <1>a, BoundsAssumption DEF CommitError, TypeOK
  <2>2. /\ saved' \in [Feeds -> Nat] /\ AtMost(saved', published)
        /\ rows' \subseteq Row /\ dropped' \subseteq Row
    BY <1>8, <1>a, <1>c DEF CommitError, TypeOK
  <2> QED BY <1>8, <2>1, <2>2, <1>a, <1>b, <1>c DEF CommitError, TypeOK
<1>9. CASE Crash
  <2>1. interruptions' \in 0 .. MaxInterruptions
    BY <1>9, <1>a, BoundsAssumption DEF Crash, TypeOK
  <2> QED BY <1>9, <2>1, <1>a, <1>b, <1>c DEF Crash, TypeOK
<1> QED BY <1>1, <1>2, <1>3, <1>4, <1>5, <1>6, <1>7, <1>8, <1>9 DEF Next, Step

(* Nothing is stored and nothing is read in the initial state. *)
LEMMA InitInvariant == Init => IInv
<1> SUFFICES ASSUME Init PROVE IInv
  OBVIOUS
<1> USE Start0Type DEF Init
<1>1. Len(Source["outputs"]) \in Nat /\ \A f \in Feeds : Len(Source[f]) \in Nat
  BY SourceAssumption DEF Feeds
<1>2. published = Start0
  BY DEF Start0, NoCursor
<1>3. TypeOK
  BY <1>1, <1>2, BoundsAssumption DEF TypeOK, Positions, NoTx
<1>4. Behind(saved) = {}
  <2>1. \A f \in Feeds : 1 .. saved[f] = {}
    OBVIOUS
  <2>2. ASSUME NEW e \in Behind(saved) PROVE FALSE
    BY <2>1, BehindElement
  <2> QED BY <2>2
<1>5. pc = "down" /\ rows = {}
  OBVIOUS
<1> QED BY <1>3, <1>4, <1>5 DEF IInv, StoredWasRead, MissingExplained, SkippedWasDropped

(* Every action keeps the rest of the invariant. *)
LEMMA SafetyStep ==
  ASSUME IInv, Next
  PROVE  IInv'
<1> USE TypeFacts, Start0Type DEF IInv
<1>a. TypeOK'
  BY TypeStep
<1>b. AtMost(saved, saved) /\ AtMost(cursor, cursor)
  BY DEF AtMost
<1>c. ASSUME UNCHANGED <<rows, saved, dropped>> PROVE StoredWasRead' /\ MissingExplained'
  BY <1>c DEF StoredWasRead, MissingExplained, Behind, Entries, Found, RowsOfInput
<1>d. ASSUME UNCHANGED <<saved, cursor, dropped>>, pc \in {"fetch", "handle"}
      PROVE  SkippedWasDropped'
  BY <1>d DEF SkippedWasDropped, Stretch, Mirror!Stretch
<1>1. ASSUME NEW f \in Feeds, Publish(f) PROVE IInv'
  BY <1>1, <1>a, <1>c DEF Publish, SkippedWasDropped, TxInv, AtMost, Stretch, Mirror!Stretch,
     CreatedAll, Found, RowsOfInput
<1>2. CASE Start
  <2>1. Stretch(saved, saved) = {}
    BY EmptyStretch
  <2>2. SkippedWasDropped'
    BY <1>2, <2>1 DEF Start, SkippedWasDropped, Stretch, Mirror!Stretch
  <2>3. AtMost(saved, cursor)'
    BY <1>2, <1>b DEF Start, AtMost
  <2> QED BY <1>2, <1>a, <1>c, <2>2, <2>3 DEF Start
<1>3. CASE Fetch
  <2>1. \A f \in Feeds : cursor[f] <= PageEnd(f)
    BY PageEndBounds
  <2>2. AtMost(cursor, page)' /\ AtMost(saved, cursor)'
    BY <1>3, <2>1 DEF Fetch, AtMost
  <2> QED BY <1>3, <1>a, <1>c, <1>d, <2>2 DEF Fetch
<1>4. CASE Handle
  <2>1. pc = "handle" /\ AtMost(saved, cursor) /\ AtMost(cursor, page)
    BY <1>4 DEF Handle
  <2>2. AtMost(saved, page)
    BY <2>1 DEF AtMost
  <2>3. Stretch(saved, page) \subseteq Stretch(saved, cursor) \cup Stretch(cursor, page)
    <3>1. ASSUME NEW e \in Stretch(saved, page)
          PROVE  e \in Stretch(saved, cursor) \cup Stretch(cursor, page)
      <4>1. PICK f \in Feeds : \E k \in saved[f] + 1 .. page[f] : e = Source[f][k]
        BY StretchElement
      <4>2. PICK k \in saved[f] + 1 .. page[f] : e = Source[f][k]
        BY <4>1
      <4>3. k \in saved[f] + 1 .. cursor[f] \/ k \in cursor[f] + 1 .. page[f]
        BY <4>2
      <4> QED BY <4>2, <4>3, StretchElement
    <3> QED BY <3>1
  <2>4. Stretch(cursor, page) \subseteq Stretch(saved, page)
    <3>1. ASSUME NEW e \in Stretch(cursor, page) PROVE e \in Stretch(saved, page)
      <4>1. PICK f \in Feeds : \E k \in cursor[f] + 1 .. page[f] : e = Source[f][k]
        BY StretchElement
      <4>2. PICK k \in cursor[f] + 1 .. page[f] : e = Source[f][k]
        BY <4>1
      <4>3. k \in saved[f] + 1 .. page[f]
        BY <4>2, <2>1 DEF AtMost
      <4> QED BY <4>2, <4>3, StretchElement
    <3> QED BY <3>1
  <2>5. Stretch(saved, cursor) \subseteq dropped
    BY <2>1 DEF SkippedWasDropped
  <2>6. /\ cursor' = page /\ tx'.rows = CreatedAll(rows, tx'.read)
        /\ tx'.read = Stretch(cursor, page)
        /\ tx'.saved = page \/ (tx'.saved = saved /\ tx'.read = {})
    BY <1>4, HandlePositions
  <2>7. UNCHANGED <<rows, saved, dropped>> /\ pc' = "commit"
    BY <1>4 DEF Handle
  <2>8. TxInv'
    <3>1. (tx.rows = CreatedAll(rows, tx.read))'
      BY <2>6, <2>7 DEF CreatedAll, Found, RowsOfInput
    <3>2. (tx.read \subseteq Stretch(saved, tx.saved))'
      <4>1. tx'.read \subseteq Stretch(saved, tx'.saved)
        BY <2>4, <2>6
      <4> QED BY <4>1, <2>7 DEF Stretch, Mirror!Stretch
    <3>3. (Stretch(saved, cursor) \subseteq dropped \cup tx.read)'
      BY <2>3, <2>5, <2>6, <2>7 DEF Stretch, Mirror!Stretch
    <3> QED BY <3>1, <3>2, <3>3, <2>6, <2>7 DEF TxInv
  <2>9. AtMost(saved, cursor)'
    BY <2>2, <2>6, <2>7 DEF AtMost
  <2> QED BY <1>a, <1>c, <2>7, <2>8, <2>9 DEF SkippedWasDropped
<1>5. CASE RejectBatch
  BY <1>5, <1>a, <1>c, <1>d DEF RejectBatch, AtMost
<1>6. CASE AbortBatch
  BY <1>6, <1>a, <1>c, <1>d DEF AbortBatch, AtMost
<1>7. ASSUME Applied, UNCHANGED <<cursor, dropped>>, pc' = "fetch" PROVE IInv'
  <2>1. StoredWasRead' /\ MissingExplained' /\ SkippedWasDropped'
    BY <1>7, AppliedKeepsStored, AppliedKeepsMissing, AppliedLeavesSkipped
  <2>2. AtMost(saved, cursor)'
    BY <1>7, AppliedMoves DEF AtMost
  <2> QED BY <1>7, <1>a, <2>1, <2>2
<1>8. CASE Commit
  BY <1>8, <1>7 DEF Commit, Applied
<1>9. CASE CommitError
  <2>1. CASE rows' = tx.rows /\ saved' = tx.saved /\ UNCHANGED dropped
    BY <1>9, <2>1, <1>7 DEF CommitError, Applied
  <2>2. CASE dropped' = dropped \cup tx.read /\ UNCHANGED <<rows, saved>>
    <3>1. TxInv
      BY <1>9 DEF CommitError
    <3>2. SkippedWasDropped'
      BY <1>9, <2>2, <3>1 DEF CommitError, SkippedWasDropped, TxInv, Stretch, Mirror!Stretch
    <3>3. StoredWasRead' /\ MissingExplained'
      BY <2>2 DEF StoredWasRead, MissingExplained, Behind, Entries, Found, RowsOfInput
    <3>4. AtMost(saved, cursor)'
      BY <1>9, <2>2 DEF CommitError, AtMost
    <3> QED BY <1>9, <1>a, <3>2, <3>3, <3>4 DEF CommitError
  <2> QED BY <1>9, <2>1, <2>2 DEF CommitError
<1>10. CASE Crash
  BY <1>10, <1>a, <1>c DEF Crash, SkippedWasDropped
<1> QED BY <1>1, <1>2, <1>3, <1>4, <1>5, <1>6, <1>8, <1>9, <1>10 DEF Next, Step

(* A step that changes no variable keeps the invariant. *)
LEMMA StutterKeepsInvariant ==
  ASSUME IInv, UNCHANGED vars
  PROVE  IInv'
<1> USE DEF IInv, vars
<1>1. TypeOK'
  BY DEF TypeOK, Positions
<1>2. StoredWasRead' /\ MissingExplained'
  BY DEF StoredWasRead, MissingExplained, Behind, Entries, Found, RowsOfInput
<1>3. SkippedWasDropped'
  BY DEF SkippedWasDropped, Stretch, Mirror!Stretch
<1>4. pc = "commit" => TxInv'
  BY DEF TxInv, Stretch, Mirror!Stretch, CreatedAll, Found, RowsOfInput
<1> QED BY <1>1, <1>2, <1>3, <1>4 DEF AtMost

-----------------------------------------------------------------------------
(* The invariant holds in every reachable state. *)
THEOREM InvariantHolds == Spec => []IInv
<1>1. Init => IInv
  BY InitInvariant
<1>2. IInv /\ [Next]_vars => IInv'
  BY SafetyStep, StutterKeepsInvariant
<1> QED BY <1>1, <1>2, PTL DEF Spec

(***************************************************************************)
(* Type correctness of the worker, its transaction and the database, and   *)
(* no cursor, saved or in memory, past what the node has published.        *)
(***************************************************************************)
THEOREM TypeCorrect == Spec => []TypeOK
<1>1. IInv => TypeOK
  BY DEF IInv
<1> QED BY <1>1, InvariantHolds, PTL

(***************************************************************************)
(* handleWithDBTransaction: what is stored always lies behind the saved    *)
(* cursors, whatever crashes, aborted batches and failed Commits occur.    *)
(***************************************************************************)
THEOREM StoredIsBehindCursors == Spec => []StoredWasRead
<1>1. IInv => StoredWasRead
  BY DEF IInv
<1> QED BY <1>1, InvariantHolds, PTL

(***************************************************************************)
(* Entries behind the saved cursors are missing only through a failed      *)
(* Commit or the lookup of ConvenienceService.                             *)
(***************************************************************************)
THEOREM LossesAreExplained == Spec => []MissingExplained
<1>1. IInv => MissingExplained
  BY DEF IInv
<1> QED BY <1>1, InvariantHolds, PTL

(***************************************************************************)
(* No page fetched holds an entry that is already stored: rows lie behind  *)
(* the saved cursors, the page after the fetcher's, which are not earlier, *)
(* and no two entries of the feeds are the same row.                       *)
(***************************************************************************)
THEOREM NothingIsReplayed == Spec => []NoReplay
<1>1. IInv => NoReplay
  <2> SUFFICES ASSUME IInv, pc = "handle", NEW e \in Batch, e \in rows PROVE FALSE
    BY DEF NoReplay
  <2> USE TypeFacts DEF IInv
  <2>1. e \in Behind(saved) /\ e \in Stretch(cursor, page)
    BY BatchIsStretch DEF StoredWasRead
  <2>2. PICK f \in Feeds : \E k \in 1 .. saved[f] : e = Source[f][k]
    BY <2>1, BehindElement
  <2>3. PICK k \in 1 .. saved[f] : e = Source[f][k]
    BY <2>2
  <2>4. PICK g \in Feeds : \E j \in cursor[g] + 1 .. page[g] : e = Source[g][j]
    BY <2>1, StretchElement
  <2>5. PICK j \in cursor[g] + 1 .. page[g] : e = Source[g][j]
    BY <2>4
  <2>6. Len(Source[f]) \in Nat /\ Len(Source[g]) \in Nat
    BY SourceAssumption
  <2>7. k \in 1 .. Len(Source[f]) /\ j \in 1 .. Len(Source[g])
    BY <2>3, <2>5, <2>6 DEF Positions
  <2>8. f = g /\ j = k
    <3>1. Source[f][k] = Source[g][j]
      BY <2>3, <2>5
    <3>2. \A h1, h2 \in Feeds : \A m \in 1 .. Len(Source[h1]), n \in 1 .. Len(Source[h2]) :
            /\ Source[h1][m] = Source[h2][n] => h1 = h2 /\ m = n
            /\ Source[h1][m].table = Source[h2][n].table => h1 = h2
      BY SourceAssumption
    <3> QED BY ONLY <2>7, <3>1, <3>2
  <2>9. saved[f] <= cursor[f]
    BY DEF AtMost
  <2> QED BY <2>3, <2>5, <2>8, <2>9
<1> QED BY <1>1, InvariantHolds, PTL

(* The only steps that touch the database apply the open transaction. *)
LEMMA DatabaseStep ==
  ASSUME IInv, [Next]_vars
  PROVE  Applied \/ UNCHANGED <<rows, saved>>
BY DEF Next, Step, vars, Publish, Start, Fetch, Handle, RejectBatch, AbortBatch, Commit,
   CommitError, Crash, Applied

(***************************************************************************)
(* The synchronizer_fetch rows only move forward, restarts included.       *)
(***************************************************************************)
THEOREM CursorsOnlyAdvance == Spec => SavedNeverGoesBack
<1>1. IInv /\ [Next]_vars => [\A f \in Feeds : saved[f] <= saved'[f]]_vars
  <2> SUFFICES ASSUME IInv, [Next]_vars PROVE \A f \in Feeds : saved[f] <= saved'[f]
    OBVIOUS
  <2>1. CASE Applied
    BY <2>1, AppliedMoves DEF AtMost
  <2>2. CASE UNCHANGED saved
    BY <2>2, TypeFacts DEF IInv
  <2> QED BY <2>1, <2>2, DatabaseStep
<1> QED BY <1>1, InvariantHolds, PTL DEF Spec, SavedNeverGoesBack

(***************************************************************************)
(* The worker implements FeedMirror: each Commit moves the saved cursors   *)
(* forward and stores rows of just the stretch they move over.             *)
(***************************************************************************)
THEOREM ImplementsMirror == Spec => MirrorsFeeds
<1>1. Init => Mirror!Init
  BY DEF Init, Mirror!Init, Start0, NoCursor
<1>2. IInv /\ [Next]_vars => [Mirror!Next]_(Mirror!mirrorVars)
  <2> SUFFICES ASSUME IInv, [Next]_vars, Applied PROVE Mirror!Next
    BY DatabaseStep DEF Mirror!mirrorVars
  <2>1. saved' \in [Feeds -> Nat] /\ AtMost(saved, saved') /\ AtMost(saved', cursor)
    BY AppliedMoves
  <2>2. cursor \in Positions /\ cursor \in [Feeds -> Nat]
    BY TypeFacts DEF IInv
  <2>3. ASSUME NEW f \in Feeds PROVE saved[f] <= saved'[f] /\ saved'[f] <= Len(Source[f])
    <3>1. saved'[f] \in Nat /\ cursor[f] \in Nat /\ Len(Source[f]) \in Nat
      BY <2>1, <2>2, SourceAssumption
    <3> QED BY <2>1, <2>2, <3>1 DEF AtMost, Positions
  <2>4. rows \subseteq rows' /\ rows' \ rows \subseteq Mirror!Stretch(saved, saved')
    BY AppliedMoves DEF Stretch
  <2> QED BY <2>1, <2>3, <2>4 DEF Mirror!Next, Mirror!Advance
<1> QED BY <1>1, <1>2, InvariantHolds, PTL DEF Spec, MirrorsFeeds, Mirror!Spec

-----------------------------------------------------------------------------
(* No step takes an entry off the dropped ones. *)
LEMMA DroppedOnlyGrows ==
  ASSUME [Next]_vars
  PROVE  dropped \subseteq dropped'
BY DEF Next, Step, vars, Publish, Start, Fetch, Handle, RejectBatch, AbortBatch, Commit,
   CommitError, Crash

(***************************************************************************)
(* Applying the transaction keeps FirstRowsStored: a row the lookup finds  *)
(* lies behind the saved cursors, in the one feed of its table, and so     *)
(* before every entry of the batch.                                        *)
(***************************************************************************)
LEMMA AppliedStoresFirstRows ==
  ASSUME IInv, FirstRowsStored, Applied, dropped \subseteq dropped'
  PROVE  FirstRowsStored'
<1> SUFFICES ASSUME NEW f \in Feeds, NEW k \in 1 .. saved'[f],
                    \A j \in 1 .. k - 1 : ~SameInput(Source[f][j], Source[f][k])
             PROVE  Source[f][k] \in rows' \cup dropped'
  BY DEF FirstRowsStored, SameInput
<1> USE TypeFacts DEF IInv
<1>1. saved[f] \in Nat /\ saved'[f] \in Nat /\ k \in Nat
  BY AppliedMoves
<1>2. CASE k <= saved[f]
  <2>1. k \in 1 .. saved[f]
    BY <1>1, <1>2
  <2>2. Source[f][k] \in rows \cup dropped
    BY <2>1 DEF FirstRowsStored
  <2> QED BY <2>2, AppliedMoves
<1>3. CASE ~(k <= saved[f])
  <2>1. k \in saved[f] + 1 .. saved'[f]
    BY <1>1, <1>3
  <2>2. Source[f][k] \in Stretch(saved, saved')
    BY <2>1, StretchElement
  <2>3. TxInv
    BY DEF Applied
  <2>4. tx.saved = cursor \/ Stretch(saved, saved') = {}
    BY <2>3, EmptyStretch DEF TxInv, Applied
  <2>5. Source[f][k] \in dropped \cup tx.read
    BY <2>2, <2>3, <2>4 DEF TxInv, Applied
  <2>6. ASSUME Source[f][k] \in tx.read, Source[f][k] \notin rows' PROVE FALSE
    <3>1. Found(rows, Source[f][k])
      BY <2>3, <2>6, CreatedAllBounds DEF TxInv, Applied
    <3>2. PICK r \in rows : SameInput(r, Source[f][k])
      BY <3>1 DEF Found, RowsOfInput, SameInput
    <3>3. PICK g \in Feeds : \E j \in 1 .. saved[g] : r = Source[g][j]
      BY <3>2, BehindElement DEF StoredWasRead
    <3>4. PICK j \in 1 .. saved[g] : r = Source[g][j]
      BY <3>3
    <3>5. Len(Source[f]) \in Nat /\ Len(Source[g]) \in Nat /\ cursor[f] \in Nat
      BY SourceAssumption
    <3>6. saved'[f] <= Len(Source[f]) /\ saved[g] <= Len(Source[g])
      BY AppliedMoves, <1>1, <3>5 DEF Positions, AtMost
    <3>7. k \in 1 .. Len(Source[f]) /\ j \in 1 .. Len(Source[g])
      BY <1>1, <3>4, <3>5, <3>6
    <3>8. Source[g][j].table = Source[f][k].table
      BY <3>2, <3>4 DEF SameInput
    <3>9. g = f
      <4>1. \A h1, h2 \in Feeds : \A m \in 1 .. Len(Source[h1]), n \in 1 .. Len(Source[h2]) :
              Source[h1][m].table = Source[h2][n].table => h1 = h2
        BY SourceAssumption
      <4> QED BY <3>7, <3>8, <4>1
    <3>10. j \in 1 .. k - 1
      BY <1>1, <1>3, <3>4, <3>9
    <3> QED BY <3>2, <3>4, <3>9, <3>10
  <2> QED BY <2>5, <2>6
<1> QED BY <1>2, <1>3

(***************************************************************************)
(* The first row of each input in each table is stored once the saved      *)
(* cursors have passed it, unless its batch is one whose Commit failed.    *)
(***************************************************************************)
THEOREM FirstRowsAreStored == Spec => []FirstRowsStored
<1>1. Init => FirstRowsStored
  BY Start0Type DEF Init, FirstRowsStored
<1>2. IInv /\ FirstRowsStored /\ [Next]_vars => FirstRowsStored'
  <2> SUFFICES ASSUME IInv, FirstRowsStored, [Next]_vars PROVE FirstRowsStored'
    OBVIOUS
  <2>1. CASE Applied
    BY <2>1, AppliedStoresFirstRows, DroppedOnlyGrows
  <2>2. CASE UNCHANGED <<rows, saved>>
    BY <2>2, DroppedOnlyGrows DEF FirstRowsStored, SameInput
  <2> QED BY <2>1, <2>2, DatabaseStep
<1> QED BY <1>1, <1>2, InvariantHolds, PTL DEF Spec

(* No input has two rows of one table anywhere in the feeds. *)
OneRowPerInput ==
  \A f, g \in Feeds : \A j \in 1 .. Len(Source[f]), k \in 1 .. Len(Source[g]) :
    /\ Source[f][j].table = Source[g][k].table
    /\ Source[f][j].input = Source[g][k].input
    => Source[f][j] = Source[g][k]

(* What the saved cursors have passed is what is stored, no more, no less. *)
ExactMirror == rows = Behind(saved)

-----------------------------------------------------------------------------
(* While no Commit fails nothing is dropped. *)
NothingDropped == IInv /\ dropped = {}

LEMMA NoneDropped ==
  ASSUME MaxCommitErrors = 0
  PROVE  Spec => []NothingDropped
<1>1. Init => NothingDropped
  BY InitInvariant DEF Init, NothingDropped
<1>2. NothingDropped /\ [Next]_vars => NothingDropped'
  <2> SUFFICES ASSUME NothingDropped, [Next]_vars PROVE NothingDropped'
    OBVIOUS
  <2> USE DEF NothingDropped
  <2>1. IInv'
    BY SafetyStep, StutterKeepsInvariant
  <2>2. ~CommitError
    BY DEF IInv, TypeOK, CommitError
  <2>3. UNCHANGED dropped
    BY <2>2 DEF Next, Step, vars, Publish, Start, Fetch, Handle, RejectBatch, AbortBatch,
       Commit, Crash
  <2> QED BY <2>1, <2>3
<1> QED BY <1>1, <1>2, PTL DEF Spec

(***************************************************************************)
(* A failed Commit is the only way to separate the cursors of the fetcher  *)
(* from those of the database between two batches: while none fails, every *)
(* rollback leaves both where they were, as the test of a rolled back      *)
(* batch expects.                                                          *)
(***************************************************************************)
THEOREM CursorsFollowDatabase ==
  ASSUME MaxCommitErrors = 0
  PROVE  Spec => []CursorsMatchDatabase
<1>1. NothingDropped => CursorsMatchDatabase
  <2> SUFFICES ASSUME NothingDropped, pc = "fetch" PROVE cursor = saved
    BY DEF CursorsMatchDatabase
  <2>1. cursor \in Positions /\ saved \in Positions /\ AtMost(saved, cursor)
    BY TypeFacts DEF NothingDropped, IInv
  <2>2. ASSUME NEW f \in Feeds, saved[f] < cursor[f] PROVE FALSE
    <3>1. saved[f] \in Nat /\ cursor[f] \in Nat
      BY <2>1 DEF Positions
    <3>2. cursor[f] \in saved[f] + 1 .. cursor[f]
      BY <2>2, <3>1
    <3>3. Source[f][cursor[f]] \in Stretch(saved, cursor)
      BY <3>2, StretchElement
    <3> QED BY <3>3 DEF NothingDropped, IInv, SkippedWasDropped
  <2>3. ASSUME NEW f \in Feeds PROVE cursor[f] = saved[f]
    <3>1. saved[f] \in Nat /\ cursor[f] \in Nat /\ saved[f] <= cursor[f]
      BY <2>1 DEF Positions, AtMost
    <3> QED BY <2>2, <3>1
  <2> QED BY <2>1, <2>3 DEF Positions
<1>2. Spec => []NothingDropped
  BY NoneDropped
<1> QED BY <1>1, <1>2, PTL

(***************************************************************************)
(* When no input has two rows of one table, and no Commit fails, the       *)
(* mirror is exact through every crash and aborted batch: the lookup that  *)
(* ignores the output index, and the cursors that move before the Commit,  *)
(* are the only two ways to lose an entry.                                 *)
(***************************************************************************)
THEOREM ExactWithoutCommitErrors ==
  ASSUME OneRowPerInput, MaxCommitErrors = 0
  PROVE  Spec => []ExactMirror
<1>1. Spec => []NothingDropped
  BY NoneDropped
<1>2. NothingDropped => ExactMirror
  <2> SUFFICES ASSUME NothingDropped, NEW e \in Behind(saved), e \notin rows PROVE FALSE
    BY DEF ExactMirror, NothingDropped, IInv, StoredWasRead
  <2> USE TypeFacts DEF NothingDropped, IInv
  <2>1. Found(rows, e)
    BY DEF MissingExplained
  <2>2. PICK r \in rows : r.table = e.table /\ r.input = e.input
    BY <2>1 DEF Found, RowsOfInput
  <2>3. r \in Behind(saved)
    BY DEF StoredWasRead
  <2>4. ASSUME NEW x \in Behind(saved)
        PROVE  \E f \in Feeds : \E k \in 1 .. Len(Source[f]) : x = Source[f][k]
    <3>1. PICK f \in Feeds : \E k \in 1 .. saved[f] : x = Source[f][k]
      BY BehindElement
    <3>2. PICK k \in 1 .. saved[f] : x = Source[f][k]
      BY <3>1
    <3>3. Len(Source[f]) \in Nat
      BY SourceAssumption
    <3>4. k \in 1 .. Len(Source[f])
      BY <3>2, <3>3 DEF Positions
    <3> QED BY <3>2, <3>4
  <2>5. PICK f \in Feeds : \E k \in 1 .. Len(Source[f]) : e = Source[f][k]
    BY <2>4
  <2>6. PICK g \in Feeds : \E k \in 1 .. Len(Source[g]) : r = Source[g][k]
    BY <2>3, <2>4
  <2>7. e = r
    <3>1. PICK j \in 1 .. Len(Source[f]) : e = Source[f][j]
      BY <2>5
    <3>2. PICK k \in 1 .. Len(Source[g]) : r = Source[g][k]
      BY <2>6
    <3>3. Source[f][j].table = Source[g][k].table /\ Source[f][j].input = Source[g][k].input
      BY <2>2, <3>1, <3>2
    <3>4. Source[f][j] = Source[g][k]
      BY <3>3 DEF OneRowPerInput
    <3> QED BY <3>1, <3>2, <3>4
  <2> QED BY <2>7
<1> QED BY <1>1, <1>2, PTL
=============================================================================
