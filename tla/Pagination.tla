----------------------------- MODULE Pagination -----------------------------
(***************************************************************************)
(* The connections of the GraphQL reader: FindAllVouchers, FindAllNotices  *)
(* and the FindAll of inputs and reports, which count the rows in one      *)
(* statement and select a page of them in another, while the workers keep  *)
(* adding rows; and a client that follows the cursors of the pages to      *)
(* their end.                                                              *)
(*                                                                         *)
(* A row is its offset in the ORDER BY of its query, and new rows come     *)
(* last, as the workers add them.  A cursor is the offset it encodes.  An  *)
(* optional argument is a set with at most one element.                    *)
(***************************************************************************)
EXTENDS Integers, Sequences, FiniteSets

CONSTANTS
  DefaultPaginationLimit,
  Limits,   \* the values of first and last that clients give
  Cursors,  \* the values of after and before that clients give
  MaxTotal  \* bound: rows of the table

ASSUME PaginationAssumption ==
  /\ DefaultPaginationLimit \in Nat \ {0}
  /\ Limits \subseteq Int /\ Cursors \subseteq Int
  /\ MaxTotal \in Nat

VARIABLES
  total,       \* rows in the table
  pc,          \* the request: "idle", "count", "select" or "answered"
  request,     \* its arguments
  counted,     \* what its Count returned
  connection,  \* its answer
  walk,        \* which way the client follows cursors: "no", "forward", "backward"
  atStart,     \* history: rows in the table when the walk began
  seen         \* the rows of the pages of the walk so far

vars == <<total, pc, request, counted, connection, walk, atStart, seen>>

Optional(S) == {{}} \cup {{x} : x \in S}
The(option) == CHOOSE x \in option : TRUE
Least(a, b) == IF a < b THEN a ELSE b

NoArguments == [first |-> {}, last |-> {}, after |-> {}, before |-> {}]

-----------------------------------------------------------------------------
(* ComputePage: what to ask the database for, or an error. *)
Refused == [ok |-> FALSE, offset |-> 0, limit |-> 0]

LimitOf(option) == IF option = {} THEN DefaultPaginationLimit ELSE The(option)

InvalidLimit(option) == option # {} /\ The(option) < 0

(* DecodeCursor refuses what is not the offset of a row. *)
InvalidCursor(option, n) == option # {} /\ The(option) \notin 0 .. n - 1

(* Mutant of computeForwardPage: the page begins with the cursor's row. *)
computeForwardPageFromCursor(first, after, n) ==
  LET offset == IF after = {} THEN 0 ELSE The(after)
  IN IF InvalidLimit(first) \/ InvalidCursor(after, n) THEN Refused
     ELSE [ok |-> TRUE, offset |-> offset, limit |-> Least(LimitOf(first), n - offset)]

computeForwardPage(first, after, n) ==
  LET offset == IF after = {} THEN 0 ELSE The(after) + 1
  IN IF InvalidLimit(first) \/ InvalidCursor(after, n) THEN Refused
     ELSE [ok |-> TRUE, offset |-> offset, limit |-> Least(LimitOf(first), n - offset)]

(* Mutant of computeBackwardPage: the offset of a cursor counted from one. *)
computeBackwardPageFromOne(last, before, n) ==
  LET end == IF before = {} THEN n ELSE The(before) - 1
      offset == IF end - LimitOf(last) > 0 THEN end - LimitOf(last) ELSE 0
  IN IF InvalidLimit(last) \/ InvalidCursor(before, n) THEN Refused
     ELSE [ok |-> TRUE, offset |-> offset, limit |-> Least(LimitOf(last), n - offset)]

(* Mutant of computeBackwardPage: the offset may be negative. *)
computeBackwardPageUnbounded(last, before, n) ==
  LET end == IF before = {} THEN n ELSE The(before)
      offset == end - LimitOf(last)
  IN IF InvalidLimit(last) \/ InvalidCursor(before, n) THEN Refused
     ELSE [ok |-> TRUE, offset |-> offset, limit |-> Least(LimitOf(last), n - offset)]

(* The limit is cut at the end of the table, not at the cursor. *)
computeBackwardPage(last, before, n) ==
  LET end == IF before = {} THEN n ELSE The(before)
      offset == IF end - LimitOf(last) > 0 THEN end - LimitOf(last) ELSE 0
  IN IF InvalidLimit(last) \/ InvalidCursor(before, n) THEN Refused
     ELSE [ok |-> TRUE, offset |-> offset, limit |-> Least(LimitOf(last), n - offset)]

Forward(r) == r.first # {} \/ r.after # {}
Backward(r) == r.last # {} \/ r.before # {}

ComputePage(r, n) ==
  IF Forward(r) /\ Backward(r) THEN Refused
  ELSE IF Backward(r) THEN computeBackwardPage(r.last, r.before, n)
  ELSE computeForwardPage(r.first, r.after, n)

-----------------------------------------------------------------------------
(* Mutant of NewConnection: the last edge's offset is taken for a count. *)
NewConnectionEndsEarly(offset, n, rows) ==
  [ok              |-> TRUE,
   edges           |-> rows,
   startCursor     |-> IF rows = <<>> THEN {} ELSE {offset},
   endCursor       |-> IF rows = <<>> THEN {} ELSE {offset + Len(rows) - 1},
   hasPreviousPage |-> rows # <<>> /\ offset > 0,
   hasNextPage     |-> rows # <<>> /\ offset + Len(rows) < n - 1]

(* NewConnection: edges with their cursors and the page information. *)
NewConnection(offset, n, rows) ==
  [ok              |-> TRUE,
   edges           |-> rows,
   startCursor     |-> IF rows = <<>> THEN {} ELSE {offset},
   endCursor       |-> IF rows = <<>> THEN {} ELSE {offset + Len(rows) - 1},
   hasPreviousPage |-> rows # <<>> /\ offset > 0,
   hasNextPage     |-> rows # <<>> /\ offset + Len(rows) - 1 < n - 1]

NoConnection == [NewConnection(0, 0, <<>>) EXCEPT !.ok = FALSE]

Init ==
  /\ total \in 0 .. MaxTotal
  /\ pc = "idle"
  /\ request = NoArguments
  /\ counted = 0
  /\ connection = NoConnection
  /\ walk = "no"
  /\ atStart = 0
  /\ seen = <<>>

(* A worker adds a row. *)
AddRow ==
  /\ total < MaxTotal
  /\ total' = total + 1
  /\ UNCHANGED <<pc, request, counted, connection, walk, atStart, seen>>

(* A single query, with any arguments ... *)
Ask ==
  /\ pc = "idle"
  /\ \E first, last \in Optional(Limits), after, before \in Optional(Cursors) :
       request' = [first |-> first, last |-> last, after |-> after, before |-> before]
  /\ pc' = "count"
  /\ walk' = "no"
  /\ UNCHANGED <<total, counted, connection, atStart, seen>>

(* ... or the first of a walk, in pages of n rows. *)
StartWalk ==
  /\ pc = "idle"
  /\ \E n \in {m \in Limits : m > 0} :
       \/ request' = [NoArguments EXCEPT !.first = {n}] /\ walk' = "forward"
       \/ request' = [NoArguments EXCEPT !.last = {n}] /\ walk' = "backward"
  /\ pc' = "count"
  /\ atStart' = total
  /\ seen' = <<>>
  /\ UNCHANGED <<total, counted, connection>>

(* Count, the first statement ... *)
Count ==
  /\ pc = "count"
  /\ counted' = total
  /\ pc' = "select"
  /\ UNCHANGED <<total, request, connection, walk, atStart, seen>>

(* ... and SELECT ... LIMIT OFFSET, the second, on the table of its moment. *)
RowsFrom(offset, limit, n) == [k \in 1 .. Least(limit, n - offset) |-> offset + k - 1]

Select ==
  LET page == ComputePage(request, counted)
      rows == RowsFrom(page.offset, page.limit, total)
  IN /\ pc = "select"
     /\ pc' = "answered"
     /\ connection' = IF page.ok THEN NewConnection(page.offset, counted, rows) ELSE NoConnection
     /\ seen' = IF walk = "forward" THEN seen \o rows
                ELSE IF walk = "backward" THEN rows \o seen ELSE seen
     /\ UNCHANGED <<total, request, counted, walk, atStart>>

(* The client asks for the page after, or before, the one it has. *)
FollowCursor ==
  /\ pc = "answered"
  /\ \/ /\ walk = "forward" /\ connection.hasNextPage
        /\ request' = [request EXCEPT !.after = connection.endCursor]
     \/ /\ walk = "backward" /\ connection.hasPreviousPage
        /\ request' = [request EXCEPT !.before = connection.startCursor]
  /\ pc' = "count"
  /\ UNCHANGED <<total, counted, connection, walk, atStart, seen>>

WalkEnded ==
  \/ walk = "forward" /\ ~connection.hasNextPage
  \/ walk = "backward" /\ ~connection.hasPreviousPage

Done ==
  /\ pc = "answered"
  /\ walk = "no" \/ WalkEnded
  /\ pc' = "idle"
  /\ request' = NoArguments
  /\ counted' = 0
  /\ connection' = NoConnection
  /\ walk' = "no"
  /\ atStart' = 0
  /\ seen' = <<>>
  /\ UNCHANGED total

Next == AddRow \/ Ask \/ StartWalk \/ Count \/ Select \/ FollowCursor \/ Done

Spec == Init /\ [][Next]_vars

-----------------------------------------------------------------------------
(* The state is well formed. *)
IsOptional(option, S) == option \subseteq S /\ \A x, y \in option : x = y

IsRequest(r) ==
  /\ r = [first |-> r.first, last |-> r.last, after |-> r.after, before |-> r.before]
  /\ \A option \in {r.first, r.last, r.after, r.before} : IsOptional(option, Int)

TypeOK ==
  /\ total \in Nat /\ counted \in 0 .. total /\ atStart \in 0 .. total
  /\ pc \in {"idle", "count", "select", "answered"}
  /\ IsRequest(request)
  /\ walk \in {"no", "forward", "backward"}
  /\ seen \in Seq(0 .. total - 1)
  /\ connection.edges \in Seq(0 .. total - 1)
  /\ IsOptional(connection.startCursor, Nat) /\ IsOptional(connection.endCursor, Nat)

(***************************************************************************)
(* What a page should be: of the rows the query counted, those between the *)
(* cursors, and of these the first, or the last, as many as asked for.     *)
(***************************************************************************)
Between(r, n) ==
  {k \in 0 .. n - 1 : /\ r.after # {} => k > The(r.after)
                      /\ r.before # {} => k < The(r.before)}

ExpectedPage(r, n) ==
  {k \in Between(r, n) :
     IF Backward(r) THEN Cardinality({j \in Between(r, n) : j > k}) < LimitOf(r.last)
     ELSE Cardinality({j \in Between(r, n) : j < k}) < LimitOf(r.first)}

PageRows == {connection.edges[k] : k \in DOMAIN connection.edges}

(* A backward page that asks for more rows than precede its cursor. *)
LastPastCursor(r) == r.before # {} /\ LimitOf(r.last) > The(r.before)

(***************************************************************************)
(* ComputePage, LIMIT and OFFSET and the edges of NewConnection give that  *)
(* page, whatever rows are added between the two statements; except for    *)
(* LastPastCursor, where computeBackwardPage asks for too much.            *)
(***************************************************************************)
PageIsExpected ==
  pc = "answered" /\ connection.ok /\ ~LastPastCursor(request)
    => PageRows = ExpectedPage(request, counted)

(* Without the exception: the rows of a page come before `before`. *)
PageBeforeCursor ==
  pc = "answered" /\ connection.ok /\ request.before # {}
    => \A k \in PageRows : k < The(request.before)

(***************************************************************************)
(* A client that follows endCursor while hasNextPage gets every row once,  *)
(* in order, up to the rows its last request counted, although FindAll is  *)
(* two statements and the table grows between and during requests.         *)
(***************************************************************************)
ForwardWalkIsExact ==
  pc = "answered" /\ walk = "forward" =>
    /\ seen = [k \in 1 .. Len(seen) |-> k - 1]
    /\ WalkEnded => Len(seen) = counted

(***************************************************************************)
(* A client that follows startCursor while hasPreviousPage misses no row   *)
(* of those there were when it began (it may get rows twice).              *)
(***************************************************************************)
BackwardWalkMissesNothing ==
  pc = "answered" /\ walk = "backward" /\ WalkEnded =>
    0 .. atStart - 1 \subseteq {seen[k] : k \in DOMAIN seen}
=============================================================================
