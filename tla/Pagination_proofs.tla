-------------------------- MODULE Pagination_proofs --------------------------
(***************************************************************************)
(* Proofs about Pagination, for every size of the table, default limit,    *)
(* and arguments: pages never reach outside the table, are the rows asked  *)
(* for, a forward walk is exact, and a backward walk misses nothing.       *)
(***************************************************************************)
EXTENDS Pagination, FiniteSetTheorems, SequenceTheorems, TLAPS

(* The value of an argument that is given. *)
LEMMA TheValue ==
  ASSUME NEW S, NEW option, IsOptional(option, S), option # {}
  PROVE  The(option) \in S /\ option = {The(option)}
BY DEF IsOptional, The

LEMMA TheOne == ASSUME NEW x PROVE The({x}) = x
BY DEF The

(* The limit in force is a number unless the argument was refused. *)
LEMMA LimitType ==
  ASSUME NEW option, IsOptional(option, Int), ~InvalidLimit(option)
  PROVE  LimitOf(option) \in Nat
BY TheValue, PaginationAssumption DEF LimitOf, InvalidLimit

(* Accepted cursors are offsets of rows that were counted. *)
LEMMA CursorType ==
  ASSUME NEW option, NEW n \in Nat, ~InvalidCursor(option, n), option # {}
  PROVE  The(option) \in 0 .. n - 1
BY DEF InvalidCursor

(***************************************************************************)
(* computeForwardPage and computeBackwardPage never send the database an   *)
(* offset or a limit outside the rows counted, a negative one included.    *)
(***************************************************************************)
LEMMA ForwardBounds ==
  ASSUME NEW first, NEW after, NEW n \in Nat, IsOptional(first, Int),
         NEW p, p = computeForwardPage(first, after, n)
  PROVE  p.offset \in 0 .. n /\ p.limit \in 0 .. n - p.offset
<1>1. CASE p = Refused
  BY <1>1 DEF Refused
<1>2. CASE p # Refused
  <2>1. LimitOf(first) \in Nat
    BY <1>2, LimitType DEF computeForwardPage
  <2>2. after # {} => The(after) \in 0 .. n - 1
    BY <1>2, CursorType DEF computeForwardPage
  <2> DEFINE offset == IF after = {} THEN 0 ELSE The(after) + 1
  <2>3. offset \in 0 .. n
    BY <2>2
  <2>4. p.offset = offset /\ p.limit = Least(LimitOf(first), n - offset)
    BY <1>2 DEF computeForwardPage
  <2> HIDE DEF offset
  <2> QED BY <2>1, <2>3, <2>4 DEF Least
<1> QED BY <1>1, <1>2

LEMMA BackwardBounds ==
  ASSUME NEW last, NEW before, NEW n \in Nat, IsOptional(last, Int),
         NEW p, p = computeBackwardPage(last, before, n)
  PROVE  p.offset \in 0 .. n /\ p.limit \in 0 .. n - p.offset
<1>1. CASE p = Refused
  BY <1>1 DEF Refused
<1>2. CASE p # Refused
  <2>1. LimitOf(last) \in Nat
    BY <1>2, LimitType DEF computeBackwardPage
  <2>2. before # {} => The(before) \in 0 .. n - 1
    BY <1>2, CursorType DEF computeBackwardPage
  <2> DEFINE end == IF before = {} THEN n ELSE The(before)
             offset == IF end - LimitOf(last) > 0 THEN end - LimitOf(last) ELSE 0
  <2>3. end \in 0 .. n
    BY <2>2
  <2>4. p.offset = offset /\ p.limit = Least(LimitOf(last), n - offset)
    BY <1>2 DEF computeBackwardPage
  <2> HIDE DEF end
  <2>5. offset \in 0 .. n
    BY <2>1, <2>3
  <2> HIDE DEF offset
  <2> QED BY <2>1, <2>4, <2>5 DEF Least
<1> QED BY <1>1, <1>2

(* The fields of a request are optional numbers. *)
LEMMA RequestFields ==
  ASSUME NEW r, IsRequest(r)
  PROVE  /\ IsOptional(r.first, Int) /\ IsOptional(r.last, Int)
         /\ IsOptional(r.after, Int) /\ IsOptional(r.before, Int)
BY DEF IsRequest

(***************************************************************************)
(* Whatever a client asks, ComputePage either refuses or stays within the  *)
(* rows counted: LIMIT and OFFSET are never negative.                      *)
(***************************************************************************)
THEOREM PageWithinTable ==
  ASSUME NEW r, IsRequest(r), NEW n \in Nat
  PROVE  /\ ComputePage(r, n).offset \in 0 .. n
         /\ ComputePage(r, n).limit \in 0 .. n - ComputePage(r, n).offset
<1>1. CASE ComputePage(r, n) = Refused
  BY <1>1 DEF Refused
<1>2. CASE ComputePage(r, n) = computeBackwardPage(r.last, r.before, n)
  BY <1>2, RequestFields, BackwardBounds
<1>3. CASE ComputePage(r, n) = computeForwardPage(r.first, r.after, n)
  BY <1>3, RequestFields, ForwardBounds
<1> QED BY <1>1, <1>2, <1>3 DEF ComputePage

(* A page within the rows counted does not depend on the rows added since. *)
LEMMA RowsWithinTable ==
  ASSUME NEW n \in Nat, NEW offset \in 0 .. n, NEW limit \in 0 .. n - offset, NEW m \in Nat, n <= m
  PROVE  /\ RowsFrom(offset, limit, m) = [k \in 1 .. limit |-> offset + k - 1]
         /\ RowsFrom(offset, limit, m) \in Seq(0 .. m - 1)
         /\ Len(RowsFrom(offset, limit, m)) = limit
         /\ RowsFrom(offset, limit, m) = <<>> <=> limit = 0
<1> DEFINE rows == [k \in 1 .. limit |-> offset + k - 1]
<1>1. Least(limit, m - offset) = limit
  BY DEF Least
<1>2. RowsFrom(offset, limit, m) = rows
  BY <1>1 DEF RowsFrom
<1>3. \A k \in 1 .. limit : offset + k - 1 \in 0 .. m - 1
  OBVIOUS
<1>4. rows \in Seq(0 .. m - 1) /\ Len(rows) = limit
  BY <1>3
<1>5. rows = <<>> <=> limit = 0
  BY <1>4, EmptySeq
<1> QED BY <1>2, <1>4, <1>5

-----------------------------------------------------------------------------
(* How many members of an interval precede, or follow, one of them. *)
LEMMA CountBelow ==
  ASSUME NEW lo \in Int, NEW hi \in Int, NEW k \in lo .. hi
  PROVE  Cardinality({j \in lo .. hi : j < k}) = k - lo
<1>1. {j \in lo .. hi : j < k} = lo .. k - 1
  OBVIOUS
<1>2. Cardinality(lo .. k - 1) = IF lo > k - 1 THEN 0 ELSE k - 1 - lo + 1
  BY FS_Interval
<1>3. Cardinality(lo .. k - 1) = k - lo
  BY <1>2
<1> QED BY <1>1, <1>3, Zenon

LEMMA CountAbove ==
  ASSUME NEW lo \in Int, NEW hi \in Int, NEW k \in lo .. hi
  PROVE  Cardinality({j \in lo .. hi : j > k}) = hi - k
<1>1. {j \in lo .. hi : j > k} = k + 1 .. hi
  OBVIOUS
<1>2. Cardinality(k + 1 .. hi) = IF k + 1 > hi THEN 0 ELSE hi - (k + 1) + 1
  BY FS_Interval
<1>3. Cardinality(k + 1 .. hi) = hi - k
  BY <1>2
<1> QED BY <1>1, <1>3, Zenon

(* The rows of a page are an interval. *)
LEMMA PageInterval ==
  ASSUME NEW offset \in Nat, NEW limit \in Nat, NEW rows,
         DOMAIN rows = 1 .. limit, \A k \in 1 .. limit : rows[k] = offset + k - 1
  PROVE  {rows[k] : k \in DOMAIN rows} = offset .. offset + limit - 1
<1>1. ASSUME NEW j \in offset .. offset + limit - 1
      PROVE  \E k \in DOMAIN rows : rows[k] = j
  <2>1. j - offset + 1 \in 1 .. limit /\ rows[j - offset + 1] = j
    OBVIOUS
  <2> QED BY <2>1
<1>2. \A k \in DOMAIN rows : rows[k] \in offset .. offset + limit - 1
  OBVIOUS
<1> DEFINE interval == offset .. offset + limit - 1
<1>3. \A j \in interval : \E k \in DOMAIN rows : rows[k] = j
  BY <1>1
<1> HIDE DEF interval
<1>4. {rows[k] : k \in DOMAIN rows} = interval
  BY <1>2, <1>3 DEF interval
<1> QED BY <1>4 DEF interval

(***************************************************************************)
(* An accepted request is answered with the rows expected of it, unless it *)
(* asks for more rows before a cursor than there are.                      *)
(***************************************************************************)
LEMMA ForwardIsExpected ==
  ASSUME NEW r, IsRequest(r), NEW n \in Nat, NEW p, p = ComputePage(r, n), p.ok, ~Backward(r)
  PROVE  p.offset .. p.offset + p.limit - 1 = ExpectedPage(r, n)
<1> DEFINE lo == IF r.after = {} THEN 0 ELSE The(r.after) + 1
<1>1. p = computeForwardPage(r.first, r.after, n) /\ r.last = {} /\ r.before = {}
  BY DEF ComputePage, Backward
<1>2. ~InvalidLimit(r.first) /\ ~InvalidCursor(r.after, n)
  BY <1>1 DEF computeForwardPage, Refused
<1>3. LimitOf(r.first) \in Nat
  BY <1>2, LimitType, RequestFields
<1>4. lo \in 0 .. n
  BY <1>2, CursorType
<1>5. p.offset = lo /\ p.limit = Least(LimitOf(r.first), n - lo)
  BY <1>1, <1>2 DEF computeForwardPage
<1>6. Between(r, n) = lo .. n - 1
  <2>1. CASE r.after = {}
    BY <1>1, <2>1 DEF Between
  <2>2. CASE r.after # {}
    <3>1. The(r.after) \in 0 .. n - 1
      BY <1>2, <2>2, CursorType
    <3> QED BY <1>1, <2>2, <3>1 DEF Between
  <2> QED BY <2>1, <2>2
<1>7. ExpectedPage(r, n) = {k \in lo .. n - 1 : Cardinality({j \in lo .. n - 1 : j < k}) < LimitOf(r.first)}
  BY <1>6 DEF ExpectedPage
<1> HIDE DEF lo
<1>8. \A k \in lo .. n - 1 : Cardinality({j \in lo .. n - 1 : j < k}) = k - lo
  BY <1>4, CountBelow
<1>9. ExpectedPage(r, n) = {k \in lo .. n - 1 : k - lo < LimitOf(r.first)}
  BY <1>7, <1>8
<1> QED BY <1>3, <1>4, <1>5, <1>9 DEF Least

LEMMA BackwardIsExpected ==
  ASSUME NEW r, IsRequest(r), NEW n \in Nat, NEW p, p = ComputePage(r, n), p.ok, Backward(r), ~LastPastCursor(r)
  PROVE  p.offset .. p.offset + p.limit - 1 = ExpectedPage(r, n)
<1> DEFINE end == IF r.before = {} THEN n ELSE The(r.before)
<1>1. p = computeBackwardPage(r.last, r.before, n) /\ r.first = {} /\ r.after = {}
  BY DEF ComputePage, Forward, Refused
<1>2. ~InvalidLimit(r.last) /\ ~InvalidCursor(r.before, n)
  BY <1>1 DEF computeBackwardPage, Refused
<1>3. LimitOf(r.last) \in Nat
  BY <1>2, LimitType, RequestFields
<1>4. end \in 0 .. n /\ (r.before # {} => LimitOf(r.last) <= end)
  BY <1>2, <1>3, CursorType DEF LastPastCursor
<1>5. /\ p.offset = IF end - LimitOf(r.last) > 0 THEN end - LimitOf(r.last) ELSE 0
      /\ p.limit = Least(LimitOf(r.last), n - p.offset)
  BY <1>1, <1>2 DEF computeBackwardPage
<1>6. Between(r, n) = 0 .. end - 1
  <2>1. CASE r.before = {}
    BY <1>1, <2>1 DEF Between
  <2>2. CASE r.before # {}
    <3>1. The(r.before) \in 0 .. n - 1
      BY <1>2, <2>2, CursorType
    <3> QED BY <1>1, <2>2, <3>1 DEF Between
  <2> QED BY <2>1, <2>2
<1>7. ExpectedPage(r, n) = {k \in 0 .. end - 1 : Cardinality({j \in 0 .. end - 1 : j > k}) < LimitOf(r.last)}
  BY <1>6 DEF ExpectedPage
<1>8. r.before = {} => end = n
  OBVIOUS
<1> HIDE DEF end
<1>9. \A k \in 0 .. end - 1 : Cardinality({j \in 0 .. end - 1 : j > k}) = end - 1 - k
  BY <1>4, CountAbove
<1>10. ExpectedPage(r, n) = {k \in 0 .. end - 1 : end - 1 - k < LimitOf(r.last)}
  BY <1>7, <1>9
<1>11. p.limit = end - p.offset
  BY <1>3, <1>4, <1>5, <1>8 DEF Least
<1> QED BY <1>3, <1>4, <1>5, <1>10, <1>11

-----------------------------------------------------------------------------
(* The rows 0 .. n-1 in order. *)
Rows(n) == [k \in 1 .. n |-> k - 1]

Page == ComputePage(request, counted)

(***************************************************************************)
(* The inductive invariant.  AnswerOK: the answer is the page computed     *)
(* from the rows counted, whatever was added since.  WalkOK: a forward     *)
(* walk has seen the rows up to its cursor, which is the offset of a row;  *)
(* with its answer in hand it has seen the rows of that page too.          *)
(* BackwardOK: likewise a backward walk has seen the rows from its cursor  *)
(* on, of those there were when it began.                                  *)
(***************************************************************************)
AnswerOK ==
  pc = "answered" /\ connection.ok =>
    /\ Page.ok
    /\ connection = NewConnection(Page.offset, counted, RowsFrom(Page.offset, Page.limit, counted))

WalkOK ==
  walk = "forward" =>
    /\ request.last = {} /\ request.before = {}
    /\ \E n \in Nat \ {0} : request.first = {n}
    /\ pc \in {"count", "select"} =>
         \/ request.after = {} /\ seen = Rows(0)
         \/ \E c \in 0 .. total - 1 :
              /\ request.after = {c} /\ seen = Rows(c + 1)
              /\ pc = "select" => c < counted
    /\ pc = "answered" => connection.ok /\ seen = Rows(Page.offset + Page.limit)

HasSeen(n) == \A j \in n .. atStart - 1 : \E k \in DOMAIN seen : seen[k] = j

BackwardOK ==
  walk = "backward" =>
    /\ request.first = {} /\ request.after = {}
    /\ \E n \in Nat \ {0} : request.last = {n}
    /\ pc \in {"count", "select"} =>
         \/ /\ request.before = {}
            /\ pc = "select" => atStart <= counted
         \/ \E c \in 0 .. total - 1 :
              /\ request.before = {c} /\ HasSeen(c)
              /\ pc = "select" => c < counted
    /\ pc = "answered" => connection.ok /\ HasSeen(Page.offset)

IInv ==
  /\ TypeOK
  /\ pc = "idle" => walk = "no"
  /\ AnswerOK
  /\ WalkOK
  /\ BackwardOK

(* TypeOK and the actions keep the request a request. *)
LEMMA FollowedRequest ==
  ASSUME NEW r, IsRequest(r), NEW cursor, IsOptional(cursor, Nat)
  PROVE  IsRequest([r EXCEPT !.after = cursor]) /\ IsRequest([r EXCEPT !.before = cursor])
BY DEF IsRequest, IsOptional

LEMMA NoArgumentsRequest ==
  ASSUME NEW n \in Int
  PROVE  /\ IsRequest(NoArguments)
         /\ IsRequest([NoArguments EXCEPT !.first = {n}])
         /\ IsRequest([NoArguments EXCEPT !.last = {n}])
BY DEF IsRequest, IsOptional, NoArguments

(* What the rows selected are, in a table that may have grown. *)
LEMMA SelectedRows ==
  ASSUME TypeOK
  PROVE  /\ Page.offset \in 0 .. counted /\ Page.limit \in 0 .. counted - Page.offset
         /\ RowsFrom(Page.offset, Page.limit, total) = RowsFrom(Page.offset, Page.limit, counted)
         /\ RowsFrom(Page.offset, Page.limit, total) = [k \in 1 .. Page.limit |-> Page.offset + k - 1]
         /\ RowsFrom(Page.offset, Page.limit, total) \in Seq(0 .. total - 1)
         /\ Len(RowsFrom(Page.offset, Page.limit, total)) = Page.limit
         /\ RowsFrom(Page.offset, Page.limit, total) = <<>> <=> Page.limit = 0
<1>1. IsRequest(request) /\ counted \in Nat /\ total \in Nat /\ counted <= total
  BY DEF TypeOK
<1>2. Page.offset \in 0 .. counted /\ Page.limit \in 0 .. counted - Page.offset
  BY <1>1, PageWithinTable DEF Page
<1> DEFINE offset == Page.offset
           limit == Page.limit
<1> HIDE DEF offset, limit
<1>3. offset \in 0 .. counted /\ limit \in 0 .. counted - offset
  BY <1>2 DEF offset, limit
<1>4. RowsFrom(offset, limit, counted) = [k \in 1 .. limit |-> offset + k - 1]
  BY <1>1, <1>3, RowsWithinTable
<1>5. /\ RowsFrom(offset, limit, total) = [k \in 1 .. limit |-> offset + k - 1]
      /\ RowsFrom(offset, limit, total) \in Seq(0 .. total - 1)
      /\ Len(RowsFrom(offset, limit, total)) = limit
      /\ RowsFrom(offset, limit, total) = <<>> <=> limit = 0
  BY <1>1, <1>3, RowsWithinTable
<1> QED BY <1>3, <1>4, <1>5, Zenon DEF offset, limit

(* The answer to a request is well formed. *)
LEMMA ConnectionType ==
  ASSUME NEW offset \in Nat, NEW n, NEW m, NEW rows \in Seq(0 .. m - 1)
  PROVE  LET c == NewConnection(offset, n, rows)
         IN /\ c.edges \in Seq(0 .. m - 1)
            /\ IsOptional(c.startCursor, Nat) /\ IsOptional(c.endCursor, Nat)
<1>1. rows # <<>> => offset + Len(rows) - 1 \in Nat
  BY EmptySeq
<1> QED BY <1>1 DEF NewConnection, IsOptional

(* Every action keeps the state well formed. *)
LEMMA TypeStep ==
  ASSUME TypeOK, Next
  PROVE  TypeOK'
<1>1. CASE AddRow
  <2>1. Seq(0 .. total - 1) \subseteq Seq(0 .. total' - 1)
    BY <1>1, SeqMonotonic DEF AddRow, TypeOK
  <2> QED BY <1>1, <2>1 DEF AddRow, TypeOK, IsOptional, IsRequest
<1>2. CASE Ask
  <2>1. IsRequest(request')
    BY <1>2, PaginationAssumption DEF Ask, Optional, IsRequest, IsOptional
  <2> QED BY <1>2, <2>1 DEF Ask, TypeOK, IsOptional, IsRequest
<1>3. CASE StartWalk
  <2>1. IsRequest(request')
    BY <1>3, NoArgumentsRequest, PaginationAssumption DEF StartWalk
  <2>2. <<>> \in Seq(0 .. total - 1)
    OBVIOUS
  <2> QED BY <1>3, <2>1, <2>2 DEF StartWalk, TypeOK, IsOptional, IsRequest
<1>4. CASE Count
  BY <1>4 DEF Count, TypeOK, IsOptional, IsRequest
<1>5. CASE Select
  <2> DEFINE rows == RowsFrom(Page.offset, Page.limit, total)
  <2>1. rows \in Seq(0 .. total - 1) /\ Page.offset \in Nat
    BY SelectedRows
  <2>2. /\ connection' = IF Page.ok THEN NewConnection(Page.offset, counted, rows) ELSE NoConnection
        /\ seen' = IF walk = "forward" THEN seen \o rows
                   ELSE IF walk = "backward" THEN rows \o seen ELSE seen
        /\ pc' = "answered" /\ UNCHANGED <<total, request, counted, walk, atStart>>
    BY <1>5 DEF Select, Page
  <2> HIDE DEF rows
  <2>3. seen' \in Seq(0 .. total - 1)
    <3>1. seen \in Seq(0 .. total - 1)
      BY DEF TypeOK
    <3>2. seen \o rows \in Seq(0 .. total - 1) /\ rows \o seen \in Seq(0 .. total - 1)
      BY <2>1, <3>1, ConcatProperties
    <3> QED BY <2>2, <3>1, <3>2
  <2>4. /\ NoConnection.edges \in Seq(0 .. total - 1)
        /\ IsOptional(NoConnection.startCursor, Nat) /\ IsOptional(NoConnection.endCursor, Nat)
    BY DEF NoConnection, NewConnection, IsOptional
  <2>5. /\ connection'.edges \in Seq(0 .. total - 1)
        /\ IsOptional(connection'.startCursor, Nat) /\ IsOptional(connection'.endCursor, Nat)
    BY <2>1, <2>2, <2>4, ConnectionType
  <2> QED BY <2>2, <2>3, <2>5 DEF TypeOK, IsOptional, IsRequest
<1>6. CASE FollowCursor
  <2>1. IsRequest(request')
    <3>1. /\ IsRequest(request)
          /\ IsOptional(connection.startCursor, Nat) /\ IsOptional(connection.endCursor, Nat)
      BY DEF TypeOK
    <3>2. \/ request' = [request EXCEPT !.after = connection.endCursor]
          \/ request' = [request EXCEPT !.before = connection.startCursor]
      BY <1>6 DEF FollowCursor
    <3>3. /\ IsRequest([request EXCEPT !.after = connection.endCursor])
          /\ IsRequest([request EXCEPT !.before = connection.startCursor])
      BY <3>1, FollowedRequest
    <3> QED BY <3>2, <3>3
  <2> QED BY <1>6, <2>1 DEF FollowCursor, TypeOK, IsOptional, IsRequest
<1>7. CASE Done
  <2>1. IsRequest(NoArguments) /\ <<>> \in Seq(0 .. total - 1)
    <3>1. 0 \in Int
      OBVIOUS
    <3>2. IsRequest(NoArguments)
      BY <3>1, NoArgumentsRequest
    <3>3. <<>> \in Seq(0 .. total - 1)
      OBVIOUS
    <3> QED BY <3>2, <3>3
  <2>2. /\ NoConnection.edges \in Seq(0 .. total - 1)
        /\ IsOptional(NoConnection.startCursor, Nat) /\ IsOptional(NoConnection.endCursor, Nat)
    BY DEF NoConnection, NewConnection, IsOptional
  <2> QED BY <1>7, <2>1, <2>2 DEF Done, TypeOK, IsOptional, IsRequest
<1> QED BY <1>1, <1>2, <1>3, <1>4, <1>5, <1>6, <1>7 DEF Next

(* Every action keeps the answer the page of the rows counted. *)
LEMMA AnswerStep ==
  ASSUME TypeOK, AnswerOK, Next
  PROVE  AnswerOK'
<1>1. CASE AddRow
  BY <1>1 DEF AddRow, AnswerOK, Page
<1>2. CASE Select
  <2>1. UNCHANGED Page /\ UNCHANGED counted
    BY <1>2 DEF Select, Page
  <2>2. connection' = IF Page.ok
                      THEN NewConnection(Page.offset, counted, RowsFrom(Page.offset, Page.limit, total))
                      ELSE NoConnection
    BY <1>2 DEF Select, Page
  <2>3. ~NoConnection.ok
    BY DEF NoConnection, NewConnection
  <2> HIDE DEF Page
  <2> QED BY <2>1, <2>2, <2>3, SelectedRows DEF AnswerOK
<1>3. CASE Ask \/ StartWalk \/ Count \/ FollowCursor \/ Done
  BY <1>3 DEF Ask, StartWalk, Count, FollowCursor, Done, AnswerOK
<1> QED BY <1>1, <1>2, <1>3 DEF Next

(* The rows up to a page, and the rows of the page. *)
LEMMA RowsConcat ==
  ASSUME NEW n \in Nat, NEW limit \in Nat
  PROVE  Rows(n) \o [k \in 1 .. limit |-> n + k - 1] = Rows(n + limit)
<1> DEFINE page == [k \in 1 .. limit |-> n + k - 1]
<1>1. Rows(n) \in Seq(Nat) /\ Len(Rows(n)) = n
  BY DEF Rows
<1>2. page \in Seq(Nat) /\ Len(page) = limit
  OBVIOUS
<1>3. Rows(n + limit) \in Seq(Nat) /\ Len(Rows(n + limit)) = n + limit
  BY DEF Rows
<1>4. Rows(n) \o page \in Seq(Nat) /\ Len(Rows(n) \o page) = n + limit
  BY <1>1, <1>2
<1>5. \A k \in 1 .. n + limit : (Rows(n) \o page)[k] = Rows(n + limit)[k]
  BY <1>1, <1>2 DEF Rows
<1> QED BY <1>3, <1>4, <1>5, SeqEqual

-----------------------------------------------------------------------------
(***************************************************************************)
(* The page of a forward walk is accepted, begins after the cursor, and is *)
(* empty only if no row is left.                                           *)
(***************************************************************************)
LEMMA PageOfWalk ==
  ASSUME TypeOK, NEW n \in Nat \ {0}, request.first = {n}, request.last = {}, request.before = {}
  PROVE  /\ Page.ok /\ Page.limit = 0 => Page.offset = counted
         /\ request.after = {} => Page.ok /\ Page.offset = 0
         /\ \A c \in 0 .. counted - 1 : request.after = {c} => Page.ok /\ Page.offset = c + 1
<1> DEFINE offset == IF request.after = {} THEN 0 ELSE The(request.after) + 1
<1>1. Page = computeForwardPage({n}, request.after, counted)
  BY DEF Page, ComputePage, Backward
<1>2. LimitOf({n}) = n /\ ~InvalidLimit({n})
  <2>1. The({n}) = n
    BY TheOne
  <2> QED BY <2>1 DEF LimitOf, InvalidLimit
<1>3. /\ InvalidCursor(request.after, counted) => ~Page.ok
      /\ ~InvalidCursor(request.after, counted) =>
           Page.ok /\ Page.offset = offset /\ Page.limit = Least(n, counted - offset)
  BY <1>1, <1>2 DEF computeForwardPage, Refused
<1>4. Page.offset \in 0 .. counted /\ counted \in Nat
  BY SelectedRows DEF TypeOK
<1>5. ~InvalidCursor({}, counted)
  BY DEF InvalidCursor
<1>6. \A c \in 0 .. counted - 1 : ~InvalidCursor({c}, counted)
  BY TheOne DEF InvalidCursor
<1>7. \A c : request.after = {c} => offset = c + 1
  BY TheOne
<1>8. request.after = {} => offset = 0
  OBVIOUS
<1> HIDE DEF offset
<1>9. Page.ok /\ Page.limit = 0 => Page.offset = counted
  BY <1>3, <1>4 DEF Least
<1> QED BY <1>3, <1>5, <1>6, <1>7, <1>8, <1>9

(* Every action keeps the walk in step with its cursor. *)
LEMMA WalkStep ==
  ASSUME IInv, Next
  PROVE  WalkOK'
<1>1. CASE AddRow
  <2>1. /\ UNCHANGED <<walk, request, pc, seen, counted, connection>> /\ UNCHANGED Page
        /\ 0 .. total - 1 \subseteq 0 .. total' - 1
    BY <1>1 DEF AddRow, IInv, TypeOK, Page
  <2> QED BY <2>1 DEF IInv, WalkOK
<1>2. CASE Ask \/ Done
  BY <1>2 DEF Ask, Done, WalkOK
<1>3. CASE StartWalk
  <2>1. SUFFICES ASSUME walk' = "forward" PROVE WalkOK'
    BY DEF WalkOK
  <2>2. PICK n \in Limits : n > 0 /\ request' = [NoArguments EXCEPT !.first = {n}]
    BY <1>3, <2>1 DEF StartWalk
  <2>3. n \in Nat \ {0}
    BY <2>2, PaginationAssumption
  <2>4. Rows(0) = <<>>
    BY DEF Rows
  <2>5. request'.first = {n} /\ request'.last = {} /\ request'.before = {} /\ request'.after = {}
    BY <2>2 DEF NoArguments
  <2> QED BY <1>3, <2>3, <2>4, <2>5 DEF StartWalk, WalkOK
<1>4. CASE Count
  <2>1. /\ pc = "count" /\ pc' = "select" /\ counted' = total
        /\ UNCHANGED <<walk, request, seen, total>>
    BY <1>4 DEF Count
  <2>2. SUFFICES ASSUME walk = "forward" PROVE WalkOK'
    BY <2>1 DEF WalkOK
  <2>3. PICK n \in Nat \ {0} : request.first = {n} /\ request.last = {} /\ request.before = {}
    BY <2>2 DEF IInv, WalkOK
  <2>4. CASE request.after = {} /\ seen = Rows(0)
    BY <2>1, <2>3, <2>4 DEF WalkOK
  <2>5. ASSUME NEW c \in 0 .. total - 1, request.after = {c}, seen = Rows(c + 1)
        PROVE  WalkOK'
    <3>1. c \in 0 .. total' - 1 /\ c < counted'
      BY <2>1, <2>5 DEF IInv, TypeOK
    <3> QED BY <2>1, <2>3, <2>5, <3>1 DEF WalkOK
  <2> QED BY <2>1, <2>2, <2>4, <2>5 DEF IInv, WalkOK
<1>5. CASE Select
  <2>1. SUFFICES ASSUME walk = "forward"
                 PROVE  connection'.ok /\ seen' = Rows(Page.offset + Page.limit)
    <3>1. UNCHANGED <<walk, request>> /\ UNCHANGED Page /\ pc' = "answered"
      BY <1>5 DEF Select, Page
    <3> QED BY <2>1, <3>1 DEF IInv, WalkOK
  <2>2. PICK n \in Nat \ {0} : request.first = {n} /\ request.last = {} /\ request.before = {}
    BY <2>1 DEF IInv, WalkOK
  <2>3. \/ request.after = {} /\ seen = Rows(0)
        \/ \E c \in 0 .. counted - 1 : request.after = {c} /\ seen = Rows(c + 1)
    BY <1>5, <2>1 DEF IInv, WalkOK, TypeOK, Select
  <2>4. Page.ok /\ seen = Rows(Page.offset)
    BY <2>2, <2>3, PageOfWalk DEF IInv
  <2>5. /\ Page.offset \in Nat /\ Page.limit \in Nat
        /\ RowsFrom(Page.offset, Page.limit, total) = [k \in 1 .. Page.limit |-> Page.offset + k - 1]
    BY SelectedRows DEF IInv, TypeOK
  <2>6. seen' = seen \o RowsFrom(Page.offset, Page.limit, total) /\ connection'.ok
    BY <1>5, <2>1, <2>4 DEF Select, Page, NewConnection
  <2>7. Rows(Page.offset) \o [k \in 1 .. Page.limit |-> Page.offset + k - 1] = Rows(Page.offset + Page.limit)
    BY <2>5, RowsConcat
  <2> QED BY <2>4, <2>5, <2>6, <2>7
<1>6. CASE FollowCursor
  <2>1. SUFFICES ASSUME walk = "forward" PROVE WalkOK'
    BY <1>6 DEF FollowCursor, WalkOK
  <2>2. PICK n \in Nat \ {0} : request.first = {n} /\ request.last = {} /\ request.before = {}
    BY <2>1 DEF IInv, WalkOK
  <2>3. connection.ok /\ seen = Rows(Page.offset + Page.limit)
    BY <1>6, <2>1 DEF FollowCursor, IInv, WalkOK
  <2> DEFINE rows == RowsFrom(Page.offset, Page.limit, counted)
             c == Page.offset + Len(rows) - 1
  <2>4. connection = NewConnection(Page.offset, counted, rows)
    BY <1>6, <2>3 DEF FollowCursor, IInv, AnswerOK
  <2>5. connection.hasNextPage /\ request' = [request EXCEPT !.after = connection.endCursor]
    BY <1>6, <2>1 DEF FollowCursor
  <2>6. /\ Page.offset \in 0 .. counted /\ Page.limit \in 0 .. counted - Page.offset
        /\ Len(rows) = Page.limit /\ (rows = <<>> <=> Page.limit = 0)
        /\ counted \in 0 .. total /\ total \in Nat
    BY SelectedRows DEF IInv, TypeOK
  <2>7. rows # <<>> /\ connection.endCursor = {c}
    BY <2>4, <2>5 DEF NewConnection
  <2>8. c \in 0 .. total - 1 /\ seen = Rows(c + 1)
    BY <2>3, <2>6, <2>7
  <2> HIDE DEF c
  <2>9. /\ request'.first = {n} /\ request'.last = {} /\ request'.before = {}
        /\ request'.after = {c}
    <3>1. request = [first |-> request.first, last |-> request.last,
                     after |-> request.after, before |-> request.before]
      BY DEF IInv, TypeOK, IsRequest
    <3> QED BY <2>2, <2>5, <2>7, <3>1
  <2>10. pc' = "count" /\ UNCHANGED <<total, seen, counted>>
    BY <1>6 DEF FollowCursor
  <2> QED BY <2>8, <2>9, <2>10 DEF WalkOK
<1> QED BY <1>1, <1>2, <1>3, <1>4, <1>5, <1>6 DEF Next

(***************************************************************************)
(* The page of a backward walk is accepted, reaches its cursor or the end  *)
(* of the rows counted, and is empty only if it begins with the first row. *)
(***************************************************************************)
LEMMA PageOfBackwardWalk ==
  ASSUME TypeOK, NEW n \in Nat \ {0}, request.last = {n}, request.first = {}, request.after = {}
  PROVE  /\ Page.ok /\ Page.limit = 0 => Page.offset = 0
         /\ request.before = {} => Page.ok /\ Page.offset + Page.limit >= counted
         /\ \A c \in 0 .. counted - 1 :
              request.before = {c} => Page.ok /\ Page.offset + Page.limit >= c
<1> DEFINE end == IF request.before = {} THEN counted ELSE The(request.before)
           offset == IF end - n > 0 THEN end - n ELSE 0
<1>1. Page = computeBackwardPage({n}, request.before, counted)
  BY DEF Page, ComputePage, Forward, Backward
<1>2. LimitOf({n}) = n /\ ~InvalidLimit({n})
  <2>1. The({n}) = n
    BY TheOne
  <2> QED BY <2>1 DEF LimitOf, InvalidLimit
<1>3. /\ InvalidCursor(request.before, counted) => ~Page.ok
      /\ ~InvalidCursor(request.before, counted) =>
           Page.ok /\ Page.offset = offset /\ Page.limit = Least(n, counted - offset)
  BY <1>1, <1>2 DEF computeBackwardPage, Refused
<1>4. counted \in Nat
  BY DEF TypeOK
<1>5. ~InvalidCursor({}, counted)
  BY DEF InvalidCursor
<1>6. \A c \in 0 .. counted - 1 : ~InvalidCursor({c}, counted)
  BY TheOne DEF InvalidCursor
<1>7. \A c : request.before = {c} => end = c
  BY TheOne
<1>8. request.before = {} => end = counted
  OBVIOUS
<1>9. ~InvalidCursor(request.before, counted) => end \in 0 .. counted
  BY <1>4, CursorType
<1> HIDE DEF end
<1>10. ~InvalidCursor(request.before, counted) =>
         /\ Page.offset + Page.limit >= end
         /\ Page.limit = 0 => Page.offset = 0
  BY <1>3, <1>4, <1>9 DEF Least
<1> QED BY <1>3, <1>5, <1>6, <1>7, <1>8, <1>10

(* With a page put in front, the rows from the first of the page on. *)
LEMMA PageInFront ==
  ASSUME TypeOK, NEW c \in Nat, c <= Page.offset + Page.limit, HasSeen(c),
         NEW all, all = RowsFrom(Page.offset, Page.limit, total) \o seen
  PROVE  \A j \in Page.offset .. atStart - 1 : \E k \in DOMAIN all : all[k] = j
<1> DEFINE rows == RowsFrom(Page.offset, Page.limit, total)
           from == Page.offset
           limit == Page.limit
<1>1. /\ from \in Nat /\ limit \in Nat /\ atStart \in Nat /\ total \in Nat
      /\ rows \in Seq(0 .. total - 1) /\ seen \in Seq(0 .. total - 1)
      /\ Len(rows) = limit /\ \A k \in 1 .. limit : rows[k] = from + k - 1
      /\ c <= from + limit /\ all = rows \o seen
  <2>1. rows = [k \in 1 .. limit |-> from + k - 1]
    BY SelectedRows
  <2> QED BY <2>1, SelectedRows DEF TypeOK
<1> SUFFICES ASSUME NEW j \in from .. atStart - 1 PROVE \E k \in DOMAIN all : all[k] = j
  OBVIOUS
<1> HIDE DEF rows, from, limit
<1>2. CASE j < from + limit
  <2>1. j - from + 1 \in 1 .. limit /\ rows[j - from + 1] = j
    BY <1>1, <1>2
  <2>2. j - from + 1 \in DOMAIN all /\ all[j - from + 1] = j
    BY <1>1, <2>1
  <2> QED BY <2>2
<1>3. CASE j >= from + limit
  <2>1. PICK k \in DOMAIN seen : seen[k] = j
    BY <1>1, <1>3 DEF HasSeen
  <2>2. limit + k \in DOMAIN all /\ all[limit + k] = j
    BY <1>1, <2>1
  <2> QED BY <2>2
<1> QED BY <1>1, <1>2, <1>3

(* Every action keeps the backward walk in step with its cursor. *)
LEMMA BackwardStep ==
  ASSUME IInv, Next
  PROVE  BackwardOK'
<1>1. CASE AddRow
  <2>1. /\ UNCHANGED <<walk, request, pc, seen, counted, connection, atStart>> /\ UNCHANGED Page
        /\ 0 .. total - 1 \subseteq 0 .. total' - 1
    BY <1>1 DEF AddRow, IInv, TypeOK, Page
  <2> QED BY <2>1 DEF IInv, BackwardOK, HasSeen
<1>2. CASE Ask \/ Done
  BY <1>2 DEF Ask, Done, BackwardOK
<1>3. CASE StartWalk
  <2>1. SUFFICES ASSUME walk' = "backward" PROVE BackwardOK'
    BY DEF BackwardOK
  <2>2. PICK n \in Limits : n > 0 /\ request' = [NoArguments EXCEPT !.last = {n}]
    BY <1>3, <2>1 DEF StartWalk
  <2>3. n \in Nat \ {0}
    BY <2>2, PaginationAssumption
  <2>4. request'.last = {n} /\ request'.first = {} /\ request'.before = {} /\ request'.after = {}
    BY <2>2 DEF NoArguments
  <2> QED BY <1>3, <2>3, <2>4 DEF StartWalk, BackwardOK
<1>4. CASE Count
  <2>1. /\ pc = "count" /\ pc' = "select" /\ counted' = total
        /\ UNCHANGED <<walk, request, seen, total, atStart>>
    BY <1>4 DEF Count
  <2>2. SUFFICES ASSUME walk = "backward" PROVE BackwardOK'
    BY <2>1 DEF BackwardOK
  <2>3. PICK n \in Nat \ {0} : request.last = {n} /\ request.first = {} /\ request.after = {}
    BY <2>2 DEF IInv, BackwardOK
  <2>4. CASE request.before = {}
    <3>1. atStart <= counted'
      BY <2>1 DEF IInv, TypeOK
    <3> QED BY <2>1, <2>3, <2>4, <3>1 DEF BackwardOK
  <2>5. ASSUME NEW c \in 0 .. total - 1, request.before = {c}, HasSeen(c)
        PROVE  BackwardOK'
    <3>1. c \in 0 .. total' - 1 /\ c < counted' /\ HasSeen(c)'
      BY <2>1, <2>5 DEF IInv, TypeOK, HasSeen
    <3> QED BY <2>1, <2>3, <2>5, <3>1 DEF BackwardOK
  <2> QED BY <2>1, <2>2, <2>4, <2>5 DEF IInv, BackwardOK
<1>5. CASE Select
  <2>1. SUFFICES ASSUME walk = "backward"
                 PROVE  connection'.ok /\ HasSeen(Page.offset)'
    <3>1. UNCHANGED <<walk, request>> /\ UNCHANGED Page /\ pc' = "answered"
      BY <1>5 DEF Select, Page
    <3> QED BY <2>1, <3>1 DEF IInv, BackwardOK, HasSeen
  <2>2. PICK n \in Nat \ {0} : request.last = {n} /\ request.first = {} /\ request.after = {}
    BY <2>1 DEF IInv, BackwardOK
  <2>3. \/ request.before = {} /\ atStart <= counted
        \/ \E c \in 0 .. counted - 1 : request.before = {c} /\ HasSeen(c)
    BY <1>5, <2>1 DEF IInv, BackwardOK, TypeOK, Select
  <2>4. /\ Page.offset \in Nat /\ Page.limit \in Nat /\ counted \in Nat /\ atStart \in Nat
        /\ RowsFrom(Page.offset, Page.limit, total) = [k \in 1 .. Page.limit |-> Page.offset + k - 1]
        /\ RowsFrom(Page.offset, Page.limit, total) \in Seq(0 .. total - 1)
        /\ seen \in Seq(0 .. total - 1)
    BY SelectedRows DEF IInv, TypeOK
  <2>5. Page.ok /\ \E c \in Nat : c <= Page.offset + Page.limit /\ HasSeen(c)
    <3>1. CASE request.before = {} /\ atStart <= counted
      <4>1. Page.ok /\ counted <= Page.offset + Page.limit
        BY <2>2, <2>4, <3>1, PageOfBackwardWalk DEF IInv
      <4>2. HasSeen(counted)
        BY <2>4, <3>1 DEF HasSeen
      <4> QED BY <2>4, <4>1, <4>2
    <3>2. ASSUME NEW c \in 0 .. counted - 1, request.before = {c}, HasSeen(c)
          PROVE  Page.ok /\ c <= Page.offset + Page.limit /\ c \in Nat
      BY <2>2, <2>4, <3>2, PageOfBackwardWalk DEF IInv
    <3> QED BY <2>3, <3>1, <3>2
  <2>6. PICK c \in Nat : c <= Page.offset + Page.limit /\ HasSeen(c)
    BY <2>5
  <2>7. /\ seen' = RowsFrom(Page.offset, Page.limit, total) \o seen
        /\ connection'.ok /\ UNCHANGED atStart /\ UNCHANGED Page
    BY <1>5, <2>1, <2>5 DEF Select, Page, NewConnection
  <2>8. PICK all : all = seen'
    OBVIOUS
  <2>9. \A j \in Page.offset .. atStart - 1 : \E k \in DOMAIN all : all[k] = j
    BY <2>6, <2>7, <2>8, PageInFront DEF IInv
  <2> QED BY <2>7, <2>8, <2>9 DEF HasSeen
<1>6. CASE FollowCursor
  <2>1. SUFFICES ASSUME walk = "backward" PROVE BackwardOK'
    BY <1>6 DEF FollowCursor, BackwardOK
  <2>2. PICK n \in Nat \ {0} : request.last = {n} /\ request.first = {} /\ request.after = {}
    BY <2>1 DEF IInv, BackwardOK
  <2>3. connection.ok /\ HasSeen(Page.offset)
    BY <1>6, <2>1 DEF FollowCursor, IInv, BackwardOK
  <2> DEFINE rows == RowsFrom(Page.offset, Page.limit, counted)
  <2>4. connection = NewConnection(Page.offset, counted, rows)
    BY <1>6, <2>3 DEF FollowCursor, IInv, AnswerOK
  <2>5. connection.hasPreviousPage /\ request' = [request EXCEPT !.before = connection.startCursor]
    BY <1>6, <2>1 DEF FollowCursor
  <2>6. /\ Page.offset \in 0 .. counted /\ Page.limit \in 0 .. counted - Page.offset
        /\ (rows = <<>> <=> Page.limit = 0)
        /\ counted \in 0 .. total /\ total \in Nat
    BY SelectedRows DEF IInv, TypeOK
  <2>7. rows # <<>> /\ connection.startCursor = {Page.offset}
    BY <2>4, <2>5 DEF NewConnection
  <2>8. PICK c \in 0 .. total - 1 : c = Page.offset /\ HasSeen(c)
    BY <2>3, <2>6, <2>7
  <2>9. /\ request'.last = {n} /\ request'.first = {} /\ request'.after = {}
        /\ request'.before = {c}
    <3>1. request = [first |-> request.first, last |-> request.last,
                     after |-> request.after, before |-> request.before]
      BY DEF IInv, TypeOK, IsRequest
    <3> QED BY <2>2, <2>5, <2>7, <2>8, <3>1
  <2>10. pc' = "count" /\ HasSeen(c)' /\ UNCHANGED total
    BY <1>6, <2>8 DEF FollowCursor, HasSeen
  <2> QED BY <2>8, <2>9, <2>10 DEF BackwardOK
<1> QED BY <1>1, <1>2, <1>3, <1>4, <1>5, <1>6 DEF Next

(* The invariant holds when the reader starts. *)
LEMMA InitInvariant == Init => IInv
<1> SUFFICES ASSUME Init PROVE IInv
  OBVIOUS
<1>1. IsRequest(NoArguments)
  BY NoArgumentsRequest, 0 \in Int
<1>2. <<>> \in Seq(0 .. total - 1)
  OBVIOUS
<1>3. /\ NoConnection.edges = <<>>
      /\ IsOptional(NoConnection.startCursor, Nat) /\ IsOptional(NoConnection.endCursor, Nat)
  BY DEF NoConnection, NewConnection, IsOptional
<1>4. total \in Nat
  BY PaginationAssumption DEF Init
<1>5. TypeOK
  BY <1>1, <1>2, <1>3, <1>4 DEF Init, TypeOK
<1> QED BY <1>5 DEF Init, IInv, AnswerOK, WalkOK, BackwardOK

(* A step of the reader, the workers or the client keeps it. *)
LEMMA StepInvariant == IInv /\ [Next]_vars => IInv'
<1> SUFFICES ASSUME IInv, [Next]_vars PROVE IInv'
  OBVIOUS
<1>1. CASE Next
  <2>1. TypeOK'
    BY <1>1, TypeStep DEF IInv
  <2>2. AnswerOK'
    BY <1>1, AnswerStep DEF IInv
  <2>3. WalkOK'
    BY <1>1, WalkStep
  <2>4. BackwardOK'
    BY <1>1, BackwardStep
  <2>5. pc' = "idle" => walk' = "no"
    BY <1>1 DEF Next, AddRow, Ask, StartWalk, Count, Select, FollowCursor, Done, IInv
  <2> QED BY <2>1, <2>2, <2>3, <2>4, <2>5 DEF IInv
<1>2. CASE UNCHANGED vars
  BY <1>2 DEF vars, IInv, TypeOK, IsRequest, IsOptional, AnswerOK, WalkOK, BackwardOK, HasSeen, Page
<1> QED BY <1>1, <1>2

(* Every reachable state satisfies the inductive invariant. *)
THEOREM InvariantHolds == Spec => []IInv
BY InitInvariant, StepInvariant, PTL DEF Spec

(* The state of the reader is always well formed. *)
THEOREM TypeCorrect == Spec => []TypeOK
<1>1. IInv => TypeOK
  BY DEF IInv
<1> QED BY <1>1, InvariantHolds, PTL

(***************************************************************************)
(* FindAll answers with the rows between the cursors that were asked for,  *)
(* for every table and all arguments but LastPastCursor, whatever rows the *)
(* workers add between its two statements.                                 *)
(***************************************************************************)
THEOREM PagesAreExpected == Spec => []PageIsExpected
<1>1. ASSUME IInv, pc = "answered", connection.ok, ~LastPastCursor(request)
      PROVE  PageRows = ExpectedPage(request, counted)
  <2> DEFINE rows == RowsFrom(Page.offset, Page.limit, counted)
  <2>1. Page.ok /\ connection.edges = rows
    BY <1>1 DEF IInv, AnswerOK, NewConnection
  <2>2. /\ Page.offset \in Nat /\ Page.limit \in Nat
        /\ rows = [k \in 1 .. Page.limit |-> Page.offset + k - 1]
    BY <1>1, SelectedRows DEF IInv, TypeOK
  <2> HIDE DEF rows
  <2> DEFINE offset == Page.offset
             limit == Page.limit
  <2>3. {rows[k] : k \in DOMAIN rows} = Page.offset .. Page.offset + Page.limit - 1
    <3>1. /\ offset \in Nat /\ limit \in Nat
          /\ DOMAIN rows = 1 .. limit /\ \A k \in 1 .. limit : rows[k] = offset + k - 1
      BY <2>2
    <3> HIDE DEF offset, limit
    <3>2. {rows[k] : k \in DOMAIN rows} = offset .. offset + limit - 1
      BY <3>1, PageInterval, Zenon
    <3> QED BY <3>2 DEF offset, limit
  <2>4. Page.offset .. Page.offset + Page.limit - 1 = ExpectedPage(request, counted)
    <3>1. IsRequest(request) /\ counted \in Nat
      BY <1>1 DEF IInv, TypeOK
    <3>2. CASE Backward(request)
      BY <1>1, <2>1, <3>1, <3>2, BackwardIsExpected DEF Page
    <3>3. CASE ~Backward(request)
      BY <1>1, <2>1, <3>1, <3>3, ForwardIsExpected DEF Page
    <3> QED BY <3>2, <3>3
  <2> QED BY <2>1, <2>3, <2>4 DEF PageRows
<1>2. IInv => PageIsExpected
  BY <1>1 DEF PageIsExpected
<1> QED BY <1>2, InvariantHolds, PTL

(***************************************************************************)
(* A client that follows endCursor while hasNextPage gets every row once   *)
(* and in order, in pages of any size and however the table grows.         *)
(***************************************************************************)
THEOREM ForwardWalksAreExact == Spec => []ForwardWalkIsExact
<1>1. ASSUME IInv, pc = "answered", walk = "forward"
      PROVE  /\ seen = [k \in 1 .. Len(seen) |-> k - 1]
             /\ WalkEnded => Len(seen) = counted
  <2>1. PICK n \in Nat \ {0} : request.first = {n} /\ request.last = {} /\ request.before = {}
    BY <1>1 DEF IInv, WalkOK
  <2>2. connection.ok /\ seen = Rows(Page.offset + Page.limit)
    BY <1>1 DEF IInv, WalkOK
  <2> DEFINE rows == RowsFrom(Page.offset, Page.limit, counted)
  <2>3. Page.ok /\ connection = NewConnection(Page.offset, counted, rows)
    BY <1>1, <2>2 DEF IInv, AnswerOK
  <2>4. /\ Page.offset \in 0 .. counted /\ Page.limit \in 0 .. counted - Page.offset
        /\ Len(rows) = Page.limit /\ (rows = <<>> <=> Page.limit = 0) /\ counted \in Nat
    BY <1>1, SelectedRows DEF IInv, TypeOK
  <2>5. Len(seen) = Page.offset + Page.limit
    BY <2>2, <2>4 DEF Rows
  <2>6. Page.limit = 0 => Page.offset = counted
    BY <1>1, <2>1, <2>3, PageOfWalk DEF IInv
  <2> HIDE DEF rows
  <2>7. WalkEnded => rows = <<>> \/ ~(Page.offset + Len(rows) - 1 < counted - 1)
    BY <1>1, <2>3 DEF WalkEnded, NewConnection
  <2>8. WalkEnded => Len(seen) = counted
    BY <2>4, <2>5, <2>6, <2>7
  <2> QED BY <2>2, <2>5, <2>8 DEF Rows
<1>2. IInv => ForwardWalkIsExact
  BY <1>1 DEF ForwardWalkIsExact
<1> QED BY <1>2, InvariantHolds, PTL

(***************************************************************************)
(* A client that follows startCursor while hasPreviousPage gets every row  *)
(* there was when it began, in pages of any size, however the table grows: *)
(* also from pages that computeBackwardPage lets reach past their cursor.  *)
(***************************************************************************)
THEOREM BackwardWalksMissNothing == Spec => []BackwardWalkMissesNothing
<1>1. ASSUME IInv, pc = "answered", walk = "backward", WalkEnded
      PROVE  0 .. atStart - 1 \subseteq {seen[k] : k \in DOMAIN seen}
  <2>1. PICK n \in Nat \ {0} : request.last = {n} /\ request.first = {} /\ request.after = {}
    BY <1>1 DEF IInv, BackwardOK
  <2>2. connection.ok /\ HasSeen(Page.offset)
    BY <1>1 DEF IInv, BackwardOK
  <2> DEFINE rows == RowsFrom(Page.offset, Page.limit, counted)
  <2>3. Page.ok /\ connection = NewConnection(Page.offset, counted, rows)
    BY <1>1, <2>2 DEF IInv, AnswerOK
  <2>4. Page.offset \in 0 .. counted /\ (rows = <<>> <=> Page.limit = 0) /\ counted \in Nat
    BY <1>1, SelectedRows DEF IInv, TypeOK
  <2>5. Page.limit = 0 => Page.offset = 0
    BY <1>1, <2>1, <2>3, PageOfBackwardWalk DEF IInv
  <2> HIDE DEF rows
  <2>6. rows = <<>> \/ ~(Page.offset > 0)
    BY <1>1, <2>3 DEF WalkEnded, NewConnection
  <2>7. Page.offset = 0
    BY <2>4, <2>5, <2>6
  <2> QED BY <2>2, <2>7 DEF HasSeen
<1>2. IInv => BackwardWalkMissesNothing
  BY <1>1 DEF BackwardWalkMissesNothing
<1> QED BY <1>2, InvariantHolds, PTL
=============================================================================
