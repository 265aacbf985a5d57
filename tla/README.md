# A verification project for cartesi-rollups-hl-graphql

TLA+ models of the parts of the node where order, failure and concurrency
decide whether it is right, TLC configurations that check them on small
instances, and proofs for every instance that TLAPS checks. Paths below are
relative to the repository; line numbers are in `PROJECT.json`.

## 1. The system

The node serves, over GraphQL, the inputs, vouchers, notices and reports of a
Cartesi rollups application, from a *convenience database* it fills itself. It
runs in one of two ways:

* **beside a rollups node** (v2): the `GraphileSynchronizer` polls the node's
  PostGraphile server and copies its outputs, inputs and reports;
* **as a development node** (nonodo): the `InputterWorker` reads inputs from a
  chain, the application runs on the host and talks to the rollup HTTP API, and
  `NonodoModel` hands it inputs and records its outputs.

In both, the `OutputExecListener` marks vouchers executed on chain, the GraphQL
reader answers queries from the database, and a `SupervisorWorker` starts and
stops the workers.

| Component | State it keeps | Operations | Talks to |
|---|---|---|---|
| `GraphileSynchronizer`, `GraphileFetcher` | three cursors in memory | fetch a page of three feeds; store it and its cursors in a transaction | PostGraphile (HTTP), OutputDecoder, SynchronizerRepository |
| `SynchronizerRepository` | table `synchronizer_fetch` | append a row; read the newest | database |
| `OutputDecoder` | none | tell vouchers from notices, decode, call the service | ConvenienceService |
| `ConvenienceService` | none | create or update a voucher, notice, report or input; mark executed | repositories |
| repositories | tables `convenience_vouchers`, `_notices`, `_reports`, `_inputs` | insert, update, find, count, list | database |
| `NonodoModel`, rollups states, sequencers | list of inspects, the state (idle, advance, inspect) with accumulated outputs, a mutex | add an advance or an inspect, add an output, finish and get the next, register an exception | inputter, rollup and inspect API, decoder, repositories |
| rollup and inspect HTTP API | none (a request in progress) | poll finish 50 times every 100 ms; add outputs; poll an inspect | NonodoModel |
| `InputterWorker` | block to read from | read past inputs, watch new ones, reconnect | chain, NonodoModel |
| `OutputExecListener` | none | read past executions, watch new ones, reconnect | chain, ConvenienceService |
| v1 `Synchronizer`, `VoucherFetcher` | one cursor | poll vouchers of a v1 node | node v1, decoder |
| `SupervisorWorker` and workers | context, wait group | start in order, wait for ready, cancel all, wait for the end | every worker |
| `CheckAnvilAndInstall`, `HandleRelease` | a configuration file and an executable in the temporary directory | choose a release, remember it, download and extract it | GitHub, file system |
| GraphQL reader, pagination | none (a query in progress) | connections with first/after/last/before | repositories |

What is hard, and what makes each part correct:

* **Synchronizer.** Cursors live in three places (memory, the open transaction,
  the database) that move at different moments, and any database call, the
  commit included, can fail; the process can stop; a request may never be answered.
  Correct: what the saved cursors have passed is stored, but for what a failed commit or
  the lookup of `ConvenienceService` loses; nothing is read twice; cursors never go
  back; polling catches up while requests are answered and pages decoded.
* **ConvenienceService.** Create-or-update is decided on a lookup. Correct:
  every row is created once and no other row is taken for it. It is not so for the
  second row of an input (`viol_split_batch`, `viol_lost_output`).
* **NonodoModel.** The mutex keeps calls apart, but a finish is a series of
  database statements without a transaction that readers, failures and
  restarts can see in the middle. Correct: a verdict comes after the reports, the first
  voucher and the first notice it covers (the others are never stored:
  `viol_lost_output`), in index order; while no statement fails, once, and an input that
  is not accepted has no vouchers or notices; every input and inspect is processed.
* **HTTP API.** A finish request whose connection is gone may poll once more while
  the application polls again, or is launched again: a verdict or an output may be
  taken for another input than it is about. Correct: only so, and a bounded number
  of times; every request returns, every input and inspect is answered.
* **Inputter and listener.** Events are lost between the past read and the
  subscription; errors lead to reading again.
* **v1 synchronizer.** No transaction: rows one by one, then the cursor. Correct:
  the first output of every input the cursor passed is stored, wherever it is
  interrupted; it catches up.
* **Supervisor.** Unbuffered handshakes, timeouts and cancellation. Correct: workers
  start in order; no worker, however it fails, holds up the end.
* **Anvil release.** Files written in place outlive a process that stops. Correct: what
  is run is whole, unless a write was cut in its middle: nothing protects against that.
* **GraphQL reader.** A query reads an input and its outputs in statements of their own
  while `finish` writes. Correct: what it shows of the two agrees.
* **Pagination.** Arithmetic at the ends of a list; counting and selecting are
  two statements on a table that grows. Correct: a page holds the rows between
  its cursors, and a client that follows cursors misses none.

The hazards list of `PROJECT.json` gives each at its line with the properties
that cover it, or the reason none does.

## 2. Modules

| Module | Models |
|---|---|
| `Convenience` | the tables as sets of rows (table, input, index), and the create-or-update rule |
| `GraphileSynchronizer` | synchronizer, fetcher, `synchronizer_fetch`, the transaction around a page |
| `FeedMirror` | abstract specification: what any synchronizer of feeds promises |
| `GraphileSynchronizer_proofs` | theorems about the two modules above |
| `NonodoModel` | `model.go`, `state.go`, `sequencer.go`, the status and id of `convenience_inputs` |
| `NonodoModel_proofs` | theorems about it |
| `Reader` | `AdapterV1` and its resolvers over the database of `NonodoModel` |
| `Reader_proofs`, `CleanRun_proofs` | theorems about it, and about hosts without failed statements |
| `Pagination` | `ComputePage`, `NewConnection`, the `FindAll...` functions, a client that follows cursors |
| `Pagination_proofs` | theorems about it |
| `Inputter` | the `InputterWorker`: past inputs, subscription, reconnection, cancellation |
| `Inputter_proofs` | theorems about it |
| `RollupsHost` | abstract specification: what the host of an application promises |
| `RollupAPI` | the rollup and inspect HTTP APIs over `RollupsHost`, the application and the clients of inspects |
| `RollupAPI_proofs` | theorems about it |
| `Supervisor` | `SupervisorWorker` and the handshakes of server, HTTP, command and chain workers |
| `Synchronizer` | the v1 `Synchronizer` and `VoucherFetcher` |
| `AnvilRelease` | `CheckAnvilAndInstall` and its two files |
| `Node` | the process: supervisor, installation, inputter and v1 synchronizer, composed |
| `Node_proofs` | theorems about `Node` and its four parts |
| `MC...` | instances for TLC |

### GraphileSynchronizer

A cursor is a position in its feed; 0 is the empty string. `published` is what
PostGraphile serves, `cursor` the fetcher's fields, `page` the ends of the page
in hand, `tx` what a commit of the open transaction would make of the database,
`rows` and `saved` the committed tables and the newest `synchronizer_fetch`
row. `dropped` is history: the entries of batches whose commit was not applied.

| Action | Code |
|---|---|
| `Start` | `Start`: cursors from `GetLastFetched` |
| `Fetch` | `GraphileFetcher.Fetch` with page size `DefaultQueryBatchSize`; a failed request only waits |
| `Handle` | `handleGraphileResponse` to its end, including the cursors it moves before the commit |
| `RejectBatch` | a decoder error and the rollback |
| `AbortBatch` | a database error or the 5 second timeout, and the rollback |
| `Commit`, `CommitError` | `tx.Commit()`; the error with the transaction applied or not, and `callRollback` |
| `Crash` | the process stops; memory and the open transaction are lost |
| `Publish` | the node (outside this repository) appends to a feed |

The lookups of the create-or-update rule run on the connection pool, outside
the batch's transaction (only `ExecContext` goes through `DBExecutor`), so
`CreatedAll` lets every lookup of a batch see the state before the batch.
Rows are compared by input only, within one application: `HandleReport` gives
all reports the zero address, and for outputs the address is whatever the
second word of the blob holds, which is the same for vouchers of value zero
and for notices of equal length.

### NonodoModel

A call is begun by an action (`Finish`, `RegisterException`), which takes the
mutex by setting `call`, and every database statement in it is one step:
`StoreOutput`, `StoreReport`, `LoopEnd`, `RecordVerdict`, `CountProcessed`,
`PickInspect`, `PickAdvance`, `GoIdle`. `DbError` makes the statement at hand
fail (with no effect) and ends the call as the error returns do; `Crash` loses memory.
`status` and `id` are the columns of `convenience_inputs`, `rows` the output
tables, `state` the rollups state with the number of outputs accumulated for
each table. `recorded` and the field `handout` are history. What an inspect or an
input contains is left out. `AddAdvanceInput` may come in any order of the
indices, as a chain reader that reads twice may deliver them.
`StoreOutput` is `HandleOutput` with the lookup of `Convenience`, which knows only the
input: a second voucher or notice of an input is stored nowhere. `Kept` names the rows
that do get stored, and `VerdictAfterOutputs` is about these; `AcceptedKeepsOutputs` is
what the API promises. `AddVoucherWithInput` and `AddNoticeWithInput` are called by tests
only and left out.

### Reader

`Reader` adds queries to `NonodoModel`, one at a time. `AskInput` reads the status of an
input and `ResolveConnection` one of its three connections; `AskOutput` reads an output
and `ResolveInput` its input. Between the two statements the host does what it likes.
A query for more resolves each object and each connection like these, so every pair of
statements of it is such a query. A connection is taken as one statement with room for
every row; that counting and selecting are two is the matter of `Pagination`. `owed` is
history: what the execution emitted whose verdict was read; `ShownWithOutputs` asks for
the rows of it that `Kept` names.

### Pagination

A row is its offset in the `ORDER BY` of its query, a cursor the offset it
encodes, and an optional argument a set with at most one element. `Count` and
`Select` are the two statements of a `FindAll...` function; `Select` includes
`ComputePage`, which the code calls between them, and the connection made of the
answer. `AddRow` is a worker's insert; new rows come last, as workers
store outputs in input order. `StartWalk` and `FollowCursor` are a client that
follows `endCursor` (or `startCursor`) to the end. A cursor that is not an
encoded number is refused like one out of range.

`ExpectedPage` is the reference: the rows between the cursors, and of these the
first (or last) as many as asked for. `PageIsExpected` leaves out only
`LastPastCursor`, the case of `viol_backward_page`.

### Inputter

An input is its index, `BlockOf` its block. `pc` follows `Start` and the loop of
`watchNewInputs`: `dial`, `read` (`FilterInputAdded`), `past` (`AddPastInput` for
each log), `subscribe`, `watch` (`WatchEvent`, `WatchEnds`: the goroutine's select), `sleep`
(`reconnectDelay`), `ended`. `logs` is what the iterator or the subscription has yet to
deliver; the chain (`Mine`) adds to it only while the worker watches.
`unseen` and `gap` are history: inputs mined since the past was read, and those of
them for which the subscription came too late. Any request fails when the context
is cancelled, and at other times up to `MaxFaults`. `added` stands for
`AddAdvanceInput`, which inserts an index once (`InputRepository.Create`); that
`NonodoModel` copes with any order of insertion is shown there, and `NoHoles` says
which orders there are. `WatchEnds` has both outcomes of a subscription that ends: with an
error the worker reconnects, with none it returns (go-ethereum's does so only when its
client is closed, which nothing here does). `ReadPastInputs` does not look at the
iterator's error; the iterator has all logs from the start, and only a log that does not
unpack could set it. Reorganisations of the chain are left out: the worker reads a
development chain and ignores removed logs.

### RollupsHost and RollupAPI

`RollupsHost` says what a host does, whatever fails: one thing is in hand (`hand`),
`Settle` gives it a verdict, and only then `HandOut` replaces it by the next in line
(inspects first, then the least unprocessed input) or `Release` by nothing.
`NonodoModel!ImplementsHost` maps the statements of the model on it: `RecordVerdict`
and the status of an inspect are `Settle`, the lookups `HandOut`, a crash `Stop`,
every other statement a stutter.

`RollupAPI` uses that abstraction for the calls of the model, which the mutex makes
one step, and adds the requests. A finish request is at `poll` or `sleep` (the
`select` of `Finish`), has turns `left`, is `cut` once nobody reads its answer,
and `about` is history: what the application had in work when it sent it.

| Action | Code |
|---|---|
| `PostFinish` | the application's call, with its status; `Finish` up to the loop |
| `Poll`, `PollFails` | `FinishAndGetNext` in the loop, and the answer if there is one; 500 on an error |
| `Wake`, `NoneAvailable`, `Leave` | the `select`, the 202 after the last turn, the context |
| `Cut` | the connection breaks, or `middleware.Timeout` answers; the handler goroutine runs on |
| `AddOutput`, `PostException` | the other calls of the application |
| `Relaunch` | the application ends and another is launched |
| `PostInspect`, `PollInspect`, `CutInspect` | `inspect`: the request, its polls, its context |

`Wake` asks for a context that is not done: a handler that waits in the `select` is woken
by what comes first, and one that gets there with a context that is done already leaves,
since its interval has just begun. Both would be ready only for a handler that was suspended
for a whole interval between the two. The node is one with a sequencer: with
`--disable-advance` there is none, every finish is answered by a 500 and nothing changes.
What `FinishAndGetNext` returns is always of a type that `convertInput` knows.

The default status of a first finish is `accept`, whatever is in hand: `rollup.go`
does not ignore it as `api/rollup.yaml:88` says ("The Rollup HTTP Server ignores the
content of the status field for the first finish request and after an inspect-state
request"), so a relaunched application settles what its predecessor had in hand. It is
one of the two causes that `MisjudgedBounded` allows for.

### Supervisor, Synchronizer, AnvilRelease

`Supervisor`: `main` follows `Start` of `SupervisorWorker` (`launch`, the `select` in
`await`, `run` until the context is done, `wait` for the wait group), `place` follows
`Start` of every worker: `offering` is blocked on its ready channel, `stuck` is a
server's command blocked on a channel nobody reads, and `ghost` is a server's polling
goroutine that still offers a message after the command returned. After a failed
start the supervisor goes through `run` like after a good one: line 70 announces it
ready in both cases. `Exit` leaves out that `HttpWorker` does not wait for its
handlers: `Shutdown` is given a context that is cancelled already (`http.go:40`).

`Synchronizer`: `at` follows `Start` of the v1 worker; `Handle` stores one output,
`Save` the cursor, `Fails` is a database error at any of the statements, `Refuse` a
decoder error, both of which end the worker. The lookup is the one of `Convenience`.

`AnvilRelease`: a file is `none`, `cut` or `whole`; `ListReleases` and `Download` begin
to write one, `SaveConfig` and `ExtractAsset` end it. `torn` is history.

### Node

One process at a time, with one of the lists of workers in `Deployments`. The
conjunction of each part's action with what it does to the others:

| Action | Parts |
|---|---|
| `Install` | `AnvilRelease`, before the supervisor starts; signals are not heard meanwhile |
| `Supervise` | the steps of `SupervisorWorker`, which set the context of all |
| `Starts` | a worker up to its message; the inputter's `Dial` is the start of it |
| `InputterSteps`, `SynchronizerSteps` | the worker runs once its message was taken; with a cancelled context every database statement fails |
| `Exits` | a modelled worker returns where its module says `ended`, any other when it likes |
| `Signal`, `Restart` | the context is cancelled; the process ends and starts again on the same database and directory |

`cancelled` is one variable: the context of the supervisor and of its workers. A
supervisor that returns an error ends the process (`Alive`).

## 3. Runs

| Run | Question | Bounds |
|---|---|---|
| `sync_faults` | do rows and cursors stay in step through every fault, is the first row of an input lost only to a failed commit, does the worker implement `FeedMirror` and catch up? | 8 entries, pages of 2, 2 crashes or aborts, 2 failed commits, 1 undecodable output |
| `viol_split_batch` | does the mirror lose nothing? (no) | as `sync_faults`, no fault |
| `viol_failed_commit` | do the cursors survive a rollback unchanged? (no) | 1 failed commit |
| `nonodo_faults` | do verdicts come in order, after the rows the code keeps, through faults; does the model implement `RollupsHost`? | 2 inputs, 1 inspect, 2 vouchers and a report each, 1 failed statement, 1 crash |
| `nonodo_clean` | do the halves of a query's answer agree; are verdicts final, inspects consistent, is everything processed? | 2 inputs, 1 inspect, 2 vouchers and a report each, 1 query at a time |
| `viol_lost_output` | has an accepted input all its vouchers and notices? (no, without any fault) | 2 inputs, 2 vouchers and a report each |
| `viol_rejected_outputs` | does a rejected input have no vouchers? (no, after a failed accept) | 2 inputs, 1 failed statement |
| `pagination` | is every page the expected one, and does a walk miss nothing? | 6 rows at most, default limit 4, limits -1 to 3 and 7, cursors -1 to 6 |
| `viol_backward_page` | does a page before a cursor end there? (no) | as `pagination` |
| `rollup_api` | what can cut requests, relaunches and errors do to verdicts and outputs, and is everything answered? | 2 inputs, 1 inspect, 2 requests at a time, 3 turns, 1 cut, 1 relaunch, 1 failed poll |
| `node` | do workers start in order and end together, and are inputs and outputs complete, whatever ends the process? | 3 inputs in 2 of 3 blocks, 3 failed requests, 1 restart, 4 outputs in pages of 2 with the last undecodable, three lists of workers |
| `viol_cancelled_inputter` | does a cancelled worker end? (no) | 4 inputs in 3 of 4 blocks, 3 failed requests, 2 restarts |

Why these bounds are enough: a page of 2 against feeds of 3 and 4 gives full,
partial and empty pages, and outputs of one input both in one page and in
two; two interruptions and two failed commits combine a fault with a second
one during the recovery from it, and a failed commit that was applied with one
that was not. Two vouchers make a finish fail before, between and after its
inserts; a failed statement and a crash combine. With two inputs and an
inspect each kind waits behind the other, and a query spans the end of one input and
the beginning of the next. Limits and cursors lie on both
sides of every table size, below zero and past the end included. Two inputs share
a block, so that a subscription can end between them, and three failures
interrupt the recovery from a failure. A cut request and the one that replaces it are
two, and a relaunch may cut as well; a third turn lies between the first and the
last. The lists have each kind of worker before, between and after others; the only
one left out before an inputter is anvil, whose handshake is checked in the first
list. The fourth output is in the second page, its two predecessors of one input are
in the first. The theorems remove the bounds
for the safety properties they cover.

What the bounds and the formulas leave out: `VerdictIsFinal`, `ShownOutputsAreAccepted` and
`AnswerMatchesHandout` hold only while no statement fails and the process lives, and are
checked and proved for such runs. One inspect shows that both kinds get their turn, not
how long a stream of inspects keeps an input waiting (`model.go:144`). `NothingSkipped` and
`FirstRowsStored` are about the first row of an input: the lookup loses the later ones.
`WholeUnlessTorn` excuses files cut by a stop or a failed write; it shows that a failed
download leaves nothing a later start takes for good.

Every property is broken by a plausible bug of the code, kept beside the
definition it changes as a `Mutant of ...` and listed in `PROJECT.json`.

### Fairness

`GraphileSynchronizer!FairSpec`: weak fairness of `Start`, `Handle`, `RejectBatch` and
`Commit`. A batch has five seconds (`graphile_synchornizer.go:70`), and a stopped process
is started again by its operator. `Fetch` is not fair: the client of
`graphileclient_impl.go:23` has neither a timeout nor a context, so that a request may never
end, and the worker waits for it whatever becomes of its context. `CatchesUp` therefore has
three outcomes: the worker waits for an answer for ever (`Unanswered`), the next page holds
an output the decoder refuses (`Poisoned`), or all that is published is behind the saved
cursors, but for what failed commits dropped. Faults are never fair.

`NonodoModel!FairSpec`: a call that has begun runs to its end (`Statement`: no
statement blocks for ever, and the mutex is held by the one call), and the
application calls finish again and again, which is the protocol of the rollup
API (`FinishAndGetNext`). Nothing is assumed of outputs and exceptions, nor, in
`Reader!FairReaderSpec`, of queries.

`RollupAPI!FairAPISpec`: handlers run on (no call blocks, sleeps end), and the
application, whenever it may, calls finish in the end. Nothing is fair about cuts,
relaunches, inputs or inspects.

`Node!FairNodeSpec`: weak fairness of the supervisor (its timers fire) and of the two
modelled workers; a worker of another kind may stay where it is for ever, which is the
case `ShutsDown` is about. Strong fairness of a successful `Fetch` says that requests to
the v1 node do not fail for ever. `CatchesUp` and `InputsArrive` exclude nodes that
are stopping by their right-hand sides.

`Inputter!FairSpec` (`viol_cancelled_inputter`): weak fairness of the worker's step; requests end (with an
answer or an error) and so does the sleep. Neither the chain, the supervisor nor
restarts are fair.

### What the violations show

* `viol_split_batch`: `CreateReport`, `CreateVoucher` and `CreateNotice` look
  for a row by input index and not output index. If two reports of an input
  come in different pages, the second is answered by an UPDATE that
  hits no row, and the cursors pass it.
* `viol_failed_commit`: the cursors move at line 230, the commit is at line 96
  of the caller. After a failed commit the page is skipped.
* `viol_lost_output`: the same lookup in host mode. `finish` gives every voucher and notice
  of an accepted input to `HandleOutput` (`state.go:127`, `:151`); the second voucher finds the
  first, its UPDATE hits no row, no error is returned, and the input is accepted without
  it. `api/rollup.yaml:136-138` and `:170-172` promise many of each, with indices.
* `viol_rejected_outputs`: an accept that fails half way leaves a voucher that a
  later reject keeps, against `api/rollup.yaml`.
* `viol_backward_page`: `computeBackwardPage` cuts the limit at the end of the
  table instead of the cursor: the page before row 1 with `last` 3 holds rows 0,
  1 and 2.
* `viol_cancelled_inputter`: cancelled before it watches, the worker fails to read
  the past and sleeps for ever, since lines 113-118 and 127-132 do not look at the context.

## 4. Proofs

For every source, page size and number of faults (`SourceAssumption`: entries
are rows, no entry appears twice and the rows of a table come from one feed;
`BoundsAssumption`: the bounds are numbers), `GraphileSynchronizer_proofs` proves type
correctness, `StoredWasRead`, `NoReplay`, `MissingExplained`, `FirstRowsStored`,
`SavedNeverGoesBack`, that the worker implements `FeedMirror`, and that the mirror is exact
when no input has two rows of one table and no commit fails (`ExactMirror`). Without failed commits it also proves
the claim that `viol_failed_commit` refutes (`CursorsFollowDatabase`): the failed commit
is its only cause.

None of these is inductive alone. `IInv` adds the order *saved <= cursor <=
page*, that between batches whatever lies between the saved and the in-memory
cursors was dropped by a failed commit (`SkippedWasDropped`), and that an
open transaction is about the stretch between the saved cursors and those it
will save (`TxInv`). `AppliedMoves` and the three lemmas after it say once what
applying that transaction does; a commit and a commit whose answer is lost both
use them. `NoReplay` follows since rows lie behind the saved cursors and the
page after the in-memory ones.

For every finite set of inputs, number of inspects, outputs and faults,
`NonodoModel_proofs` proves type correctness, `InputOrder` and
`VerdictAfterOutputs`. `IInv` adds, for the order, that ids grow with
insertion (`IdsBounded`) and that every predecessor of the input in hand has
its verdict (`PickedInOrder`); for the outputs, how many rows of each loop a
running finish has written (`FinishProgress`). For an output that a finish passes on its
way the lookup finds a row, and this is the first one, because only first rows are ever
created for an input (`OnlyFirstRows`). With `SettledBeforeLookup` (a call gets to
its lookup only when what was in hand has its verdict) every statement is a step of
`RollupsHost` or a stutter (`ImplementsRollupsHost`).

`Reader_proofs` shows that the host beside queries still runs its own specification
(`RunsModel`) and, with `VerdictAfterOutputs` and that no statement deletes rows, that
an answer with a verdict shows all reports of that execution and, if it was accepted, its
first voucher and first notice (`AnswersAreWhole`), through any faults.

`CleanRun_proofs` assumes `NoFaults` (`MaxDbErrors` and `MaxCrashes` are 0) and proves
`VerdictIsFinal`, `ShownOutputsAreAccepted` and `AnswerMatchesHandout`. Its invariant
`CleanInv` says that the input in hand has no verdict until its call writes it
(`NoVerdictYet`), that rows belong to inputs with a verdict or to the one being
finished, vouchers and notices to accepted ones or to one being accepted, and that of
the input in hand there are just the reports of this call, so `saveAllReports` never
hits a row of its own. `RejectedHaveNoOutputs` follows, the claim that
`viol_rejected_outputs` refutes with one failed statement. `InspectInv` says that nothing gets a verdict while an inspect is
in hand. With a fault none of the three holds: see `viol_rejected_outputs` and the
hazards at `model.go:137` and `state.go:377`.

For every table size, default limit and arguments, `Pagination_proofs` proves
that `LIMIT` and `OFFSET` stay within the rows counted (`PageWithinTable`), then
type correctness, `PageIsExpected`, `ForwardWalkIsExact` and `BackwardWalkMissesNothing`. `CountBelow` and
`CountAbove` turn the counting of the reference into differences of offsets.
`IInv` says that an answer is the page of the rows *counted*, which
`RowsWithinTable` makes independent of the rows added since, and that a forward
walk has seen exactly the rows up to its cursor. A backward walk has seen at least all
rows from its offset to the end it began at (`BackwardOK`): a page may reach past its
cursor, which shows rows again but leaves none out (`PageInFront`).

For every set of inputs and blocks (`InputterAssumption`: blocks grow with the
index and do not precede the input box) and any number of faults, `Inputter_proofs`
proves type correctness, `MissedOnlyInGap` and `NoHoles`. `IInv` adds that nothing
before `currentBlock` is missing but what the gap took (`PassedOK`, which makes
reading from there enough) and that after the past was read everything mined is
added, pending or unseen, the unseen after the pending (`PendingOK`). `FirstIsLeast`
rests on the well-foundedness of the naturals.

For every set of inputs, any finite number of requests in flight, any turns, inspects,
cuts, relaunches and errors (`RollupAPIAssumption`; indices of inputs are naturals),
`RollupAPI_proofs` proves type correctness, `MisjudgedBounded` and `TaintedBounded`. The
bounds count what has gone wrong, which no step preserves; `MisjudgedOrToCome` and
`TaintedOrToCome` count also what will:

* A request that was cut while it was about to poll (`Doomed`) judges what is in hand and hands out
  another: two of the first bound, one of the second. The cut pays for it in advance,
  and its poll uses it up (`DoomedByHandler`). A request cut in its sleep leaves
  without a poll.
* What is in hand while the application has something else is worth one
  (`ToMisjudge`, and `ToTaint` if the application has anything): the next finish
  misjudges it. A relaunch pays for that one, but taints nothing, since an application
  that has nothing emits no outputs.
* That nothing else adds to it needs two facts of the protocol. What the application
  has is in hand or has its verdict (`HeldOrJudged`), so `NextInLine`, which gives out
  only what has none (`NextIsWaiting`), never returns to it; and a request that still
  sleeps is not about what is in hand (`SleepsWithoutHand`).

`Node_proofs` carries these results into the composed process, for every list of
workers with at most one inputter and one synchronizer (`NodeAssumption`; two of a kind
would share a state that the model has once), every feed and every page size. Its
first half shows that each part of a node runs its own specification (`RunsSupervisor`,
`RunsInputter`, `RunsSynchronizer`, `RunsRelease`), so what is proved of a part is proved
of the node: the inputter's theorems are cited as they are. For the others:

* `SupInv` adds to `StartsInOrder` that the supervisor, while it launches, has readied
  all it launched (`Ordered`), and that a worker not yet running is the one it waits
  for, unless the context is cancelled (`Waited`); hence `WorkersStartInOrder`
  and `NobodyHangs`.
* `SyncInv` says that there is a point of the feed up to which all was handled, not
  before the saved cursor, the page's progress or the cursor in memory, and that
  the first output of each input before it is stored (`HandledUpto`). A
  restart falls back to the saved cursor and handles outputs twice, which the lookup
  makes harmless; hence `NothingIsSkipped` and `UndecodableStops`.
* `ReleaseInv`: a cut file is being written now or was torn (`AnvilIsWhole`).
* `Placed` ties the place the supervisor sees to the worker's own position, which makes
  `NodeTypeOK` inductive (`NodeTypeCorrect`).

Every safety property and every action property of the passing runs is proved. Only model-checked: liveness (`CatchesUp`,
`EveryInputProcessed`, `EveryInspectAnswered`, `InputsArrive`, `ShutsDown`, `FinishReturns`, `InputsGetVerdicts`,
`InspectsReturn`), since fairness and ENABLED are out of the prover's reach.

## 5. Not modelled, and the plan

* **Generated code** (GraphQL schemas and clients, OpenAPI servers, contract bindings)
  is about two thirds of the lines of the implementation and is used as
  its generators promise.
* **GraphQL reader**: `AdapterV2`, which asks the node for proofs, and the conversions
  to GraphQL values. The filters that repositories translate to SQL select rows
  independently of one another; the one by input is in `Reader`.
* **Decoder's contents**: `HandleOutputV2` compares a selector and decodes ABI data;
  which outputs fail is a constant (`Undecodable`) here, what the others contain is not
  looked at by any property.
* **OutputExecListener** is its handshake and exit: `OnEvent` demands one event value where
  the contract's `OutputExecuted` carries two (`output_exec_listener.go:48`), so it
  never changes a row, and its dial loop ignores the context. `UpdateExecuted` has no
  other caller. If the event is mended, `Inputter` is the model to begin from.
* **Data availability** (Celestia, Syscoin) and Gio: single requests to services.
* **Command line**: options appear as `Deployments`. One is overwritten: the RPC address is
  set to anvil's although `--rpc-url` named another node (`nonodo.go:213`).
* A server's port is polled, not the process behind it: another process that answers
  on it makes the node believe anvil is ready (`server.go`). Processes outside the node
  have no model.
* **Filters of the model** are used by tests only.

Next: `AdapterV2` beside `Reader`; pages of tables in whose middle rows are inserted, as
the inputter's late inputs are; theorems that carry what is proved of `NonodoModel` through
`RollupsHost` to the calls of `RollupAPI`.
