# A TLA+ model of isaac0914-utils

The repository is a Go library of four packages that services of one family
share: **zenalog** (an activity log kept in Elasticsearch), its storage package
**zenalog/es**, **zenpage** (page parameters and page results) and
**zenserver** (an HTTP server with a graceful exit, plus logging, configuration
and middleware). This directory models the parts of it whose correctness
depends on orders of events, on failures or on arithmetic at a boundary. TLC
checks the models on small instances, and TLAPS proves what matters most for
instances of any size.

Contents: [the system](#the-system), [modules](#modules), [runs](#runs),
[fairness](#fairness), [proofs](#proofs), [where code and text differ](#where-code-and-text-differ),
[what is not modelled](#what-is-not-modelled), [plan](#plan).

## The system

### Components, their state and operations

| component | source | state | operations |
|---|---|---|---|
| Logger, write side | `zenalog/logger.go`, `entry.go`, `option.go`, `context.go` | channel `ch`, flag `closed`, RWMutex `mu`, channel `done`, counter `dropped`, the flusher's batch and ticker | `New`, `Info`/`InfoFinish` (`log`), `run` with `flush`, `Close` |
| Elasticsearch client | `zenalog/es/client.go`, `store.go` (`Bulk`) | none of its own; a request in flight, its context and `http.Client.Timeout` | `do` over the addresses, `Bulk` and its judgement of the answer |
| Index preparation | `zenalog/es/store.go` (`EnsureIndex`) | the cluster's template, mapping and settings | `ensureTemplate`, HEAD, `create`, `backfill`; run by every instance at start-up |
| Query side | `zenalog/handler.go`, `list.go`, `es/query.go` | none; each page is computed from the index as it is | `parseListRequest`, `buildQueryRequest`, `Search`, `AggregateByTrace`, `CheckSearchMapping` |
| Structural diff | `zenalog/diff.go` | visited pointer pairs, collected changes, the edit-distance table | `diff`, `diffStruct`, `diffSlice`, `diffSlicePositional`, `leaf` |
| zenpage | `zenpage/page.go`, `result.go` | none | `Parse`, `Offset`, `Limit`, `NewResult`, `lastPage` |
| Server | `zenserver/zenserver.go` | the listener, the goroutine of `Serve`, the channel `serveErr`, the two contexts | `Run`, `RunContext`, `shutdown`, the hooks `OnStart` and `OnShutdown` |
| logx | `zenserver/logx` | the default slog handler; in each derived handler the slice `mods` of derivations | `Init`, `WithAttrs`, `WithGroup`, `Handle`, `Enabled` |
| config | `zenserver/config` | the struct that is filled | `LoadInto` (YAML over defaults), `OverrideFromEnv` |
| ginx | `zenserver/ginx` | per request: its context, the response | `RequestID`, `AccessLog`, `Recovery`, the response envelope |

### How they interact

A service calls `zenalog.New` in `OnStart`; `New` runs `EnsureIndex` against the
cluster and starts the flusher. Handlers call `Info` and `InfoFinish`, which
compute a diff, build an entry and either put it in the channel, or, with
`Sync()`, call `Store.Bulk` themselves. The flusher moves entries from the
channel to its batch and calls `Bulk`, which goes through `client.do`. A
graceful exit ends the context of `RunContext`, waits for requests, and calls
`OnShutdown`, where the service calls `Logger.Close`. The query side reads the
same index that loggers write, through one HTTP handler. At its start a service
reads its settings (`config`) and sets up logging (`logx.Init`); every request then
passes `RequestID`, `AccessLog` and `Recovery`, which log through the default
handler, on its way to a handler that derives loggers from one that all share.
zenpage stands on its own.

### What is hard here

* **Interleavings.** `log` and `Close` share a channel that is closed under a
  writer lock while others send under the reader lock. `RunContext` races the
  end of its context against a goroutine that has not called `Serve` yet.
  Instances of a service prepare one index at the same time. Requests derive
  loggers from one parent, whose slice of derivations they would share.
* **Failures.** A request may be executed although its caller got no answer,
  and later than its caller gave up. `_bulk` answers 200 for a batch it refused
  in part. An index is deleted, and created again by whoever writes first. A handler
  panics; a log file cannot be written; a drain leaves `Close` no time.
* **Limits.** A full queue, a page beyond the result window, products of page
  number and page size that leave an `int`, slices longer than the limit.
* **Readers of a moving target.** Rows are inserted and deleted between two
  pages; documents become visible late and carry an earlier instant; the
  default time range slides.
* **Graphs.** The structs that are compared may share others and lead back to
  themselves; a struct in a cycle has no JSON to compare.

The hazards are listed line by line in `PROJECT.json`, each with the
properties that would catch it.

## Modules

Every module names at its head the code it models. Operators whose comment
begins with "Altered:" are variants of the definition that follows them, each
with a bug such code could have; they are used only to confirm that a property
notices it.

**`AsyncLog`** is the abstract specification of the write path: a sequence of
accepted entries, the prefix of it that was handed to the store, a phase, and the
answer to each caller's last call. Entries are handed over in order, once, in
chunks of at most `BatchSize`, with at most `QueueSize + BatchSize` outstanding. An
entry is dropped only when `QueueSize` others wait, and refused with `ErrClosed` only
when the log is no longer open; it is done only when nothing is left.

**`ZenLogger`** is the logger with its channel, lock and goroutines. A step
is what happens between two points where another goroutine can interfere: `log`
takes the reader lock (`RLock`), tests `closed` (`Check`), then sends or drops
and releases the lock (`Send`); the `Sync()` path releases it before Bulk
(`CheckSync`, `SyncReturn`). The flusher is `Receive`, `Tick`, `InputEnd`,
`BulkReturn` and `Exit`. `Close` announces itself as a writer (`Lock`), which bars
new readers, waits for the readers (`SetClosed`), closes the channel, unlocks,
and waits for `done` or for its context. `Bulk` appears by its begin and its
return only. Panics are observable: a send on, or a close of, a closed channel
sets `panicked`. `ZenLogger` instantiates `AsyncLog` with the phase read off `closed`
and the flusher's place, and the answers off the results of `log`; what the `Sync()`
path answers after it has left the queue alone is not `AsyncLog`'s.

**`EsBulk`** is one `Bulk`: the batch, the loop of `do` over the addresses, and for
each address what became of the request. The nodes are external: a request that
was sent may be executed at any time, with any subset of its documents accepted,
and its answer may be a bulk response, another status or not JSON. The three
kinds of context the callers use are distinguished, since the flusher's has the
same timeout as the client.

**`EnsureIndex`** runs several instances against one cluster. Every request
is one step of the cluster, after which the instance may or may not get the
answer; `client.do` then repeats it at the next address. The mapping is a set of
keys, the only content of it that differs between instances. `Dynamic` stands
for an index of dynamic mapping, on which a strict mapping cannot be put. An
operator may delete the index, a write may create it, and an instance may be
started again at any time, by a supervisor or as a deployment.

**`ZenServer`** is `RunContext`, the goroutine of `Serve` and `shutdown`, with
net/http as the code uses it: `Shutdown` closes the listeners that `Serve` has
registered, waits for `Serve` to leave and then for requests. Connections are
`waiting` as soon as the port is open, accepted or not. Its next state is split in
`Main`, the goroutine of `RunContext`, and `Elsewhere`, everyone else.

**`GracefulExit`** is the service that `logger.go` describes: `ZenServer` with the log
that `AsyncLog` promises, opened in `OnStart` and closed in `OnShutdown`, and with handlers
that log while they run. It adds to the step that leaves `OnShutdown` what `Close`
may answer: nil when the log is done, an error only when the deadline has passed.
The store may hang at any chunk. The steps of the log are `AsyncLog`'s own actions: a
handler's entry is accepted, dropped or refused as `AsyncLog` allows. That the logger
does no more than that, whatever its goroutines do, is what `ZenLogger` shows
(`ImplementsAsyncLog`).

**`ZenPage`** is zenpage in the use it is made for: parse, count, fetch, answer,
and a client that asks again for `lastPage` when it finds itself beyond the end.
The table changes between any two steps. `int` wraps at `IntMax`.

**`SliceDiff`** is the algorithm of `diffSlice`: filling the table cell by cell,
the walk back, and the changes, with the positional comparison for long slices.
Elements are leaves.

**`StructDiff`** is the recursion of `DiffStructs` around it, on a heap of structs
with leaf, pointer and slice fields: a stack of calls, the visited pairs, the tags
`-` and `mask`, and `canonical`, by which slices are aligned and wholes compared. Two
structs have equal texts when they unfold to the same content, or, where one leads to a
cycle and has no JSON, when their fields hold the same addresses. Slices are aligned
along any cheapest way: `SliceDiff` shows that `diffSlice` takes one.

**`ActivityList`** is the query side as a paging client sees it. A page is any
page Elasticsearch may return for the sort keys the code asks for: items with
equal keys may come in any order, and in another order for the next page. `walk`
records what the client has been shown.

**`Startup`** leads from the file, the environment and the defaults to the settings
that decide where a line goes, and from these to the handlers of `logx.Init`: by level,
by file, with or without stdout. A setting may be missing, good or bad, and the file or
the directory unusable. One destination breaks while the service runs;
`io.MultiWriter` then ends its round there, `multiHandler` does not.

**`RequestLog`** extends it with requests. A handler derives loggers with `With` and
`WithGroup`; the slice `mods` is an array with a length and a capacity, as in Go, and
`append` writes in place if there is room. A line is rendered as `traceHandler.Handle`
does, from the base or by replaying `mods`. The handler answers, returns or panics at
any point, and `Recovery` and `AccessLog` do their part in the order `router` gives them.

Modules `MC_X` instantiate `X` for TLC; modules `X_proofs` hold the theorems about `X`
(`GracefulExit_proofs` also those about `ZenServer`, `RequestLog_proofs` those about
`Startup`, `EsStore_proofs` those about `EsBulk` and `EnsureIndex`).

## Runs

| run | what it asks | bounds | states |
|---|---|---|---|
| `ZenLogger_safety` | no panic, conservation and order of entries, what Close promises, late calls, bound of a loss | 2 callers of 2 calls, 2 closers, queue 1, batch 2, symmetry | 126 000 |
| `ZenLogger_live` | implements `AsyncLog`; every entry flushed; Close terminates; async calls never block | 2 callers of 2 calls, 1 closer, queue 1, batch 2 | 83 000 |
| `EsBulk` | nil means indexed; first answer final; at most one copy per address; Bulk terminates | 2 documents, 3 addresses | 111 000 |
| `EnsureIndex` | a ready instance's keys stay mapped; never dynamic again; eventually ready | 2 versions, 2 keys, 2 addresses, 2 deletions | 8 000 |
| `GracefulExit` | nil means graceful; OnShutdown after the drain; a loss of entries is reported; the log is left open only by a failure; ErrClosed only after a timeout; termination; nothing left behind | 3 requests, queue 1, batch 1 | 49 000 |
| `ZenPage` | an answer is its page; the second request finds the last row | ints of 5 bits, 5 rows, six kinds of limits | 27 000 |
| `SliceDiff` | the changes replay, are minimal, in order; the walk stays on a cheapest path | 3 values, length up to 4, limit 3 | 18 000 |
| `StructDiff` | empty means nothing visible differs; each difference once; paths lead to the new values; the recursion ends | 4 structs, four families of heaps, limit 2 | 274 000 |
| `RequestLog` | a line shows its own logger and request; panics, statuses and access records; lines arrive where they should | 2 requests with 1 derivation each, 1 broken destination, symmetry | 1 199 000 |
| `ActivityList` | a walk shows all once; never misses a row; INTERNAL_ERROR is the server's | 3 documents, 2 traces, 4 instants, a default range of 1, pages of 1 and 2, ints of 5 bits | 384 000 |

Why these bounds are enough for what the runs ask:

* `ZenLogger`: two callers and two closers give every pair of conflicting
  goroutines; four calls fill a queue of one and a batch of two and leave one to
  drop, so that every branch of the select in `log` and both ways into `Bulk`
  are taken with a Close in every position. The liveness run has one closer: a
  second Close does nothing the first has not done. The theorems below remove the
  bounds for the safety properties.
* `EsBulk`: with three addresses there is one before, one at and one after the
  answer that decides; two documents let a node refuse one and accept the other.
* `EnsureIndex`: an old and a new version, one key apart, are the smallest pair in
  which one can take something from the other; two deletions allow one while an
  instance starts and one after it is ready.
* `GracefulExit`: three requests let one be answered, one run and one wait to be
  accepted when the context ends; three entries fill a flusher's chunk and a queue
  of one, and leave one to drop or to refuse.
* `StructDiff`: the heaps come in families, each complete for its question: three
  structs with pointers in every shape, that is all cycles and all sharing (before and
  after may reach each other); slices inside slices of up to two elements; slices
  of three, beyond the limit; masked leaves and masked pointers. A pair of
  structs that is reached twice, in a cycle or by two ways, needs no more than three.
* `RequestLog`: a race for a slice needs two requests and one derivation each, from a
  parent whose array has room: three derivations leave a capacity of four. The file
  gives each of the three settings no value or a good one, the environment no value, a
  good one or a bad one, in all combinations; a bad value in the file is a file that
  cannot be loaded. One broken destination shows what takes others with it.
* `ZenPage` and `ActivityList`: ints of 5 bits wrap within reach of the page
  numbers that are sent; there are enough rows for a full, a partial, an empty
  last page and one beyond the end.
* `ActivityList`: three documents and pages of one row make a flat walk of three rows over
  several pages, and two traces one of two groups, so that an order or a repetition across
  pages can go wrong. With four instants and a default range of one, documents fall
  out of the range, and others enter it late, between two pages. Two traces never
  exceed an aggregation that keeps two groups: lists that it cuts off are outside
  `WalkShowsAllOnce`, in the run and in the theorem.
* `SliceDiff`: lengths up to 4 with a limit of 3 exercise both algorithms and
  every case of the walk, on all 14 641 pairs of slices; longer ones repeat cells
  of the same shape, which the proofs cover.

Deadlock is not checked where the system stops by design: the number of calls is
bounded (`ZenLogger`), one call returns (`EsBulk`, `SliceDiff`, `StructDiff`), the server
has exited (`GracefulExit`), requests or documents are bounded (`RequestLog`, `ActivityList`). `EnsureIndex` and
`ZenPage` run for ever and are checked for deadlock.

Two runs look for, and find, a state that the repository's own text excludes;
they are described [below](#where-code-and-text-differ).

## Fairness

* `ZenLogger`: a goroutine that can go on does so in the end (Go's scheduler).
  Nobody is obliged to call `Close` or to log. The return of `Bulk` is *not* fair.
  What depends on it says so: `StoreAnswers` is the premise of `EveryEntryFlushed`
  and `CloseTerminates`, whereas `AsyncNeverBlocks` holds even if the store hangs for
  ever. The premise is what `BulkTerminates` of `EsBulk` establishes. The ticker is
  part of the flusher's fairness: it fires again and again while the select waits.
* `EsBulk`: the client runs and its `Timeout` fires; nothing is assumed of nodes.
* `EnsureIndex`: instances run and a supervisor restarts one that failed.
  Failures and deletions stop at some point (`Calm`) only in the premise of
  `EventuallyReady`; the step itself is not fair.
* `GracefulExit`: the goroutines of the server run and the timer of `shutdown` fires.
  Handlers need not return, and the store need not answer: the flusher is not fair. That
  the hook returns is not assumed, it follows from `Close` obeying its context.

The other modules state no liveness property.

## Proofs

Checked by TLAPS for every value of the constants, from the assumptions the
modules name, each of which the code or Go justifies:

* `SizeAssumption` (`ZenLogger`, `GracefulExit`): queue and batch are positive, as
  `withDefaults` makes them;
* `NodesAssumption`, `KeysAssumption`: there is an address; every instance has keys, and
  the two states of an index that are no set of keys differ from one;
* `IntAssumption`, `ListAssumption`: limits, sizes and numbers are ints, and of the
  query side's constants (`list.go:15-18`) no more than their order:
  a default page is at most the largest, which is at most the result window, and this is an int;
* `ParameterAssumption`: a parameter not sent, or no integer, is no integer;
* `ShapesAssumption`: the derivations of the shared logger are attributes and groups;
* `LenAssumption`, `ElemAssumption`: lengths are numbers and the placeholder of an
  absent element is none;
* `FieldsAssumption`, `HeapsAssumption` (`StructDiff`): a struct type has its fields once each,
  of three kinds and with at most one tag; there are finitely many structs; a field holds a
  value of its kind; and `Nil`, the mask, addresses and leaf values can be told apart.

Every invariant below was checked by TLC on the module's run before it was proved.

**`ZenLogger_proofs`**, for any number of callers and closers and any sizes:
`TypeCorrect`, `NeverPanics`, `EntriesConserved`, `CloseDrainsAlways`,
`LateCallsRefusedAlways`, `LossBounded` and `LoggerImplementsAsyncLog`. None of the
properties but `Conservation` is inductive. The invariant that is, is the
conjunction of

* `Typing`: the types, and that a caller inside a call has begun one;
* `LockInv`: who is a reader and who the writer follows from where the goroutines
  are; a writer past its wait is alone; `closed` precedes the close of the
  channel, and no caller between test and send coexists with `closed`. From this
  the absence of panics follows at once;
* `Conservation`: accepted = flushed, batch, queue, in this order;
* `LateInv`: a call that began after `closed` is at none of the steps that accept;
* `DrainInv`: what the flusher may conclude from a closed and empty channel, and
  what a Close that returned nil knows;
* `FreshInv`: the accepted entries differ from each other and from the one each
  caller is about to send. Only the refinement needs it: `AsyncLog` accepts an entry once.

`LoggerImplementsAsyncLog` shows that every step of the logger maps to a step of
`AsyncLog` or a stutter, from this invariant. Its steps are `StepRefines`; `Answers` and
`Forgets` say what the end and the beginning of a call do to the caller's answer. An
entry is dropped where the channel is full, which by `Conservation` means that
`QueueSize` accepted entries are not yet flushed.

**`SliceDiff_proofs`**, for slices of any length: `WalkStaysCheapest`,
`ChangesStayInOrder`, `ChangesAreMinimal`, `ChangesAlwaysReplay` and `DiffTypeCorrect`. The
invariant says that each filled
cell has the value of the recurrence and none exceeds the longer of its two
indices. Filling a cell disturbs no recurrence filled before it, as the three
neighbours of a cell come earlier (`FillTable`). The heart is `CellWay`: in a full
table, where the walk neither keeps, replaces nor deletes, there is an element to
insert and the table says so. The `default` case of the switch in `diffSlice`
tests nothing, and this is why it needs no test and the index never drops below
zero. `OpsInv` and `OutInv` carry the order of the operations over to the changes.

That no alignment is cheaper (`ChangesAreMinimal`) is an induction over the sum of a cell's
indices: if a cell exceeded the cost of an alignment of its two prefixes, then so would one of
its neighbours, for that alignment without its last pair or without an unpaired last
element (`CellIsLeast`). It is told by the least such sum, which needs no induction
principle. The walk spends what the table says, so the changes are as many as the least
alignment takes. That the changes can be replayed (`ChangesAlwaysReplay`) rests on
what the operations leave out: the walk matches, in order, the old elements it does
not delete with the new ones it does not insert, and a matched pair that differs is a
change (`WalkMatches`, `OpsReplay`). An order-preserving match gives both sides the same rank,
which is where the element stands among the survivors (`CopyRanks`). By
position the match is the identity (`PositionsReplay`).

**`StructDiff_proofs`**, for any fields, tags and values, and any finite number of structs
that point to each other in any way: `PathsLeadToNewValues`, `EmptyAnswersMeanSame`,
`EveryDifferenceOnce` and `RecursionEnds`. Each property is about an answer, and each
invariant must say what the calls still on the stack will add to it.

* `Typing`: types, and that a call's values are of its kind, so that what is compared as a
  struct is one.
* `PathsInv`, for `ToIsAtPath`: the path of every call leads, in the new object, to the value the
  call is for. An element's path takes the new index (`AtElement`).
* `EmptySoFar`, for `EmptyMeansSame`: while nothing is reported, every visible field of a
  visited pair is *settled* (its texts are equal, or it leads to pairs that are visited,
  have equal texts, or are both nil) or a call for it is under way, and the two sides of every
  slice under way are in step. At the end no call is left. The pairs visited and
  those with equal texts are then a relation that no field leaves, and `Indistinct` is
  the largest such (`IndistinctIsLargest`). What lets the elements that `diffSlice`
  skips be counted in is `TextsAgree`: of two structs with equal texts, each field has
  equal texts, with JSON and, on a cycle, without.
* `FieldsInv`, `ReachInv` and `TallyInv`, for `DifferencesOnce`: a call for a field belongs to a pair
  already visited; what a visited pair points to is visited or under way, and so every
  pair in `Met` is visited (`MetAreVisited`); and for each field of each pair, the calls
  under way and the changes reported are together at most one, exactly one change in
  the end where the field differs. A pair is entered once, and each shown field is
  once in `ShownFields`, which is why nothing is counted twice.
* `EndsOnCycles` needs `Typing` only: `WorkOf` adds up the stack's calls
  (`WorkOfBoth`), and what replaces the innermost call weighs less than it.

`Indistinct`, `Within`, `At`, `Met`, `ShownFields` and `WorkOf` are recursive functions. What they
compute is proved from iterations of a set that only grows or only shrinks
(`GrowthEnds`, `ShrinkingEnds`) and from induction over the natural numbers stated for sets
(`AllNumbers`), which needs no operator as parameter.

**`EsStore_proofs`**, about `EsBulk`, for any batch and any number of addresses: `NilResultMeansIndexed`,
`FirstAnswerIsFinal`, `CopiesAreBounded` and `BulkTypeCorrect`. `LoopInv` says where `do`
is: addresses after the current one were sent nothing, and an answer, once heard, is of the
current one. For `NilMeansIndexed` this is strengthened by what an address that
executed the request has added to the index (`StoredInv`). `CopiesBounded` is an inequality between
a count and a cardinality; an execution adds one to both.

About `EnsureIndex`, for any instances, versions and addresses: `ReadyStaysMapped` and
`NeverDynamicWhileRunning`. Neither is inductive: an instance that is about to become ready
must know something of a cluster that others have changed since its last request. That is
`StartUpInv`: past its first step the template exists, so the index cannot become
dynamic; and settings once written stand while the index does. The proof uses that
no step takes keys from an index but its deletion, which `deleted` records.

**`GracefulExit_proofs`**, for any requests and sizes. `ServerInv` is an invariant of
`ZenServer` alone: at most one error is in the channel of `Serve`, nothing connects before
there is a listener, once it is left nothing is accepted, and the result tells the way
`RunContext` took. From it: `NilResultIsGraceful` and `OnShutdownFollowsDrain`.
`GracefulExitImplementsServer` shows that each step of the composition is a step or a
stutter of `ZenServer`, so that the invariant carries over. For the log there is nothing
of the kind to show: its steps are `AsyncLog`'s by definition, and that a `ZenLogger` may
stand in that place is `LoggerImplementsAsyncLog` above. `ExitInv` adds what relates the two: only a handler that runs
or has answered has logged, only `OnShutdown` shuts the log, a log that is done is drained.
From it: `LossIsAlwaysReported`, `LeftOpenOnlyAfterFailure`, `RefusalIsReported` and
`ExitTypeCorrect`.

**`RequestLog_proofs`**, for any requests, any number of derivations, any settings and any
destinations that break. `SettingsInv` says of each stage of the start-up what is left
to read, and gives `RunsAsConfigured`: the settings in force are those of file,
environment and defaults in that order. `Remembers` says what the array of a
derived logger holds; since `slices.Clip` leaves no room, `append` always makes a new array and
the arrays of other loggers stay (`WithRemembers`). From it: `LinesAlwaysShowTheirLogger`.
`CourseOf` gives the records of a request by position: entries, panic, access; from it
`PanicsAreAlwaysTold`. `Arrived`, which a destination that breaks later does not undo,
gives `LinesAlwaysArrive`, by cases over the modes and the levels.

**`ZenPage_proofs`**, for ints of any width and any limits: `AnswerIsAlwaysPage`,
`RetryAlwaysFindsLastRow` and `PageTypeCorrect`. The lemmas are the arithmetic of pages:
`FittingOffset` (limits that fit keep the product an int), `PageOfRow` and `OffsetOfPage`
(offset and page number are inverse to each other), `LastPageHoldsLastRow` (for an
empty list, an exact multiple and a remainder) and `BeyondTheEnd` (an empty page lies
after the last, so that the second request is for a page `Parse` accepts: it names a smaller
number than the first). `RetryInv` carries the last row through the second request.

**`ActivityList_proofs`**, for any documents, traces, instants and width of int:
`WalksShowAllOnce`, `NoRowIsMissed`, `ServerErrorsAreTheServers` and `ListTypeCorrect`. Without ties
the rank of an item is a bijection onto the positions (`RankBijection`), every full page before
the last is full, and a page is the items of its positions (`PageOfDistinct`, `WalkPage`); so a walk
has shown the first positions of the list, and nothing twice, as long as the list stays
(`WholeInv`). When it does not: documents only come in at the front or fall out
at the end of a range that moves forward (`RangeInv`), so an item that stays listed never
rises to a page already shown, and is shown or still to come (`MissInv`). The least
position that is missing, where the proofs need one, is found by well-foundedness
(`LeastNatural`).

The proof of `ServerErrorsAreNotTheClients` failed in its first form, which said that every
INTERNAL_ERROR is Elasticsearch's: for a page whose last position is no int the product
wraps past the check of the window and Elasticsearch refuses the search. The run had
missed it because no number it sent was large enough; the property now names the premise, the
run sends such a number, and `ActivityList_window` (below) shows what the code does with it.

What TLAPS does not check here, and TLC does:

* liveness (`CloseTerminates`, `EveryEntryFlushed`, `AsyncNeverBlocks`, `BulkTerminates`,
  `EventuallyReady`, `ShutdownTerminates`, `NothingLeftBehind`): fairness and ENABLED are out
  of the prover's reach. For the same reason `RecursionEnds` says that every step comes
  closer to the end, and not that the steps are taken.

Every other property of a passing run is a theorem.

## Where code and text differ

With a run that shows it:

* `EsBulk_tried`: a flush has a context with the timeout of the HTTP client. A
  silent first node uses it up, the second address is never contacted, and the
  error says all nodes were unreachable (`logger.go:226`, `client.go:15`, `client.go:63`).
* `ActivityList_window`: a page number whose product with the page size wraps gets
  past the check of the result window (`list.go:174`, `list.go:58`).

Observed while modelling, and visible as a premise or a bound in a property:

* An index created between HEAD and PUT, by another instance or by a write, makes `New` fail
  (`store.go:61`), for a reason `design.md:475` does not list. A restart helps, which is
  `EventuallyReady`.
* If the context ends before the goroutine has called `Serve`, `Shutdown` has no listener to
  close, and `OnShutdown` runs while the port is still open (`zenserver.go:126`), though
  `zenserver.go:60` says it runs after the server is closed. If Serve has failed at the
  moment the context ends, the select may take either, and the error of Serve is lost.
* When listening or Serve fails, `OnShutdown` does not run and what `OnStart` opened stays
  open; these are the two results that `LeftOpenOnlyByFailure` admits.
* A whole that is inserted, deleted or set from nil is shown by its JSON, which knows nothing
  of the tags `-` and `mask` (`diff.go:196`, `diff.go:236`, against `diff.go:36`). For the same
  reason a field tagged `-` takes part in the alignment of slices (`diff.go:144`): elements
  that differ in nothing visible may be reported as deleted and inserted.
* A pair of structs reached by a second path is reported under the first only
  (`diff.go:78`): `DifferencesOnce` counts by pair, not by path.
* A panic after the handler has begun its response leaves the status at 200, and a second
  envelope follows the first (`middleware.go:91`). `PanicsAreTold` says when it is 500.
* `io.MultiWriter` writes stdout first (`logx.go:108`, `logx.go:115`): a broken stdout
  takes the file behind it. `LinesArrive` admits it; an error is still in one of the files.
* Elements of slices that are paired are filed under their index in the new slice
  (`diff.go:194`; the comment at `diff.go:130` says only "with the index"), where
  `zenalog/docs/design.md:269` has the original index. What was deleted is filed under its
  old index (`diff.go:197`), so the fields of one answer mix the two. `ToIsAtPath` states
  what the code does; under the original index it would be false, as soon as an element
  before the pair is inserted or deleted.
* A crash loses at most `FlushInterval` of traffic, says
  `zenalog/docs/design.md:494-495`. What is accepted and not yet with the store is bounded by
  a channel and a batch (`BoundedLoss`); time does not bound it, since nothing is received
  from the channel while `Bulk` hangs (`logger.go:226`).
* A batch whose answer is lost is sent to the next address although it may have been
  executed (`client.go:52`): the documents have no id and appear twice. `CopiesBounded`
  states what holds, one copy per address. The design says "no retry" (`design.md:483`).
* `PUT _template` replaces the template (`store.go:87`). An instance of an older version
  that starts later takes keys out of it, and an index created automatically after
  that lacks them; `store.go:48-49` promises the right mapping.
* `Parse` returns `DefaultPageSize` without holding it against `MaxPageSize`
  (`page.go:57`, `page.go:62`), though `page.go:44` says the fields are within
  the limits; with a huge `MaxPageNum`, `Offset` wraps (`page.go:89`,
  `zenpage/docs/design.md:80`). `Fits` is the premise that excludes the second.
* `lastPage` knows nothing of `MaxPageNum` and may name a page that `Parse`
  refuses (`result.go:46`, `result.go:12`).
* Two entries of one nanosecond tie on both sort keys (`query.go:159`,
  `zenalog/docs/design.md:441-443`); `WalkShowsAllOnce` and `NoRowMissed` exclude ties.

## What is not modelled

* In `diff`: interfaces, values of two different types, arrays, functions and channels, and
  what `formatValue` makes of a value. The runs compare structs of one type.
* Conditions, keyword, excluded operations and the rows of a result: content that
  no property here tells apart. `CheckSearchMapping` only warns.
* In `EnsureIndex`, a request that is executed long after its caller gave up; within
  one request, executed and unanswered is modelled.
* The assembly of an entry, `WithOperator` and `WithTrace`, JSON and date formats.
* The codes and messages of the response envelope, and what a client's request id may be.
* Rotation (lumberjack), `SplitByHost`, the format of a line, `Init` without extractors (which
  installs a handler that derives nothing), and in `config` the number types of `setValue`,
  which differ from a Boolean only in what parses. Where a setting sits in nested structs
  makes no difference to `walk`; a nil pointer to a struct, which it passes over, is left out.
* Middlewares of the service, which come after the three that are modelled.
* Time is an order of events; a timer is an event that may come at any moment it is armed.

## Plan

In order:

1. Done: all the modules above, their runs, and the proofs about every module.
2. `CheckSearchMapping` and attrs conditions against an index that lacks a key.
