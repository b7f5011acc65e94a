# Verification of elliptics-go

`elliptics-go` is a Go binding for the elliptics distributed storage. Go code
calls a C++ shim (`session.cpp`, `node.cpp`, ...) over the elliptics client
library; the library answers on its own threads through exported Go functions.
The binding's own logic is the machinery between the two: numbers that stand
for Go closures, callbacks that run them, channels that carry the answers, the
chain of callbacks that writes a large object chunk by chunk, the loop that
streams one to an HTTP client, the search that gives bulk results their keys,
and the statistics a monitor builds from routes and replies. That is what is
modelled here.

## 1. Inventory

| component | state | operations | interacts with |
|---|---|---|---|
| context pool (`pool.go`) | `counter`, a locked map from numbers to Go values | `NextContext`, `Store`, `Get`, `Delete` | every asynchronous method, every exported callback |
| asynchronous methods (`session.go`, `backend.go`, `DnetStat` in `stat.go`) | per call: contexts, closures, a response channel of capacity `defaultVOLUME` | about thirty methods with one skeleton | pool, C++ shims |
| exported callbacks (`callback.go`, `backend.go`, `stat.go`) | none | look up, assert the type, call the closure | called by the shims on library threads |
| C++ shims (`session.cpp`, `stat.cpp`) | the library's session | start a request and `connect()` a per-result and a final handler | the library |
| chunked writes (`WriteChunk`) | remaining size, offset, one buffer, three contexts | prepare, plain, commit, driven by its own final callback | pool, shims, an `io.Reader` |
| HTTP streaming (`StreamHTTP`) | offset, size | read chunk by chunk into an HTTP response | `ReadKey` |
| keys (`key.*`) | a C++ vector of keys | sort by name, find by id | bulk methods |
| session settings | groups, namespace, flags, filter inside the library's session | setters; `BulkRemove` also sets the filter | later requests of the session |
| routes and statistics (`route.*`, `stat.*`, `stat_json.go`) | groups, backends, ids, counters, PID | `GetRoutes`, `AddStatEntry`, `Finalize`, `Diff`, `PIDUpdate` | pool, `DnetStat` |
| node, logger, conversions, errors, flags | none of their own | construction, copies of fields | - |

What is hard: callbacks of several calls run on several threads while other
goroutines draw, store and delete numbers; a number given twice, deleted early
or never deleted shows up in another call or never; a callback that sends to a
full channel keeps its thread; answers may be delivered inside the very call
that has not returned its channel yet; methods can panic half way; the chunk
writer shares one buffer and three variables between a chain of callbacks;
sizes and counters are unsigned and wrap; one call changes a setting that others
depend on; replies of several servers overwrite one time stamp, and objects of
one poll of the statistics end up in the next.
`PROJECT.json` lists these hazards at their lines.

What makes each component correct:

* pool and callbacks: a callback finds its own closure, of the type it expects,
  until the final callback has run, and nothing remains afterwards;
* response channels: each caller receives its own results, in order, all of
  them, an error exactly if the operation failed and as the last value, then
  the close; every request ends;
* chunked writes: the object is the input, in order; success means committed, and
  committed means within the prepared area; the buffer is not touched while it is
  being sent;
* keys and filters: a result without an error is a success; a bulk result
  carries the name of its own key, or at least it is known when it does not; a
  failed key is always reported; keys are not used after they are freed;
* HTTP streaming: the response is the range asked for, in order, of the length
  announced; the loop ends;
* statistics: the shares of a group make up its ring; a rate is what happened
  between two samples; what an older `DnetStat` says does
  not change while the next is built; updates of a PID exclude each other.

## 2. Modules

| module | models | uses |
|---|---|---|
| `ContextPool` | `pool.go`: `counter`, `pool`, `NextContext`, `Store`, `Exists` (the `exists` of `Get`), `Delete` | |
| `SessionMethods` | one record per method: what it stores, which types its callbacks assert, what its `onFinish` does and how it can fail | |
| `AsyncOps` | the life of concurrent calls: caller, library threads, callbacks, reader | `ContextPool`, `ResultStream` |
| `ResultStream` | abstract specification: what the caller of a method is promised | |
| `MCAsyncOps` | instances of `AsyncOps` with `SessionMethods` | both |
| `AsyncOpsProofs` | theorems about its contexts and callbacks | `AsyncOps`, TLAPS |
| `StreamProofs` | theorems about its streams, and that it implements `ResultStream` | `AsyncOpsProofs` |
| `WriteChunk` | one `WriteChunk` call | |
| `WriteChunkProofs` | theorems about it | `WriteChunk`, TLAPS |
| `BulkKeys` | `ell_keys`, the session's filter and namespace, and what single and bulk calls deliver under them | |
| `BulkKeysProofs` | theorems about it, its sort and its search | `BulkKeys`, `SetInduction`, TLAPS |
| `StreamHTTP` | one call of `StreamHTTP` | |
| `StreamHTTPProofs` | theorems about it | `StreamHTTP`, TLAPS |
| `RouteRing` | `StatGroup.Finalize`: the division of the ring, as operators, with a reference definition | |
| `RingProofs` | theorems about that division | `RouteRing`, `SetInduction`, TLAPS |
| `StatMonitor` | repeated `DnetStat`, `GetRoutes`, `AddStatEntry`, `Diff`, `PIDUpdate` | `RouteRing` |
| `StatMonitorProofs` | theorems about it | `StatMonitor`, `RingProofs` |
| `SetInduction` | induction over the natural numbers in a form the provers can use | TLAPS |
| `MCWriteChunk`, `MCBulkKeys`, `MCStreamHTTP`, `MCStatMonitor` | instances of these | |

### AsyncOps

The thirty methods are one piece of code written thirty times, so they are one
specification whose parameter is the record of the method
(`SessionMethods`). A call goes through these actions.

| action | code |
|---|---|
| `AllocContext` | `NextContext()` |
| `RejectError`, `RejectPanic` | `NewKey`, `ReadAll`, ... fail before anything is stored: an error on a closed channel, or a panic |
| `StoreContext` | `Pool.Store` of one closure |
| `CallLibrary` / `IndexPanic` | the `C.session_...` call / its argument `&x[0]` panics |
| `StartResult`, `StartFinal` | the library runs the handler given to `connect()`: on the caller's goroutine before the method returns, on an I/O thread later |
| `Get` | the exported callback up to its call of the closure, with both panics |
| `DropResult`, `Send`, `Close`, `DeleteContext` | the statements of `onResult` and `onFinish`, each an atomic step, in the method's order (`AfterGet`, `AfterSend`, `AfterClose`, `AfterDelete`) |
| `Return` | the method returns its channel |
| `Receive`, `SeeEnd`, `Abandon` | the caller's loop over the channel, or its leaving it |

`cb[c].to` is the call whose closure the pool lookup found; sends and closes go
to *its* channel, so a mixed-up number really delivers to the wrong caller.
`crash` records why the process died. A panic on the caller's goroutine ends
that call only (`pc = "panicked"`), since a caller can recover it; a panic in a
callback is on a library thread and ends the process. `Write` and `Cache` take
functions instead of a channel (`sink = "func"`): their values go straight to
`got`, and `closed` stands for `onResult` having been called. Results carry
their number within the call and nothing else. An `onResult` of nil is a function
that does nothing.

`Return` is not only the `return` statement: it is where the library's `connect()`
has handed the request over, after which its handlers run on I/O threads. What an
I/O thread does while the caller's goroutine still returns is what it may do right
after, since between the two the goroutine touches nothing shared.

Assumed of the library, which is not in this repository: the handlers of one
call run one at a time, per-result handlers first and the final one last and
once; answers present when `connect()` is called are delivered inside it.

### WriteChunk

Bytes are abstracted to positions: a write has an offset in the object, a
position in the input and a length; `buf` says which part of the input the
buffer holds. `Reads` is what an `io.Reader` may answer: short reads, `io.EOF`
with the last bytes or after them, other errors, nothing at all. Sizes are
numbers modulo `Word`. The error path (send, close, three deletes) is one step,
since AsyncOps examines those interleavings; delivery inside `connect()` is also
left to AsyncOps. The contexts are the flag `pooled`; `WriteChunk` stores
function literals, so its types agree.

### BulkKeys

A name is a number in the order of `sort.Strings`, an id a number in the order
of `memcmp`; the transformation of names into ids is one of `Hashes`, chosen at
the start, per namespace and injective. `Make` is a whole method up to its
return: the sort of `NewKeys` (a permutation of the slice in
order; equal names cannot be told apart), the ids in the vector afterwards (`KeyIds`:
`session_bulk_write` never transforms them), the filter the shim leaves behind
(`FilterFor`), the filter the request was made under. `Answer` is one entry of
the library, the filter's decision (`Passes`, external) and the closure that
takes it, with the bisection of `std::lower_bound` written out (`LowerBound`), since
what it returns on a vector that is *not* sorted is the point. `Finish` is
`onFinish` with its `Free`. Contexts, channels and threads are left to
`AsyncOps`. `about` in a result is history: the name the answer was really for.
`loosened` is history too: of the calls of `BulkRemove`, `SetFilter(SessionFilterAll)`
and `SetFilter(SessionFilterPositive)` the last was not the third; `loose` is its
value when a call was made.

A failed entry that reaches `on_read` has no io attribute: `to_go.io_attribute`
stays uninitialised and `go_read_callback` reads through it. The process may die
of that; the model follows it where it survives.

### StreamHTTP

`MakeKey` is `NewKey`, which may fail and end the call; `Ask` is the head of the loop, `GoodResult(n)` the first result without an error
through the test at the foot of the loop, `NoGoodResult` a channel closed
without one. `offset` and `size` are numbers modulo `Word`, as `uint64`s are.
`Rewrite` is another client that changes the length of the record between two
chunks. The body is the sequence of positions written, so that gaps and
repetitions show. Assumed of the storage: a good result has between one byte and
what was asked for and is there; at or beyond the end of the record it answers
with an error or with nothing.

### RouteRing and StatMonitor

`Gain` is `Finalize` without its loop: the sum over the ids of the gap before
each, for those whose predecessor a backend holds, plus the rest of the ring
behind the last id. `FirstHolder` resolves an id that two backends claim the way
a map filled in iteration order does; the order is chosen by `StartPoll` and
`RouteAgain`. `Arc` is the reference: the points of the ring whose greatest id
not above them is the backend's.

`StatMonitor` is the loop of a monitor: `StartPoll` (`DnetStat` up to its loop,
that is the request, the new maps and `GetRoutes`), a `GoodEntry`,
`DisabledEntry` or `BadEntry` for each reply, in any order, `EndPoll` (possibly
with the entry that carries only an error and is parsed all the same), `Diff`
with the poll before. `RouteAgain` is a `GetRoutes` on a `DnetStat` that has
routes, as `elliptics_test.go:78` makes. `ref[p][g]` says whose `StatGroup` a
`DnetStat` refers to, because `Diff` makes two of them share one. One counter
stands for all those `Diff` turns into rates, and a rate is kept as numerator
and duration. A reply is of any tick since the request went out (`since`), so that
replies processed one after the other may be of falling times; the clocks of the
servers are taken to be one, and the epoch, which a reply without a time stamp
gives, to be Go's zero time.

`LockPID` and `UnlockPID` are the two ends of `PIDUpdate`; `Diff` copies the lock
with the rest of the PID. `users` counts the updates between the two ends, and
`torn` (history) says what a copy did to them: `"stuck"`, a taken lock nobody there
will release, which every later `Diff` hands on; `"open"`, a free lock under an
update that holds it. `Unlock` of a free lock stops the program (`fatal`), as the
Go runtime does. `PIDPain`'s read lock is not modelled.

Servers (external) work, restart and lose their counters. A reply that is JSON but not of the expected shape, which
`Unmarshal` fills in as far as it can, is not modelled.

## 3. Runs

Passing:

| run | specification | shows |
|---|---|---|
| `safety` | `Spec` | the six safety properties and the type invariant for two concurrent calls of any two of `FindAllIndexes`, `ParallelLookup`, `BulkRemove`, `BackendsStatus`; a panic of `&x[0]` is the only leak (`LeaksOnlyByIndexPanic`) |
| `streams` | `Spec` | `AsyncOps` implements `ResultStream`, with `Sound` and `CloseIsFaithful`, for methods that panic, delete first, keep all their results, or call functions (`ListIndexes`, `Write`, `WriteKey`, `BackendsStatus`) |
| `live` | `FairSpec` | callers may walk away; readers see the end and contexts are released, unless a channel nobody reads is full; methods return, unless `connect()` itself overfills the channel (`ReturnsUnlessOverfull`) |
| `chunks` | `FairSpec` | the properties of chunked writes for objects above one chunk, from readers with less, as much or more (`OvershootFails`) |
| `bulk` | `Spec` | keys, errors and lost answers of two calls on one session (`SuccessIsReal`, `NamedWhenOrdered`, `DropsOnlyBeyondLast`, `FailuresReported`, `KeysOutliveRequest`) |
| `http` | `FairSpec` | the response of `StreamHTTP` is the range asked for (`BodyIsContiguous`, `WithinAnnounced`, `SuccessIsWhole`, `ExactRange`, `AsksWithin`) and the loop ends (`EndsUnlessEmpty`) |
| `stat` | `Spec` | `RingShares` against the reference, `RateIsTrue`, `PIDExclusive`, and `OlderStatsStay` as an action property |

Violations, each a finding in `PROJECT.json` with the line it contradicts:

| run | property | what the trace shows |
|---|---|---|
| `write_type` | `NoTypePanic` | `write` stores a value of the defined type `onLookupCallback`; `go_lookup_callback` asserts `func(*lookupResult)`; the first answer to a write panics |
| `blocked_thread` | `RequestsEnd` | a caller that stops reading blocks an I/O thread on its full channel |
| `one_chunk` | `SuccessMeansCommitted` | an object of one chunk is prepared but never committed |
| `bulk_names` | `AllRetrieved` | two keys whose ids are in the other order than their names: one record is delivered under the other's key, the other is lost |
| `stat_timeout` | `OldStatsUsed` | no reply comes for a group; its routes had made it already, so the old statistics are not taken over |

`blocked_thread` and `live` say `CHECK_DEADLOCK FALSE`: a caller that leaves a
full channel can bring everything to a stop.

Where a promise fails, the passing properties say exactly how far it holds and
what happens beyond.

* `SuccessIsReal` names the methods whose callbacks do not look at the entry, and
  the sessions on which that matters: those a `BulkRemove` or a
  `SetFilter(SessionFilterAll)` left without the positive filter. There *every*
  failed `ReadKey` and `RemoveKey` comes as a success.
* `FailuresReported`: `BulkWrite` searches keys that have no ids, so it drops every
  good answer, and its caller sees failures only.
* `NamedWhenOrdered` and `DropsOnlyBeyondLast` say when the search by id is right
  and which answers alone it can lose.
* `LeaksOnlyByIndexPanic`: `FindAllIndexes` and four other methods take `&x[0]`
  after their contexts are stored; with an empty list they panic, and all of their
  contexts stay.
* `ReturnsUnlessOverfull`: a method does not return if `connect()` delivers more
  than the channel holds, because nobody has the channel yet. How much the library
  delivers there is its own affair, so this is a condition and not a finding.
* `OvershootFails`: a reader that has more than `total_size` can make `WriteChunk`
  write beyond the prepared area, `total_size` wraps, and everything else the reader
  has is written too; but such an object is never committed, and the call fails.
* `SuccessMeansCommitted` and `FailureLast` take the error that ends the call as its
  failure. A first read of no bytes puts an error on the channel and goes on: the
  object is committed all the same. The comment at `session.go:45-46`, that the
  channel is closed when an error occurs, is not what this path does.
* `RingShares`: every run of `Finalize` adds the whole ring, so that a second
  `GetRoutes` on a `DnetStat` counts it twice, up to wraps of the word.
* `RateIsTrue` needs both polls to have a reply for the backend and no later reply
  of another time; a restart between the two makes the numerator nearly the whole
  word, and the property says which. Where another reply overwrote the time, or a
  reply without one (the epoch), nothing is claimed: that hazard has no property.
* `PIDExclusive`: an update has its PID to itself over all `Diff`s, but for one in
  the middle of an update, with the two outcomes described under `StatMonitor`.
* `OlderStatsStay`: only a further `GetRoutes` on a `DnetStat` that has taken over
  an older one's group changes the older one.
* `EndsUnlessEmpty` names the only endless loop.

With no property: `BulkRemove` never frees its keys, and `NewKeys` sorts the
caller's slice.

### Bounds

* Two calls: every property relates at most two calls (mix-ups of numbers,
  competition for a thread). One thread is the hardest case for progress; the
  code has eight, and eight blocked callbacks stop it the same way.
* `Volume` 1 or 2 for `defaultVOLUME = 10`, with `MaxResults` below, at and
  above it: what matters is whether a channel is full.
* `MaxEarly` bounds what `connect()` delivers itself. `live` has `Volume` 1 and
  `MaxEarly` 2, so that it delivers less than, as much as and more than the channel
  holds, and both outcomes of `ReturnsUnlessOverfull` happen.
* `WriteChunk` has a buffer of three bytes, objects of four to eight, readers of
  two to nine, two offsets, six-bit words; that gives one, two and three further
  chunks, sizes at and next to multiples of the buffer, and wraps below zero.
* `live` has `MaxResults = 2`: results alone may fit or not, so both a jammed and
  an unjammed walk-away happen.
* `BulkKeys` has three names and three orders of their ids (that of the names,
  the largest in front, the smallest at the end): the bisection takes every kind
  of wrong turn, and loses an answer, with three keys. Two calls, because
  `BulkRemove` matters to the next one, and one change of a setting. The two
  calls are interchangeable (`SYMMETRY`; no liveness is checked).
* `StreamHTTP` has chunks of three bytes, records of up to eight, five-bit
  words, requests at, before and beyond the end, two rewrites: up to eight short
  chunks, all remainders, and sizes that wrap.
* `StatMonitor` has one group of two backends on two servers, two polls, three
  ticks, one further `GetRoutes`, a ring of eight points with ids at both ends,
  an id given twice and a table without the group. Two polls are one `Diff`, and groups
  do not interact. The same invariants hold with three polls, no further
  `GetRoutes` and no PID in use (2.1 million states), which is the first bound at
  which a taken-over group meets another `Diff`; that takes too long to be a run.

The methods in each run are one of each behaviour the records distinguish; the
others are equal to one of them as records or differ only in type names.

### Fairness

Weak fairness of the caller's statements, of a running callback, of a caller
that keeps reading, and of the library's final callback: `node.cpp` configures
`wait_timeout`, after which the library ends a request with an error. Nothing
is assumed of results: there may be none. The final callback is continuously
enabled only while a thread is free, which is what `blocked_thread` turns on.
In `WriteChunk` the same holds for each write, and in `StreamHTTP` for each
read: it is answered, with results or, after `wait_timeout`, with an error.

## 4. Theorems

`AsyncOpsProofs` proves, for every set of calls, threads and well-formed
methods and every bound:

| theorem | statement |
|---|---|
| `TypeCorrect` | `Spec => []TypeOK` |
| `Soundness` | `Spec => []Sound` |
| `ContextsAreFound` | `Spec => []NoMissingContext` |
| `ClosedOnceAndLast` | `Spec => []NoSendOnClosed` |
| `Pinned` | `Spec => []PinnedUntilFinal` |
| `LeaksByIndexPanic` | `Spec => []LeaksOnlyByIndexPanic` |
| `TypesAgree` | `Spec => []NoTypePanic` if every method stores what its callbacks assert |

The hypothesis of the last is what `write_type` shows to be missing in the code.

The argument. None of these properties is inductive. That a callback finds its
context depends on who else may have deleted the number, hence on numbers being
owned by one call, hence on `counter` being above all of them. `Sound` says
this in four parts: `OwnNumbers` (no number drawn twice, all at most
`counter`), `StoredIsThere` and `NothingElseIsThere` (the pool is exactly what
was stored and not yet deleted, under the right numbers), and `Stage`, per
call: before the library, in it, or ending, with how far the callback has come,
whether the channel is closed and how many contexts are gone. `TypeOK /\ Sound`
is inductive; the proof has one lemma per action and part. The assumptions are
`MethodsAssumption` (the shape of method records) and `BoundsAssumption`, both
evaluated by TLC in every run of `AsyncOps`.

`StreamHTTPProofs` proves, for every chunk size, word, set of requests, length
of records and number of rewrites (`SizesAssumption`, `RequestsAssumption`):

| theorem | statement |
|---|---|
| `HTTPTypeCorrect` | `Spec => []TypeOK` |
| `Contiguous` | `Spec => []BodyIsContiguous` |
| `NeverTooLong` | `Spec => []WithinAnnounced` |
| `Whole` | `Spec => []SuccessIsWhole` |
| `Exact` | `Spec => []ExactRange` |
| `NeverPastEnd` | `Spec => []AsksWithin` |

The argument is that no subtraction and no addition wraps while the position is
inside the record, and that the size is corrected once. `Paced` says so in three
parts: `InPlace` (the position is the offset asked for plus the length of the
body, as a sum and not modulo `Word`), `ChunkFits` (a chunk is at most what is
left, and once the header is out something is left until the end), `Balance`
(what is sent and what is left are at most what was announced, and exactly that
if the record reached to where the request begins; then it is also what was
wanted). `TypeOK /\ Paced` is inductive (`Pacing`); `GoodResultPaced` is the one
step with content. TLC finds `Paced` to hold on the instance of run `http`.

`StreamProofs` proves, from the same assumptions as `AsyncOpsProofs`:

| theorem | statement |
|---|---|
| `StreamsFlow` | `Spec => []SInv` |
| `OwnInOrder` | `Spec => []OwnInOrderEndLast` |
| `CloseFaithful` | `Spec => []CloseIsFaithful` |
| `MachineryImplementsStreams` | `Spec => ImplementsStreams`, the refinement |

The stream of a call is what its caller has plus what is in its channel.
`Flowing` says, call by call, that the values are numbered by the callbacks that
have returned (`Numbered`: own values, ascending, the closing one last), that
none is missing unless the method drops results, and that the closing value is
what the library said (`Truthful`). `SInv`, that is `TypeOK /\ Sound /\ Flowing`,
is inductive. `Sound` is needed because a send goes to the channel of the call
the pool lookup found, which it shows to be the call itself. For the refinement,
every step is a step of one call, and that call's step is one of `ResultStream`
(`Emit`, `Conclude`, `Close`, `Refuse` or `Take`) or leaves the images of its
variables (`DirectBar`, `SentBar`, `TakenBar`, `StateBar` in `AsyncOps`) alone.

`WriteChunkProofs` proves, for every chunk size, word, channel capacity of at
least two, and set of requests (`ChunkAssumption`: the chunk and the bytes the
reader has fit the word, as they do in 64 bits):

| theorem | statement |
|---|---|
| `ChunkSteadiness` | `Spec => []CInv` |
| `ChunkTypeCorrect` | `Spec => []TypeOK` |
| `WritesInOrder` | `Spec => []CopiesInOrder` |
| `BufferIsHeld` | `Spec => []BufferHoldsFlight` |
| `QuietOnceClosed` | `Spec => []ClosedIsQuiet` |
| `FailureIsLast` | `Spec => []FailureLast` |
| `OvershootNeverSucceeds` | `Spec => []OvershootFails` |
| `ReportsAreTrue` | `Spec => []LInv` if every object is larger than one chunk (`Large`) |
| `CommitOnly` | `Spec => []OnlyCommitReported` under `Large` |
| `SuccessIsCommitted` | `Spec => []SuccessMeansCommitted` under `Large` |

`CInv` is `TypeOK /\ Steady`: offset and remaining size are those of the request
moved by the bytes read so far, modulo the word (`Counted`), the write under way
carries on where the log stops and the buffer holds it (`UnderWay`), and nothing
has happened before the first write (`Untouched`). `OvershootFails`
rests on `Exact`, which is inductive with `CInv`: a commit, and a close without an
error, happen only when exactly `total_size` bytes have been read. Without `Large`
`SuccessMeansCommitted` fails (run `one_chunk`). The last two are inductive together with `CInv` (`LInv`)
because, for these objects, a write under way with nothing left to read is the
commit of all of `total_size`. `SuccessIsCommitted` does not need the reader to
stay within `total_size`.

`RingProofs` proves, of the operators, for every ring:

| theorem | statement |
|---|---|
| `WholeRing` | for a finite group with ids, the gains of its backends sum to `MaxId`, even if two claim one id |
| `ShareIsArc` | a backend's gain is the number of points of its `Arc`, an id given twice being the first holder's |

and `StatMonitorProofs`, for every finite set of backends, ring, routing table,
number of polls and length of time (`TopologyAssumption`):

| theorem | statement |
|---|---|
| `MonitorInvariant` | `Spec => []MInv` |
| `MonitorTypeCorrect` | `Spec => []TypeOK` |
| `PIDsExclusive` | `Spec => []PIDExclusive` |
| `RatesAreTrue` | `Spec => []RateIsTrue` |
| `SharesMakeTheRing` | `Spec => []RingShares` |
| `OlderStatsKept` | `Spec => OlderStatsStay`, an action property |

`MInv` is `TypeOK /\ PIDExclusive /\ Recorded /\ RateIsTrue`. `Recorded` relates
what a poll keeps to what happened: a `DnetStat` refers to groups of its own until
its `Diff` (`OwnGroups`), sums of a group finalised once are gains of one ring
(`Finalized`), counters are the server's at the time they are dated (`Dated`),
dates do not go back from poll to poll (`Aging`), counters grow where nothing was restarted
(`Climbs`), and rates are made by the one `Diff` of a poll (`Rated`).
`SharesMakeTheRing` has `RInv`, that is `MInv` and one more part (`Rings`): the
total of a group is a multiple of the ring for every run of `Finalize`, less the
wraps; each run keeps it because of `WholeRing`. `MaxClock < Word` says that a
duration does not wrap.

`BulkKeysProofs` proves, for every set of names and namespaces, every injective
transformation, every slice of names and any number of calls on a session:

| theorem | statement |
|---|---|
| `BeyondOnlyPastLast` | over any vector, in any order, the search ends past the end only if the last id is below the one looked for |
| `FirstNotBelow` | over a sorted vector it returns the first position that is not below |
| `SessionInvariant` | `Spec => []BInv` |
| `BulkTypeCorrect` | `Spec => []TypeOK` |
| `KeysAreThere` | `Spec => []KeysOutliveRequest` |
| `SuccessesAreReal` | `Spec => []SuccessIsReal` |
| `NamesAreRight` | `Spec => []NamedWhenOrdered` |
| `LostOnlyBeyondLast` | `Spec => []DropsOnlyBeyondLast` |
| `FailuresAreReported` | `Spec => []FailuresReported` |

The lemmas in front show that a sorting permutation exists for every slice
(`SortingExists`, `NewKeysSorts`), so `NewKeys` is a sort and not an arbitrary
choice, and what the bisection keeps true at each halving. `BInv` says of each
call that the ids it searches are those of its names, for the calls that
transform them, and below every id for `BulkWrite` (`FindNothing`: then nothing is
found), that its filter is the strict one exactly if nobody loosened it (`KeptOf`),
and that the results delivered and the answers given are in the correspondence the four properties are about, key
by key.

Induction over data. The induction theorems of the library are about a predicate
given as an operator, which the provers cannot instantiate. `SetInduction` states
induction about a set, which they can: the set of the numbers for which a claim
holds is defined in the proof. It is derived from the well-foundedness of the
natural numbers. The sort, the bisection, the sum over a set and the division of
the ring rest on it.

Only model-checked are the five liveness properties, `RequestsEndUnlessJammed`,
`ReadersFinish`, `ReturnsUnlessOverfull`, `CallEnds` and `EndsUnlessEmpty`: they depend on
fairness, hence on `ENABLED`, which TLAPS does not handle. Every invariant and
every action property of a passing run is a theorem.

## 5. Not modelled

Field copies between C and Go (`ctogo.go`, `dnet_attr.*`, `body.*`), errors and
flags, the logger, node construction, `LookupBackend`: no state of their own.
Destroying a session or a node while calls are open is excluded by the comment
at `node.go:72`. Wrap-around of the 64-bit context counter.
Of the session's settings only the filter and the namespace: groups, timeouts,
flags and the trace id go to the library and nothing here reads them back. Of
the statistics, sizes, times and defragmentation states (copied field by field),
the formula of the PID controller (floating point, no control) and the JSON
views. An `http.ResponseWriter` whose `Write` fails: the code ignores it.

## 6. Plan

Every component with state of its own is modelled, and every safety property of
the passing runs is proved. What may still be worth doing:

1. `StatMonitor` with a clock per server, so that the time of a `DnetStat` and the
   times of its replies may disagree in more ways.
2. The liveness of `AsyncOps` through a measure: each step of a callback lowers
   it, which is a safety property and can be proved, although that the steps are
   taken cannot.
