# consolidated_book: TLA+ models and proofs

These modules model the program of this repository, a service that reads trades
from exchanges over WebSockets, hands them over a lock-free queue to a consumer
thread and aggregates them into candles. TLC checks the models on small
instances; TLAPS proves the invariants and refinements for every value of the
constants.

The repository is work in progress: `server/main.cpp` is empty, the classes
`MessagePipeManager` and `CandleBuilder` are used but not present, and
`consolidate_candle_manager.h` lags behind its `.cpp`, and so do `trade.h` and
`base_provider.h` behind the providers (they set `ts_recv_ms` and text ids that
`Trade` does not have, and override `GetSubscriptionMessage` where the base class
declares `SubscriptionMessage`). What is missing is modelled from how the present
code uses it, and marked `external` in `PROJECT.json`.

## 1. The system

| Component | State | Operations | Hard behaviours |
|---|---|---|---|
| **MPSCQueue** (`message_queue.h`) | `enqueuePos`, `dequeuePos`, `sequence` and `data` of each cell | `Push` (many threads), `Pop` (one) | lock-free interleavings, weak memory, full and empty tests, a stalled producer |
| **ConsolidateCandleManager** (`consolidate_candle_manager.cpp`) | `running`, `worker_thread`, `builders`, the callback | `Start`, `Stop`, destructor, `Run`, `ProcessTrade` | shutdown races, trades left in the pipe, restart |
| **BaseProvider** (`base_provider.cpp`) | `running`, `worker_thread`, `ioc`, `ws_session`, `reconnect_count` | `Start`, `Stop`, destructor, `Run`, `HandleReconnection`, `PushTrade` | Stop against a running loop, reconnection, leftover handlers, exceptions |
| **WebSocketSessionSSL** (`ws.cpp`) | the pending operation, `stopped`, the callback | `Run`, `OnResolve` ... `OnRead`, `Stop` | a chain of callbacks that any error ends, a flag shared without synchronisation |
| **HashIDManager** (`hash_manager.cpp`) | `hashMemory`, `backupArr`, `backUpIndex`, `counter`, `backupArrCapacity` | `Init`, `UpdateHash` | a reset every 120000 messages, ring arithmetic, a second `Init` |
| **CandleManager** (`candle_manager.cpp`) | `candles` per instrument | `HandleMessage`, `HandleTrade`, `GetCandlesSnapshot` | malformed messages, incremental aggregation against its definition |
| **Spot parsers** (`binance_spot_parser.h`, `bybit_spot_parser.h`) | none that lasts | `operator()` | `noexcept` against throwing `value()`, uninitialised numbers |
| **Exchange providers** (`binance`, `bybit`, `okx`) | none of their own | `GetSubscriptionMessage`, `OnMessage`, `ParseTrade` | three threads that push into one pipe, partial failure in a message of several trades, three ways to write an instrument |
| **ServerConfig** (`config.cpp`) | the options | `ParseFromArgs`, `Validate` | repeated and empty options, `stoi`, an off-by-one in `substr` |
| **ExchangeConverter** (`exchange.h`) | none | names to enumerations and back | a wrong branch gives one instrument's candle to another |

How they interact: a provider owns a worker thread, its `io_context` and one
session after another. The session calls the provider's `OnMessage` on that
thread; `ParseTrade` pushes trades into the pipe, an `MPSCQueue`, which the
consumer thread of `ConsolidateCandleManager` polls. The consumer feeds a candle
builder per instrument and calls the candle callback. Another thread, the owner,
starts, stops and destroys both. `CandleManager` with its parsers is the
single-threaded library that the unit tests cover.

What makes each correct:

- *queue*: items come out once, in claim order, never half-written; no cell is
  used by two threads; a full queue refuses; nobody is blocked for ever;
- *provider and session*: Stop returns, and no message is handled after it; a
  lost connection is followed by another attempt; the process never terminates;
- *hash filter*: a recent duplicate is rejected, a new hash accepted, memory
  bounded;
- *candles*: prices, volumes and window are those of the trades aggregated;
- *consumer*: no accepted trade is lost or overtaken, the callback is not
  called by two threads, shutdown emits what was processed;
- *providers together*: a handler ends whatever the consumer does, the trades of
  an exchange keep their order, those of an instrument meet in one builder;
- *configuration*: what is given is what is read.

`PROJECT.json` lists the hazards of the code line by line, with the properties
aimed at each.

## 2. Modules

| Module | Models | Notes |
|---|---|---|
| `BoundedQueue` | what the queue promises | abstract: reserve, commit, deliver |
| `MPSCQueue` | the ring buffer | one step per shared access; refines `BoundedQueue` |
| `MCMPSCQueue` | | symmetry of producers; producers that push without end |
| `DataLemmas` | | facts on remainders, induction, folds and sums, proved |
| `MPSCQueue_proofs` | | its safety properties, and that it implements `BoundedQueue`, proved |
| `WebSocketSession` | a session | instantiated by `BaseProvider`, which has the `io_context` |
| `BaseProvider` | owner and worker of a provider | one step per access to shared state |
| `MCBaseProvider` | | symmetry of session objects |
| `BaseProvider_proofs` | | its types, and what the owner may rely on, proved |
| `HashIDManager`, `HashIDManager_proofs` | the duplicate filter | |
| `ExchangeConverter` | the enumerations and their names | operators used by `SpotParsers` and `CandleManager` |
| `SpotParsers` | outcomes of the two parsers | operators used by `CandleManager` |
| `CandleManager`, `MCCandleManager`, `CandleManager_proofs` | the candle library | the MC module has the messages |
| `ConsolidateCandleManager` | consumer, owner and pipe | the pipe is a `BoundedQueue` |
| `ConsolidateCandleManager_proofs` | | its invariants and the refinement, proved |
| `ExchangeProvider` | what the three providers ask for, and what they make of a message | operators, and the feed as an external assumption |
| `Pipeline` | the three providers over the pipe of `ConsolidateCandleManager` | EXTENDS both |
| `MCPipeline` | | the configuration and the messages |
| `Pipeline_proofs` | | the pipeline implements the consumer; order, ownership, names |
| `ServerConfig`, `MCServerConfig`, `ServerConfig_proofs` | the command line | an argument is read per step |

The chain from the ring buffer to the candles: `MPSCQueue` implements
`BoundedQueue` (checked and proved); the pipe of `ConsolidateCandleManager` is a
`BoundedQueue` (checked and proved); `Pipeline` puts the providers in the place
of its unconstrained pushes (checked and proved).

### MPSCQueue

`pc[p]` is the place of producer `p` in `push_impl`, `pos[p]` its local `pos`,
`cpc` the place of the consumer in `Pop`. `LoadEnqueuePos`, `LoadSequence`,
`ClaimSlot`/`ClaimFails` (the two results of `compare_exchange_weak`, which may
fail spuriously), `WriteData` and `Publish` are the accesses of `push_impl`;
`PopLoadSequence`, `MoveData`, `ReleaseCell`, `AdvanceDequeuePos` those of
`Pop`. `claimed` and `popped` are history.

Memory order: with `StaleReads` a load of `enqueuePos` or of a `sequence`
returns any value the location has held. That is more than the relaxed and
acquire loads can return, so a safety property that holds holds on weakly
ordered machines too. The plain access to `data` is exact: a thread reaches it
only after an acquire load of the sequence value that the release store before
it wrote, and `ExclusiveCell` shows there is no concurrent access. CAS is a
read-modify-write and compares the latest value. Runs about liveness or about
when the queue is full use exact loads: with stale ones a producer may spuriously
see a full queue, which the code does not exclude.

Pushes without end: `MaxPushes` bounds the pushes of `Spec`, and a bound would make
every competitor of a producer stop some time. `EndlessSpec` of `MCMPSCQueue` lets
producers call again (`CallAgain`), and once the ring has gone round twice
`CountAnew` counts all positions from one round later. That is sound because the
code only uses differences of positions and their remainders by `Capacity`: a
position a slow producer kept from earlier rounds is left in its slot, behind every
sequence of the slot as before. There the other producers may claim for ever between
the loads of one and its CAS, and a `Push` need not return: the form of `PushReturns`
without its first disjunct is violated. `push_impl` is lock-free, not wait-free.

### BaseProvider and WebSocketSession

`wpc` is the place of the worker in `Run`, `opc` that of the owner in `Start`,
`Stop` or the destructor; between two steps of one the other may run. A session
is its pending operation `op[s]` and its flag `stopped[s]`; `Chain` is the order
of the operations. The model of Boost.Asio: `run()` returns when stopped or out
of work, `stop()` leaves pending operations in place, `restart()` clears only the
stopped state. `stopped` is a plain `bool`, so until the join the worker may or
may not see the owner's store (`SeenStopped`). `ws_session` is read by the owner
without synchronisation: the object may be gone when `Stop` is called on it
(`fate = "use_after_free"`). Sessions are named objects that are reused when
nothing refers to them; three or four suffice, which was checked by making a
lack of one visible.

### HashIDManager

`InitBackUp` is the code's `Init`; `memset` gets a number of cells and clears
that many bytes (`Cleared`), so a cell may be left torn. `DivideByZero` is the
undefined outcome of `% 0`. `fresh`, `seen` and `verdict` are history.

### CandleManager and SpotParsers

A message says whether its header passes the `error()` tests and which shape its
items have; parsing returns no trades, the trades, or `Terminate`. A text that is
no number becomes any of `Leftovers`, since `ParseDouble` returns an
uninitialised variable; `Leftovers` are integers, and a NaN or an infinity left
there, on which `std::max` and `std::min` depend on the order of their arguments, is
outside `PricesExact` and `VolumesExact`. Bybit's instrument is what follows the topic's prefix.
`GetCandlesSnapshot` drops the keys of the map, so that the ids which
`ExchangeConverter` gives a candle are all a reader of the snapshot has.
`parser` is the one the manager was built with, chosen in
`Init`. Prices and quantities are integers and sums exact, so
rounding of `double` is not modelled. `HandleMessage` parses; its loop over the
trades is `pending`, one `HandleTrade` per step. The interval is assumed
positive; `ServerConfig::Validate` asks for it, the constructor does not.

### ConsolidateCandleManager

A push is `PushTrade`, which reserves the next place of the pipe, and
`PublishTrade`, after which the consumer may pop it; the pipe refuses when full,
and `NothingToPop` covers the head that is reserved but not published. A builder
holds the numbers of its trades; whether a trade completes the candle is
nondeterministic, since `CandleBuilder` is not in the repository. The two
assumptions on it are that `ProcessTrade` either adds the trade or returns the
completed candle and opens one with the trade, and that `GetCurrentCandle` leaves
the candle in place. The callback is taken to be set before `Start`: the code does
not protect `SetCandleCallback` against the worker.

### ExchangeProvider and Pipeline

A provider handles one message at a time on the thread of its session. `rest[e]`
is what is left of the loop over the items of the message, `reserved[e]` the trade
that is between its claim and its publish. `OnMessage` brings a message in;
`PushItem` and `PublishItem` are a push that succeeds, `RefuseItem` one that is told
the pipe is full (possible as soon as every cell has been used once: a cell that was
moved out and not released yet, or an outdated load, looks the same), `BreakOff` an exception in `stod`, `stoull` or `stoll`, caught
outside of the loop. A field that is missing leaves the trade's field unset and
the trade is pushed all the same. `source` is history.

OKX gets `doc["data"]` before it looks for `doc["arg"]`; both move the one cursor of
an on-demand document, and simdjson leaves open what the iteration then yields, so
`OKXItems` takes any of: the items, nothing, one item without fields.

Names: a symbol is a name in upper case, in lower case or with a hyphen. `Feed` is
the assumption on the exchanges: they serve what `GetSubscriptionMessage` asks for
if they know it in that form, and answer in their own. (Nothing sends the
subscription, see below.) An instrument configured in lower case is asked for
correctly of Binance only. `NamesAssumption` says there is a builder for each name
a trade may get; the code makes builders as names come in.

A session that drops and reconnects is, for the pipe, a provider that gets no
message for a while; its life cycle is in `BaseProvider` and is not repeated
here.

### ServerConfig

`argv` is the history of the arguments read, an argument its option and the text
behind the prefix; a number text is a sequence of digits and other characters, a
list text the parts between its commas. `Stoi` is the library function, which reads
the digits one after another and throws outside of `Ints`, `IntervalOf` and `PortOf` what the code passes to it, `Names` what `getline`
makes of a list (a last empty part yields nothing). An exception ends
`ParseFromArgs` in phase `threw`. The properties have a reading of their own: a number
is the sum of its digits times their weights (`Magnitude`), a list the names of all
uses of its option in the history.

## 3. Runs

Passing runs:

| Run | Properties | Bounds |
|---|---|---|
| `MPSCQueue_stale` | `IInv`, `FifoDelivery`, `ExclusiveCell`, `NeverOverfull`, `ImplementsBoundedQueue` | 3 producers, 2 pushes each, 2 cells: the ring wraps three times; overwritten values may be loaded |
| `MPSCQueue_fair` | `FullMeansFull`, `EmptyMeansEmpty`, `ClaimedIsDelivered`, `PushReturns` | `EndlessSpec`: 2 producers that push without end, 2 cells; exact loads |
| `BaseProvider_drop` | `TypeOK`, `TerminateExplained`, `QuietAfterStop`, `StopReturns`, `WorkerEnds`, `ReconnectsWithinBudget` | 3 sessions, 2 attempts, 2 starts; every connection is lost at some time |
| `HashIDManager_safe` | `TypeOK`, `RecentRemembered`, `MemoryBounded`, `NewAccepted` | 4 hashes, resets every 3, 3 calls of `Init` with rings of 0, 1, 2 and 9 cells, 7 new messages after the last: two resets |
| `CandleManager_safe` | `TypeOK`, `PricesExact`, `VolumesExact`, `WindowAligned`, `SnapshotIdentifies` | both parsers, 4 instruments (two known, one not, the empty name), 4 trades, broken items |
| `Pipeline_fair` | `TypeOK`, `NoTradeLost`, `CallbackNotConcurrent`, `NeverTerminates`, `ProcessedIsEmitted`, `CandlesInOrder`, `ReservedIsOwned`, `ExchangeOrderKept`, `Consolidated`, `StopEnds`, `PipeIsQueue`, `HandlersReturn`, `Delivered` | 3 exchanges, pipe of 2, 3 trades, 3 items received, 2 starts; messages of one trade, two trades, a trade and a broken one, foreign ones |
| `ServerConfig_safe` | `TypeOK`, `ListsAsGiven`, `PortAsGiven` | every command line of up to 3 arguments out of 10 number texts and 5 lists; the range of int is -99 .. 99 |

The bounds are small but reach the cases in question: a ring that wraps and
fills, an owner that stops and restarts at every step of the worker, a budget of
attempts that runs out, a memory that is reset twice, a ring that shrinks, grows
and is partly cleared (9 cells: `memset` clears nine bytes), a callback in
progress when Stop is called, three pushes into a pipe of two places, so that one
is refused or waits for the consumer while others are unpublished. Each property
of the table is broken by a mutant of the code under the same bounds
(`PROJECT.json`, "mutants"). `CHECK_DEADLOCK FALSE` is set where the modelled
program really ends: an owner that has used up its calls or destroyed the
object, a terminated process, a filter, a candle manager or a pipeline that gets
no more messages, a command line that has been read. The queue never stops: its consumer polls, so deadlock is checked
there.

Runs that end in a violation, each a disagreement between code and its text
(quoted in `PROJECT.json` under "findings"):

| Run | What TLC finds |
|---|---|
| `BaseProvider_lost_stop` | `ioc.stop()` just before `ioc.restart()` is lost; Stop may wait for ever |
| `BaseProvider_give_up` | after giving up the thread is joinable and Stop does nothing: `std::terminate` later |
| `BaseProvider_orphan` | a session of the run before delivers messages in the next |
| `CandleManager_noexcept` | a missing field terminates the process |
| `ServerConfig_interval` | `substr(15)` behind a prefix of 14 characters: `--interval_ms=7` throws |

Behaviour of the code that the models show and that no property claims
otherwise:

- `Capacity` 1 passes the `static_assert`, but there a published and a free cell
  have the same sequence and a full queue overwrites: `NeverOverfull` fails with
  `Capacity = 1`, which is why the proofs assume more;
- `Pop` returns nothing while published items wait behind a slot that is claimed
  but not published (`BoundedQueue` delivers only a committed head);
- after a reset the filter holds the ring and then up to `MAX_HASH_SIZE - 1` new
  hashes (the bound in `MemoryBounded`), and a hash older than the ring is
  accepted again;
- a candle never ends: trades of later intervals are added to the first one, and
  only its start is aligned (`WindowAligned`);
- Stop of the consumer leaves what is in the pipe for the next Start; the builders
  keep their candles, so Stop after a second Start may emit a candle again;
- reconnection attempts are counted over the whole life of a provider and never
  reset, so that drops over a long life end it (`WorkerEnds` depends on it);
- the back-off shift is in range only while `MAX_RECONNECT_ATTEMPTS` is below 65;
- `UpdateHash` before `Init`, or after `Init(0)`, takes a remainder by zero;
- the subscription message is built and never sent after the handshake;
- a trade with a missing field is pushed, with the empty name as its instrument or
  an uninitialised price;
- the trades before a broken item of a message are pushed, those behind it are not;
- `--exchanges=,` passes `Validate` with an empty name; `--interval_ms=-5` is read as
  5; `config.h:8` calls 5 ms "default 5 seconds"; nothing checks the port.

### Fairness

- Queue: weak fairness of each producer's call and of the polling consumer, as
  the scheduler runs every thread; strong fairness of a successful CAS, since a
  processor does not fail a weak CAS for ever. Nobody has to call `Push`, and nobody
  stops calling it: `PushReturns` holds *unless* others claim for ever, and
  `ClaimedIsDelivered` says that items are moved out for ever or all that were
  claimed have been. With `FifoDelivery` that is the delivery of each.
- Provider: weak fairness of both threads' code, and of the operations that have
  a timer (`WS_TIMER_RATE`, the handshake timeout). A name resolution and a read
  have none, so `FairSpec` lets them last for ever. `DropSpec` adds a network
  in which every connection is lost at some time; `StopReturns` holds there, and
  `BaseProvider_lost_stop` shows it fails without.
  The synchronous `ws.close` in Stop waits for the peer's close frame without a
  timer; the models take it to return, so `BaseProvider_lost_stop` is a way for Stop
  to wait for ever beside that one.
- Consumer and pipeline: weak fairness of the worker, of a call in progress, and
  of a handler in progress of each provider: all are threads that poll or run
  through, none waits for another except in `join`. No message has to come, and
  nobody has to call Start or Stop.

## 4. Proofs

**Queue** (`MPSCQueue_proofs`). From `CapacityAssumption`, and `Capacity > 1` for
all but the types: `TypeCorrect`, `InductiveInvariant`, `FifoCorrect`,
`NeverOverfullCorrect`, `DataRaceFree`, for any set of producers, any number of
pushes, exact or stale loads. `FifoDelivery` is not inductive: it needs that the
cells stand for the positions `Released .. Released + Capacity - 1`, that those
from `enqueuePos` on are free and the others hold the item of their claim once
published (`CellInv`); that a producer past its CAS owns its position alone
(`WriterInv`); and that what a producer read before its CAS can only be outdated
in one direction (`ClaimerInv`: a sequence only grows), so that a successful CAS
implies a free cell. `Capacity > 1` is used where `n + 1` and `n + Capacity` must
differ, and without it the theorem is false (section 3). The arithmetic of slots is in
`DataLemmas`. The proof uses that the capacity is positive, not that it is a power
of two: the mask of the code is modelled as a remainder, and
`PowerOfTwoAssumption` says when the two agree.

`FullCorrect` is about exact loads (`StaleReads = FALSE`), as `FullMeansFull` is: a
position a producer looks at may have been overtaken, by a whole round and more, but
its cell then stands for a later position of the window and is never behind it
(`NotBehind`), unless every cell is in use.

`OwnedCorrect` (`EveryClaimOwned`): a cell that looks free at a claimed position has a
producer that is writing it (`OwnersStay`: a writer keeps its position until it publishes). With exact
loads this is what `EmptyCorrect`, an action property, needs: Pop finds nothing only if
nothing is claimed or the head is still being written. A stale load may miss a published
item, as it may miss a free cell.

`QueueImplements`: the abstract queue is the claimed items
that have not been moved out, ready where the cell's sequence says so. `ClaimSlot` is
`Reserve`, `Publish` is `Commit`, `MoveData` is `Deliver`; the other steps are not seen,
`ReleaseCell` included, which writes a sequence, but of no waiting position
(`ReleaseUnseen`). It rests on `IInv`, and holds with stale loads as well.

**Provider** (`BaseProvider_proofs`), from `ProviderAssumption`: `ProviderTypes`,
`TerminateCorrect` and `QuietCorrect`. None is inductive. `ThreadOwned` says when there
may be a worker: with `running` reset it is on its way out, the owner waits for it, or
it gave up; `std::terminate` in `SpawnWorker` or in the destruction of the members
needs a thread that nobody joined, and only giving up leaves one. The same invariant
says where the worker is once `Stop` has returned, which is not in `ioc.run()`, so
that no callback starts. `AttemptsCounted` bounds the count by the calls of `Start`:
each lets the worker pass the limit once.

**Hash filter** (`HashIDManager_proofs`): `HashTypes`, `RecentCorrect`,
`MemoryCorrect` and `NewCorrect`, from `HashAssumption`. A reset keeps what the ring holds, so the invariant adds
`RingHolds`: the i-th new hash is in the cell found by counting back from
`backUpIndex`. The index after a smaller second `Init` may exceed the ring; the
argument only needs it modulo the size. `MemoryCorrect` counts: the memory has no more
hashes than `counter` and the ring together, and a ring no more than cells.
`NewCorrect` needs that what a reset copies has all been passed before: a round has at
least as many messages as the ring has cells, so each cell has been written
(`RingCovered`), and none of the zeros of `resize` is left to pass for a message.

**Candles** (`CandleManager_proofs`): `CandleTypes`, `PricesCorrect`, `VolumesCorrect`,
`WindowCorrect`, from `CandleAssumption`. Types, prices and window are inductive
together; the volumes are inductive beside them, since a sum over the trades of an instrument
grows by the share of the trade handled and those of the others stay (the facts on
sums are in `DataLemmas`).
`UpdateCandle` compares high and low only if the price has changed; this is right
because the last price is that of a trade and so within them.

`SnapshotCorrect` adds that the ids of a candle name its instrument and exchange
(`LabelledInvariant`), and that ids and names are one-to-one where they are known
(`NamesRoundTrip`).

**Consumer** (`ConsolidateCandleManager_proofs`), from `ManagerAssumption`:

- `ManagerTypes`, `NeverTerminatesCorrect` and `CallbackCorrect` rest on `Threads`,
  which says for each place of the owner whether there is a thread and what the
  flag is: between two calls `running` and `joinable` agree, during a join there is
  a thread, while Stop emits there is none. Types need it as well: `JoinWorker`
  finds no trade in hand only because the thread has ended.
- `NoTradeLostCorrect` by `Numbered`: the trade in each place of `processed`, in
  hand and in the pipe has the number that counting gives it.
- `EmittedCorrect` by `Kept`: a processed trade is in the builder of its instrument
  or in an emitted candle, and while Stop emits, a builder it has passed holds
  nothing that is not emitted.
- `InOrderCorrect` by `Sorted`: a builder holds trades in order, none newer than the last
  processed, and continues every candle emitted for its instrument. A trade joins its
  builder or opens a candle behind all there were; it needs `Numbered`, by which the
  trade in hand is newer than those processed.
- `PipeCorrect`: the refinement. `PushTrade` is `Reserve`, `PublishTrade` is `Commit`,
  `PopTrade` is `Deliver` if it finds a trade, and every other step, `ProcessTrade`
  included, leaves the queue and `processed \o InFlight` as they are.

**Pipeline** (`Pipeline_proofs`), from these and `MessagesAssumption` and
`NamesAssumption`:

- `PipelineIsManager`: `PipelineSpec => Spec`, so the consumer's theorems hold in
  the pipeline (`ConsumerInPipeline`). The step that needs an argument is a push:
  what any of the three providers makes of an item of its feed has a builder
  (`InstrumentHasBuilder`).
- `OrderCorrect`: waiting items are numbered without a gap up to the last one
  received (`Serials`), and every trade pushed came before them, in growing order
  (`Sources`); with `Numbered` that is the order of processing.
- `ReservedCorrect` by `Owned`, an invariant of its own because publishing one
  place must leave the places of the other providers theirs: two providers never
  have the same number, since the source of a number is one exchange.
- `ConsolidatedCorrect` by `Matched`: a trade has the name of its item in upper
  case, wherever it is.

**Configuration** (`ServerConfig_proofs`), from `ConfigAssumption`: `ConfigTypes`,
`OnlyInterval`, `ListsCorrect` and `PortCorrect`.

- `OnlyInterval` by `Judged`: once parsing is over no list is empty, so that Validate
  objects to nothing but the interval.
- `ListsCorrect` by `ListsRead`: a list is the non-empty names given so far, and what is
  appended by an option is what the history gains; flattening and filtering are folds
  that distribute over an appended element (`TextsAppend`, `NonEmptyConcat`).
- `PortCorrect` by `PortRead`. The step needs that `stoi`, which multiplies by ten and adds
  as it goes, yields the sum of the digits times their weights (`ValueMagnitude`): the
  weights of a text exist (`WeightsExist`) and those of a longer text are ten times those of its
  front.

Induction. The library's induction theorems take operators and cannot be used, so
`DataLemmas` proves induction for *sets*: a set of naturals that has 0 and the successor
of each of its elements has them all, because its complement has no least element. An
argument by induction then defines the set of the numbers for which it holds. The
folds of the community modules are recursive functions; their existence and their value
at an added element are derived once, in `DataLemmas`.

Only model-checked: liveness, which TLAPS cannot prove (fairness, `ENABLED`):
`ClaimedIsDelivered`, `PushReturns`, `StopReturns`, `WorkerEnds`,
`ReconnectsWithinBudget`, `StopEnds`, `HandlersReturn`, `Delivered`. Every
invariant, every action property and every refinement of a passing run has its theorem.

## 5. Not modelled, and the plan

Not modelled:

- `root_certificates.hpp`: 3951 of the 5673 lines of the implementation are the text
  of certificates, loaded once by a constructor. There is no behaviour in them to
  model, so the share of lines that the map covers stays low; of the other 1700
  lines it covers about 60 %, of the `.cpp` files about nine lines in ten;
- JSON text and number formats, TLS, log output, the clock, trade ids and the
  times that reach no candle, the copy of `interval_ms` in a candle, hosts, ports
  and paths;
- `OnClose` (never registered), `ToExchange` and `ReadNextJsonObject` (no caller in
  the program; the latter serves tests), `UnsubscriptionMessage` (declared only);
- wrap-around of 64-bit positions, and the length of the back-off;
- what no repository text fixes: an empty pipe manager (`PushTrade` then does
  nothing), more than one owner thread.

Done: queue, provider with session, hash filter, candles with snapshot, consumer,
the three exchange providers, the pipeline, the configuration; the proofs of
section 4. Left, in this order:

1. an abstract duplicate filter (what must be rejected, what must be accepted, what is
   left open) that `HashIDManager` implements, and the proof, in the place of two
   separate invariants;
2. an abstract life cycle of a provider, which `BaseProvider` implements up to the
   findings of section 3;
3. several connections that share one `HashIDManager`, which has no lock; nothing in
   the repository creates one, so how they would share it is not fixed by the code;
4. a view-based model of acquire and release for the queue, in the place of the
   coarser `StaleReads`.
