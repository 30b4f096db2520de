# GreeksCache in TLA+

Models, model-checking runs and proofs for GreeksCache: a C++ core that prices
option greeks on every market tick and publishes them to Redis, and a FastAPI
service that stores positions, tells the core which contracts to price, and
serves the rows. Every definition follows the source; `PROJECT.json` maps each
to its lines.

    tlc -workers 2 -config MCMailbox.cfg MCMailbox.tla      a run
    tlapm PublishPathProofs.tla                             a proof

Paths below are relative to `src/`.

## Inventory

| Component | State | Operations | Talks to |
|---|---|---|---|
| Market mailbox (`core/ingest/mailbox`) | two slots, index, sequence number | `publish`, `try_read`, `read_if_updated` | shared by a feed thread and the compute thread, no lock |
| Market simulator (`core/ingest/gbm_sim`) | the random walk | `run` | publishes in a mailbox |
| Universe registry (`core/registry`) | symbols, expiries, contracts, one retirement queue per symbol, pointers to expiry metas | `add_contracts`, `flush_user_changes`, `find_expired_slices` | owned by the orchestrator, compute thread only |
| State orchestrator (`core/orchestrator`) | queue of opened contracts (1024), per-symbol states | `initialize_state`, `enqueue_contract`, `flush_changes`, `process_tick` | called from the gRPC threads (enqueue) and the compute thread (the rest); hands jobs to the publisher |
| Expiry batches and symbol state (`core/state`) | strikes, payoffs, ranges, scratch, double-buffered greeks, sequence number | `append_new_contract`, `process_tick`, `swap_buffers`, `retire_expiry_slice` | written by the compute thread, read through pointers by the publisher thread |
| Pricing engine (`core/engine`) | none that survives a call | `evaluate` | called per batch and tick |
| Redis publisher (`core/publish`) | job queue (512), latest sequence number per slice, pipeline | `enqueue_job`, `run`, `publish_batch` | compute thread to publisher thread; Redis |
| gRPC server (`core/rpc`) | none | `enqueue_contracts` (a stream), `core_alive` | API to orchestrator |
| Runtime (`core/runtime`) | time of the last flush | the loops of the compute, publisher, feed, reader and server threads | starts everything |
| Time (`core/common/utils`) | the TZ variable of the process, two mutexes | `parse_time`, `ns_to_iso8601_ny` | compute thread, publisher thread |
| API, positions (`api/routes/positions.py`) | per request: pipeline, new contracts, failed orders; in Redis: the hash `positions` | `POST /positions`, `GET /positions` | Redis, awaited; the core over gRPC, not awaited |
| API, read routes (`greeks.py`, `contracts.py`, `surface.py`) | per request: cursor, page, list | scans and reads of rows | Redis |
| API process (`main.py`, `redis_pool.py`, `health.py`) | pool, heartbeat status | start, stop, health | Redis, core |

What is hard here, and what makes each part correct:

* **Mailbox.** The reader copies a slot while the feed may overwrite it; the
  check of the index suffers from ABA after two publishes, and after three
  failed attempts the reader takes an unverified copy. A new reader must be
  sent to a whole tick, a mixed sample must need a feed that laps the copy,
  data must not go back in time, and a published tick must be acknowledged
  in the end.
* **Registry and orchestrator.** Contracts arrive in any order relative to
  boot, flushes and retirements; a flush places contracts one at a time, and
  the placing of one may rebuild the batch another was just added to. Every
  batch must hold exactly its slice, and `has_headroom`, which answers anything,
  is all that keeps it within its arrays; slices must be served until they
  retire; a contract that was queued must get a slot.
* **The loop of the compute thread.** Two feeds, one of which goes first; a
  flush before each tick, and one by a timer. No tick may be needed for a
  contract to be placed, no contract that waits may miss the tick it waited
  for, no batch may be priced far past its expiry, no feed may be starved by
  those polled after it.
* **Batches.** Contracts take slots between two ticks; results, scratch and
  signs of the slots are written at different moments; the range may grow past
  the arrays. What is shown must be of one tick and of the contract in the slot.
* **Publish path.** Jobs copy greeks but point to the strikes, payoffs and
  ranges of a batch that later flushes extend, replace or destroy while the job
  waits; jobs are dropped when the queue is full; a pipeline may be partly
  applied; rows expire; the sequence number starts uninitialised and wraps.
  Rows must not go back, must show the numbers of their own contract, and must
  show the last tick once things settle.
* **Queues.** Lock-free rings for one producer and one consumer, one of which
  has as many producers as there are gRPC streams. What is accepted must come
  out, once and in order.
* **Time zone.** Two functions change the environment of the process under two
  mutexes. A conversion must be in New York.
* **Positions.** Requests interleave at every `await`; the size that was
  checked may be stale when the pipeline executes; the position is stored
  before the core is told, and the core forgets everything when it restarts.
  Units must add up, and the contract of every open position must be priced or
  be accounted for.
* **Reads.** Rows come and go between the pages of a scan and between scan and
  read. A reply must hold what was there, not be older than the one before, and
  a portfolio must be whole.

The full list of hazards, each at its line with the properties that cover it, is
`hazards` in `PROJECT.json`.

## Modules

| Module | What it is |
|---|---|
| `TickFeed` | abstract specification of a mailbox: whole ticks go out in order, the newest is on offer |
| `Mailbox` | `mailbox.cpp`, one action per shared access; implements `TickFeed` |
| `Orchestrator` | registry, queue of opened contracts, boot, flush, batches |
| `ComputeLoop` | the loop of the compute thread around `Orchestrator`, which it extends and implements, fairness included |
| `PricedSlice` | abstract specification of a batch: a list of contracts and the results of one tick |
| `ExpiryBatch` | `expiry_state.cpp` and `bs_engine.cpp`, the arrays of a batch; implements `PricedSlice` |
| `PublishPath` | batches in memory, ticks, job queue, publisher, Redis rows |
| `Fifo` | abstract specification of a queue between two threads |
| `SpscQueue` | the two lock-free queues and their callers; implements `Fifo` while producers take turns |
| `TimeZone` | the conversions through TZ |
| `Positions` | `POST /positions`, the stream to the core, crashes and restarts |
| `Reads` | the `GET` routes against rows that come and go |
| `MailboxProofs`, `OrchestratorProofs`, `PublishPathProofs`, `ExpiryBatchProofs`, `SpscQueueProofs`, `TimeZoneProofs`, `PositionsProofs`, `ReadsProofs` | inductive invariants and theorems; those of `ComputeLoop` are at the end of `OrchestratorProofs` |
| `MC...` | constants for TLC |

Definitions with the comment *mutant* are deliberately wrong variants of the
definition below them; no specification uses them. They show that each property
depends on the code it is about.

How the modules fit together: `ComputeLoop` takes a mailbox to be what `TickFeed`
says (which `Mailbox` implements) and has the steps of `Orchestrator` inside;
`PublishPath` takes a tick of a batch to be one step (which `ExpiryBatch` shows by
implementing `PricedSlice`), and it, `Orchestrator` and `Positions` take a queue to
be a sequence (which `SpscQueue` shows by implementing `Fifo`). `Reads` sees of
`PublishPath` that rows are written with growing sequence numbers and expire.

### Mailbox

`slots`, `idx`, `seq` are `slots_`, `idx_`, `seq_` of `MarketMailbox`. The writer
(`publish`) chooses the slot the index does not name (`BeginPublish`), writes it
word by word in any order (`WriteWord`), stores the index (`StoreIndex`) and
counts the tick (`CountTick`). The reader (`read_if_updated`) compares
sequence numbers (`Poll`), then up to `Attempts` = 3 times loads the index, copies
the slot word by word and loads the index again (`LoadIndex`, `ReadWord`,
`Accept` or `Retry`); after the third failure it takes what it has (`GiveUp`).
Each of these is one interleaving point, so every mixture of old and new words
that the accesses allow is a behaviour.

### Orchestrator

`reg` is the registry: `expiries` (`id_to_expiry_`), `contracts`
(`id_to_contract_`) and `queue` (`expiry_queues_`), per symbol. `batches` holds
per slice the contracts in its slots, `room` how many empty slots each batch has
left. `pc` says where the compute thread
is in `flush_changes`: after `Retire` it pops the queue one contract at a time
(`PopContract`), then places each (`CreateBatch`, `RecreateBatch`,
`SkipContract`, `AppendContract`, `AppendPastEnds`); `Enqueue` and `Advance` (the clock) interleave with all of
them. Undefined behaviour is a choice over its outcomes: `has_headroom` past the
last range answers anything, so a full batch may be appended to: its range leaves its
arrays (`room` becomes negative), the contract takes no slot, and the process may end
by the write (`StrayWrite`) until the batch is rebuilt; a retirement through a stale pointer into
`expiry_metas_` hits any slice of the symbol, or none; `top()` of a queue just
emptied finds the value just popped and the loop does not end (`HangInRetire`,
until `OutOfMemory`). An expiry that does not parse ends the process
(`DieOnMalformed`). A strike has two keys, one for the lookup (a double) and one
for the store (a float); the two differ for some strikes.

### ComputeLoop

`loop` says where the compute thread is in its loop: it polls (`ReadTick(n)` only
if no earlier feed has a tick, `Sleep` if none has), flushes (`Flush`, then the
steps of `Orchestrator` as `Flushing`), prices (`ProcessTick`) and looks at the
timer (`Timer`). `elapsed` is the steady clock since `last_flush`, `now` the system
clock, `asOf` the time in the newest tick of each feed: it may lag behind `now`,
since a simulator adds `dt` and then sleeps for at least `dt`. `PricedByTick` is what a
tick prices: the slots of every batch of its own symbol, and nothing of another.

### ExpiryBatch

`slots`, `mask`, `d`, `buffers` and `write` are `strikes_`/`payoff_types_`,
`vanilla_type_mask_`, `d1_`/`d2_`, the six `DoubleBuffer`s and their
`write_index`; `used` is the end of the one range that vanilla payoffs make. A number is
represented by what it was computed from: scratch by a strike and a tick, a result
by strike, sign, scratch and tick. `Meaning` says which contract and which tick a result is of,
provided all its parts agree. `HasHeadroom` is the comparison of the code with what
it reads past the vector of ranges, any of `PastVector`. `AppendContract` grows the
range first and then writes the slot, if there is one: `used` may leave the arrays.
`prepare_tick` stops at their end (`Filled`), `evaluate_vanilla` does not
(`RangeEnd`). An access past them reaches no array of the batch, or ends the
process (`Stray`); `Build` starts again from new arrays.

### PublishPath

One symbol. `heap` holds every batch ever built, live or freed; `cur` says which
one a slice uses. A flush retires (`RetireSlice`, through a stale pointer possibly of
another slice; `RetireNothing` if there is no batch), but never the last expiry that waits:
on that `find_expired_slices` hangs, which `Orchestrator` has. It registers (`Register`),
a strike with two keys (`TwoKeyed`) as often as it is ordered, and then places each
registration: `BuildBatch` of everything registered, `SkipContract`, or append in the two
steps of the code (`BeginAppend`: the range grows; `EndAppend`: the slot is filled), which
without an empty slot is `AppendPastEnd`, followed at any time by `StrayWrite`. So a contract
may get a second slot; `again` remembers which did since the last tick. `ProcessTick`
and `EnqueueJob` are the tick, one job per batch. `PopJob`, `QueueRow`, `Exec` are
the publisher, which reads the slots through the pointer at each row;
`QueueFreedRow` is what it may do when the batch was freed: end the process, or
write a row for an arbitrary slot. `HmsetThrows` is an exception outside the try
block, which ends the process. `Exec` applies any prefix of the pipeline.
`Expire` removes a row. The result of pricing a contract is represented by the
slice and contract it belongs to.

### SpscQueue

`write_available` is a step of its own (`Offer`), then `push` loads the index
(`Load`, or `PushFails`), writes the slot and stores the index; `pop` likewise. The
result of `push` is dropped, so `PushFails` answers "accepted". The ring is
`boost::lockfree::spsc_queue`, modelled from its documented algorithm; the
callers are the code's.

### TimeZone

`tz` is the variable, `zone` what the C library converts with, `saved` the
`old_tz_val` of each call. Each `getenv`, `setenv`, `tzset` and conversion is a step;
`mktime` begins with a `tzset` of its own (`Reapply`), `localtime_r` does not. The
mutex of a function is the guard of `Call`.

### Positions

Per request, the loop over its orders with the `await` of `HGET` (`Begin`,
`Answer`, `Decide`), the transaction (`Execute`), and the stream (`OpenStream`,
`ReadContract`, `CloseStream`), each await with its failure. The stream is a
blocking call in the event loop, so while it lasts only the core and Redis
move. The API may crash at any point, the core may restart. `thread` is the core's
compute thread: it tracks what was queued (`Track`), dies of an expiry that does not
parse (`Throw`), or hangs in a retirement (`Hang`), perhaps until it dies of that
(`HangEnds`); while it hangs, the threads of the gRPC server go on accepting contracts.
`dropped` is a history variable: contracts that the core was not told of, refused, or has
forgotten.

### Reads

One request after another, since reads do not disturb each other. `BeginScan` and
`ReturnPage` are a scan with the guarantee Redis gives: what is there from beginning to end is
returned at least once, anything else may be, and pages may be empty. `ScanRows` and `Fetch` alternate
in `find_greeks` (each is an `await`), `ScanKeys` is `find_contracts`, `ScanUnits`
is `get_position_sizes`. `Write`, `Expire` and `OpenPosition` interleave with all of them.

## Runs

Bounds are in the cfg files. Bounded are: ticks, orders, time, batches ever
built, items, writes, pages, restarts. `CHECK_DEADLOCK FALSE` is there because a
bounded feed, user or client stops.

| Run | Checks | Bounds, and why they are enough |
|---|---|---|
| `mailbox` | types, `IndexedSlotIsWhole`, `TickSkippedOnlyInBurst`, `TornOnlyIfLapped`, `NeverBackInTime`, `ImplementsTickFeed`, `EveryTickAcknowledged` | 7 ticks of 2 words: three failed attempts need up to 5 ticks in one call, and two more make the last sequence number run ahead of the data; two words are enough to mix |
| `orchestrator` | types, `BatchHoldsItsSlice`, `AtMostTwice`, `RegisteredOnce`, `ServedUntilRetired`, `DroppedOnlyAfterGrace`, `OpenedIsPlaced` | 3 seeds and 3 orders out of six kinds (new strikes of two slices, one strike with two keys and one that is taken for it, new expiry, new symbol, malformed), each possibly repeated, over 3 symbols, so a third expiry moves the metas and retirements fall before, during and after flushes; headroom of 2 (5 in the code), so that three orders fill a batch and overrun it |
| `compute_loop` | `WrapsOnlyInGrace`, `WaitingIsPriced`, `ImplementsOrchestrator`, `StarvedOnlyByEarlier` | 2 feeds, 2 orders that open expiries, one seed that retires and one that stays, time up to 2 with a grace of 1: ticks before, in and after the grace of a slice |
| `expiry_batch` | types, `UnpricedShowsZeros`, `ImplementsPricedSlice` | lists of one or two contracts, headroom of 2 (5 in the code: nothing depends on the number, and the proof is for any), any of three values read past the vector, the largest of which lets the range leave the arrays by two, 3 ticks, so both buffers are reused and a batch is extended, overrun and rebuilt in between |
| `publish` | types, `RowShowsItsContract`, `LastTickIsShown`, `RowsNeverGoBack` | two slices, one with two contracts, one of which has two keys, 3 registrations, headroom of 1, 2 ticks, a queue of 2, 3 batches, a counter modulo 3 that starts at 0 or 1: drops, rebuilds, appends, overruns, second slots, frees and wrap-around all happen, and the slices compete for the queue |
| `spsc_queue` | types, `NoSlotShared`, `ImplementsFifo` | 2 producers, a queue of 2 in a ring of 3, 5 items: the indices wrap around, the ring fills and empties |
| `time_zone` | `WrongOnlyIfOverlapped`, `LeakIsHarmless` | the two threads of the core, unboundedly many calls |
| `positions` | types, `NoPositionForgotten`, `UnitsAreAddedUp`, `CheckedSalesAreCovered`, `TrackedOrDropped` | three requests of two orders that open, add to and sell the same position, one with an empty expiry, of which the core dies, one with a type that it refuses; a core queue of 1, a compute thread that may hang, one restart |
| `reads` | types, `NothingMissed`, `PortfolioIsWhole`, `FailsOnlyForCause`, `MonotonicReads` | 2 contracts asked for together or one of them, 3 writes, scans of up to 3 pages: a row can expire and come back during a scan, a page can be empty, a key can come twice |

What these show, in words:

* A verified sample mixes ticks only if the feed published twice during the copy; not
  even the unverified sample taken after three failed attempts makes a word go
  back in time; the sequence number names a tick newer than the data only after a burst of four
  ticks within a single call; and every tick is acknowledged in the end by a reader that
  goes on polling, as the compute thread does for the mailbox it polls first.
* However contracts arrive, a batch holds
  exactly the contracts of its slice between flushes, each at most twice; unless
  `has_headroom` said yes of a full batch, when it holds nothing else but lacks what was
  written past its arrays, until it is rebuilt; slices
  awaiting retirement have batches, and those retired do not, unless a contract
  was opened in them later (such a slice is never retired again). An order in the queue is
  eventually given a slot, unless its slice retires, its batch overran or the compute thread
  stops flushing; under the key of its own strike, or under that of another strike that the
  registry takes it for. Whether the slot is priced depends on the ticks of its symbol: the
  runtime has mailboxes for AAPL and GOOGL, and a contract of any other symbol is placed and
  never priced.
* The loop flushes for ever, whether the feeds tick or fall silent; a contract of the tick's
  symbol that waits when the tick is read is among those the tick prices (unless retired, hit
  by a stale pointer or written past a batch); a batch is not priced past its grace
  period, except what a stale pointer left behind or was opened too late (so `expiry - as_of`,
  which is unsigned, wraps around within the grace period and in those cases); the first feed
  is never starved, and a later one only while an earlier one goes on publishing. The second
  may be: when every flush and tick lasts as long as the feeds' pause, the first feed has a new
  tick at each poll.
* What a batch shows is of a single tick, each number computed from the strike,
  sign and scratch of the contract in its slot; slots not yet priced show zeros. An overrun
  disturbs none of that in the slots within the arrays; what it wrote past them is not shown.
* A row never goes back to an older tick: `latest_seqno_` only grows, and a
  counter that wraps stops publishing rather than going back. Rows hold the
  numbers of their own contract or zeros (the range is read after an append,
  the greeks were copied before it).
* As long as producers take turns the queues lose and repeat nothing, and no slot
  is written while it is read. With two streams at once neither holds.
* A conversion is in the wrong zone only while the other function overlaps it. An
  overlap may leave New York in the environment for good, which does no harm.
* Once nothing is pending, each row that has not expired shows the last tick. The causes that
  keep it from that are all named: the slice's last job was dropped or failed, the counter
  wrapped around, two slices share a date, a freed batch was read, or a flush since the tick
  gave the contract a second slot, whose zeros come last under the same key.
* No open position is lost silently: its contract is with the core or on its
  way, or was dropped for one of the causes that `dropped` names; and it gets to the core in
  the end, unless the compute thread hangs for good or a stream never ends. Units add up
  across requests that began when the position was open. A sale that was checked is covered
  unless another request changed the position in between, or the request has
  two orders for the contract: the check of each sees the units before both, so a
  request may sell twice what is there.
* A reply holds every row that was there throughout the request and never an
  older one than the reply before; a portfolio that is answered is whole unless a
  scan returned a key twice; a request fails only because a row expired under it,
  Redis failed, or rows and positions differed at some moment.

Runs that must end in a violation, each with a finding in `PROJECT.json`:

| Run | What the code says | What it does |
|---|---|---|
| `orchestrator_hang` | "Flush changes every 5 seconds" | retiring the last expiry of a symbol never returns; no order is malformed and no batch overruns here, so nothing else stops the thread |
| `publish_freed` | asserts on the batch a job points to | the batch may be freed before the job is published: one of two slices retires behind its job |
| `positions_untracked` | the API "serves Option Greeks of entire portfolios" | a stream that fails leaves the contract untracked, and the order sent again does not send it again, although the core is well and every stream ends |

Further divergences seen while modelling, which the models contain and no run
singles out:

* The second contract of a new slice in one flush is collected by the new batch
  and appended to it again: `processed_batches`, there "to avoid duplicate
  processing" (`state_orchestrator.cpp:163`), is asked only when a new batch is
  needed (`AtMostTwice` states what is left).
* `has_headroom` compares the index with `size()`, where the last range has index
  `size() - 1`: for the only range it reads past the vector. On a wrong yes
  `append_new_contract` writes past the arrays of a full batch, and the contract is registered
  and not priced (`BatchHoldsItsSlice` and `OpenedIsPlaced` except such batches).
* Rows are keyed by the date of an expiry: two expiries on one day overwrite each
  other's rows (`LastTickIsShown` excepts them, `RowsNeverGoBackThm` assumes
  there are none).
* `utils.cpp:23` and `:95` ask for a mutex "to protect TZ manipulation"; there are two,
  one per function.
* `grpc_server.cpp:47` reports contracts that were not queued; with two streams
  at once one that was refused may be reported as queued.
* `GET /positions` compares two lengths: if a scan returns one key twice and a position
  has no row, the lengths agree, and the reply lists one position twice and omits another.
* A row of zeros for a contract appended behind its job; if the contract had a slot before
  (a strike with two keys, or one that a rebuild had collected), these zeros replace its greeks
  until the next tick (`LastTickIsShown` excepts it by `again`).
* An order with an empty field is listed as failed and processed all the same (no
  `continue` at `positions.py:75`).
* `positions_changed` is always 0, because it counts results that are `True` and
  Redis answers integers.
* A strike such as 1.06 is stored under a key other than the one looked up, so
  each order of it registers one more contract (`RegisteredOnce` states the exception).
  The key it is looked up by may be that of another strike, for which it is then taken:
  1.06 is looked up as 10600, stored as 10599, and not registered at all if 1.0600001
  is there, which is stored as 10600 (`InBatch` says "one of the two keys").
* `g_ready` is a plain `bool` shared by two threads; `calibration_version_` is never set.

## Fairness

* `Mailbox`: weak fairness of the reader (its thread polls in a loop) and of a
  publish under way. The feed need not start another publish.
  Since the compute thread polls the second mailbox only when the first has nothing new,
  this is justified for the mailbox polled first; for the other one see
  `StarvedOnlyByEarlier`.
* `Orchestrator`: weak fairness of the compute thread, which flushes on every tick
  and at least every 5 seconds, and of the clock. No user has to open a
  contract. `OpenedIsPlaced` excepts a thread that hangs or has died. That
  the compute thread does flush again and again is not only assumed:
* `ComputeLoop`: weak fairness of the loop (the thread is scheduled) and of the two
  clocks, nothing of the feeds; `ImplementsOrchestrator` shows that the fairness of
  `Orchestrator` follows.
* `Positions`: weak fairness of each handler that has begun, up to its stream, and of the
  core's flush while its compute thread is up (`Track` or `Throw`). A hang need not end, a core
  that died need not be restarted, no client has to send. The gRPC call has no deadline, so
  nothing is assumed of a stream either: `TrackedOrDropped` excepts a stream that never ends
  and a thread that hangs for good. Only `PromptSpec`, under which `positions_untracked` finds
  its violation, has streams that end: a counterexample in which one simply hangs would say
  nothing about the order sent again.

`PublishPath`, `ExpiryBatch`, `SpscQueue` and `Reads` have safety properties only:
nothing obliges a feed to tick, a stream to send or a client to ask.
`LeakIsHarmless` is a safety property as well.

## Proofs

Checked by TLAPS for every value of the constants, under the named assumptions
of the modules (sizes are positive, bounds are naturals, and those named below).

**MailboxProofs.** The type invariant is not enough for any of the others, so
`Inv` joins it with `WriterInv` (`seq` counts the ticks completely published,
the slot being written is not the one `idx` names, and that one holds the whole
tick `Indexed`), `CallInv` (each failed attempt saw the index move), `CopyInv`
(what has been copied lies between the tick indexed when the attempt began and
what the slot holds now, and is not older than what was delivered before)
and `SampleInv` (what a finished call leaves behind). From it:
`TypeCorrect`, `IndexedSlotIsWholeThm`, `TornOnlyIfLappedThm`,
`TickSkippedOnlyInBurstThm`, `NeverBackInTimeThm`, and `Refinement`: initial
states of `Mailbox` map to those of `TickFeed`, and every step to a step or a
stutter. The proof holds for any set of words, so for any layout of
`MarketData`. `KeepsPaceThm` follows from it and from what `TickFeed` keeps by itself.

**OrchestratorProofs.** Assumed of the contracts: the seeds have expiries that parse,
those of orders parse or not, and every strike has a key. `Inv` joins
`TypeInv` (every expiry has its list of contracts, every meta that waits names a
contract) with `SliceInv` and `ServeInv`. `BatchHoldsItsSlice` and
`ServedUntilRetired` only hold between flushes; the two say what holds
inside one: a contract that a batch within its arrays still lacks has a meta that waits, a batch built in this
flush lacks nothing (so `SkipContract` may skip), and a slice that awaits
retirement without a batch has a meta that will build it. From it `TypeCorrect`, `BatchHoldsItsSliceThm`,
`ServedUntilRetiredThm` and `DroppedOnlyAfterGraceThm`. `RegisteredOnceThm`
takes `RegisteredOnce` itself as the invariant, since a contract is
registered only if its lookup key is not in the list. `AtMostTwiceThm` needs `TwiceInv`:
how often a batch holds a contract, plus how many of its metas wait, is at most
twice what is registered, and metas are distinct; an append trades one for the
other, a rebuild starts again from what is registered, a registration adds one
on each side.

The same module proves of `ComputeLoop`, for any feeds: `LoopIsAnOrchestrator`, every step of the
loop is one of `Orchestrator` or a stutter, so the theorems above hold of the loop as well; and
the two properties of its ticks. `LoopInv` joins `Inv` with `FeedsInv` (the
clock of a feed is behind the system's), `PlacesInv` (which places have a tick in hand),
`DistinctExpiries`, and one invariant for each. `WaitingInv` follows a contract that waited when the tick
was read: it is in the queue until the flush has popped it, and `Located` in the registry
from then on, under one of its two keys; at the tick `BatchHoldsItsSlice` and
`ServedUntilRetired` make that a slot of a batch of the tick's symbol, which is what the tick
prices (`WaitingIsPricedThm`). `GraceInv` says that what the
flush found and did not retire is in its grace period at the time of the tick, because that time was
behind the clock the flush compared with; new expiries are not among those found, and
none comes back to the retirement queue (`WrapsOnlyInGraceThm`).

**PublishPathProofs.** Assumed: a slot not yet written holds no contract, and every batch is
built with at least one empty slot. `IInv` joins
`TypeOK` with `PointerInv`: the pointers of the
slot being appended, of jobs to be built, queued and in hand lead to batches
that were built, freed or not; without it the second half of an append or the
publisher's reads could not be shown to stay within the heap. From it:
`TypeCorrect`. `RowsNeverGoBackThm` needs `RInv`, which adds `JobInv` (the job in hand carries
`latest` of its slice, and its pipeline holds only keys of that slice),
`PipelineInv` and `RowsInv` (no row is newer than `latest` of its slice): `latest`
only grows, so a row is only overwritten by something at least as new. It is
proved under `DistinctDates` (no two slices share a date): without it two
slices write the same key and the theorem is false.

`RowShowsItsContractThm` needs `CInv`, which adds to `IInv` what makes it sound to pair slots read
now with greeks copied earlier: `CopyInv` (the results in a job are those of the
first slots of its batch as they still are, and never of the slot that an
append has not written yet) and `MatchInv` (what is in the pipeline and in the rows is of
the contract in the key, or zeros).

`LastTickIsShownThm` needs the longest invariant, `LInv`: `OwnerInv` (a batch that
a slice or a job of a slice points to is of that slice); `AppendInv` and `FreshInv` (a slot that
was added since a job of the last tick was built holds none of the job's contracts, unless `again`
has it), so that a zero row behind the job's own is of another contract; `OrderInv` (as long as the counter has not wrapped around, the jobs of a
slice wait in the order of their ticks, newer than what was published), so that the filter
lets the last one through; `CoverInv` (a job of the last tick has the result of every contract
priced at it); `CurrentInv` (row by row, the pipeline has these results, and the
zero rows of slots appended since are of contracts that the job has not, or that are in `again`); and `SettledInv`, which says where
the result of the last tick is: still to be queued, lost, in a job, in the pipeline, or
in the row.

**ExpiryBatchProofs.** `Inv` joins `TypeOK` with `MaskInv` (each slot in the range
holds a contract and the sign of its payoff, however it came there), `TickInv`
(during a tick the scratch is of this tick in the whole range, and the write
buffers are right up to slot `i`) and `EmptyInv` (the buffer written to is empty
past the range, the one read from past what was priced; both are needed, since a
swap exchanges them). From it `TypeCorrect`, `UnpricedShowsZerosThm` and `Refinement`;
none of it rests on the range staying within the arrays. From the refinement
and from what `PricedSlice` keeps by itself, `ShowsOneTickThm`: what `PublishPath` takes
a tick of a batch to leave.

**SpscQueueProofs.** The invariant says, as long as producers have taken turns:
what lies between the two indices is what was accepted and not taken, in order,
and fewer than `Size`; the slot a producer writes is the free one; the consumer's copy is of
the first of them. From it `TypeCorrect`, `NoSlotSharedThm` and `Refinement`;
from that and from what `Fifo` keeps by itself, `InOrderThm`: what the modules that take a queue
to be a sequence rely on.

**TimeZoneProofs.** A call that has not been overlapped has found and will convert
in the zone it set itself; after a leak nothing in the process is other than New
York, which every step preserves. From these `TypeCorrect`,
`WrongOnlyIfOverlappedThm` and `LeakIsHarmlessThm`, a theorem of the form
"from such a state on, always".

**PositionsProofs.** `Inv` joins `TypeOK`, `OneStream`, what each request knows
(`RequestInv`) and `NoPositionForgotten` itself. `AnswerInv`: what Redis answered may be stale
when it is used, but a position that was there still is, since none is ever
removed. `PipeInv`: a command that sets is for a contract the core will
be told of and that was not open when the request began; one that adds is for an
open position. So a transaction opens only positions that are in `new`
(`NoPositionForgottenThm`), and overwrites none that a request has seen
(`UnitsAreAddedUpThm`). `SaleInv`: a contract with one order has at most one command, covered by
the units that were seen (`CheckedSalesAreCoveredThm`). What a
transaction leaves is a recursive function over its commands; the lemmas about
it (`AfterExists`, `AfterStep` and those that follow) are inductions along the
commands, each by a least counterexample in a set of naturals, since
a theorem of induction over an operator is out of the prover's reach.

**ReadsProofs.** Assumed: finitely many contracts. `Inv` joins `TypeOK` with
`CountInv` (the list is at least as long as its set of keys, and bounded by the
pages), `CoverInv` (what stayed is in the list, in the page in hand or still to
come), `EvenInv` (as long as rows and positions have agreed, neither has changed
for this request), `WholeInv` and `SeenInv` (sequence numbers only grow; what was
shown is not newer than the row, and the list not newer than the rows). From it `TypeCorrect`,
`NothingMissedThm`, `PortfolioIsWholeThm`, `FailsOnlyForCauseThm` and
`MonotonicReadsThm`. That equal lengths mean equal sets is the theorem about
subsets of the same cardinality.

Only model-checked: liveness (`EveryTickAcknowledged`, `OpenedIsPlaced`,
`TrackedOrDropped`, `StarvedOnlyByEarlier`, the fairness in `ImplementsOrchestrator`),
which needs fairness and `ENABLED`. Every other property of a passing run is
a theorem.

## Not modelled

* Weak memory: accesses are sequentially consistent, and a word is copied
  atomically. `MarketData` holds a `std::string`; a racing copy is undefined
  beyond mixing.
* What a write past the end of a batch or through a freed pointer destroys in
  other objects, beyond that it may end the process, and that it takes none of the slots
  of the batch; what `getenv`'s pointer shows after another thread's `setenv`;
  a failing `setenv`.
* Numbers: prices, greeks, the formulas of d1 and d2.
* The clock is read once per flush.
* The time to live of a row: rows expire at any moment, or never.
* Health, heartbeat, `core_alive`, start and stop of the API: a status that only
  the health route shows and nothing acts on.
* The generators of ticks; logging; `config.yaml`, which no code reads.

## Plan

1. Done: all components but the API process; the refinements `Mailbox` ->
   `TickFeed`, `ExpiryBatch` -> `PricedSlice`, `SpscQueue` -> `Fifo`, `ComputeLoop` ->
   `Orchestrator`; proofs of every safety property of every passing run.
2. Proofs that remain worth having: of `TimeZone`, that a leak needs an overlap; of `Reads`, a
   bound on the pages of a scan that repeats nothing; of `PublishPath`, that the publisher
   follows a freed pointer only if the slice retired or was rebuilt while its job waited.
3. `Health`: the heartbeat and the readiness route, which write the same status.
