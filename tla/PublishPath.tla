---------------------------- MODULE PublishPath ----------------------------
(***************************************************************************)
(* core/state, the publishing half of core/orchestrator, and core/publish: *)
(* how a tick of one symbol becomes rows of greeks in Redis.  The compute  *)
(* thread flushes (retires, creates, rebuilds and extends batches),        *)
(* processes the tick and puts one job per batch in a bounded queue.  A    *)
(* job holds copies of the greeks but pointers to the strikes, payoffs and *)
(* ranges of the batch.  The publisher thread follows those pointers while *)
(* the compute thread goes on.                                             *)
(*                                                                         *)
(* The result of pricing a contract is represented by the contract, so a   *)
(* row says whose numbers it shows.  Which contracts arrive and when an    *)
(* expiry is due are left open (the queue and the clock are in             *)
(* Orchestrator, and so is the hang that ends a flush whose retirement     *)
(* would leave the symbol no expiry).  Definitions marked mutant are not   *)
(* part of the model.                                                      *)
(***************************************************************************)
EXTENDS Integers, SequencesExt

CONSTANTS
  Slices,             \* the expiries of the symbol
  Contracts,          \* strikes and payoffs
  Listed,             \* per slice, those of them a user may open
  TwoKeyed,           \* those whose strike the registry looks up under
                      \* another key than it stores
  ExpiryOf,           \* the time of an expiry
  DateOf,             \* the date of an expiry, all of it that a row key shows
  Modulus,            \* of the sequence number (2^64)
  FirstSeqnos,        \* what the uninitialised seqno_ may hold
  QueueSize,          \* of the job queue (512)
  MinHeadroom,        \* 5
  MaxOpened,          \* bound: contracts ever registered
  MaxTicks,           \* bound: ticks processed
  MaxBatches          \* bound: batches ever built

ASSUME ListedAssumption == \A s \in Slices : Listed[s] \subseteq Contracts
ASSUME ModulusAssumption == Modulus \in Nat \ {0}
ASSUME FirstAssumption == FirstSeqnos \subseteq 0 .. Modulus - 1
ASSUME QueueAssumption == QueueSize \in Nat \ {0}
ASSUME HeadroomAssumption == MinHeadroom \in Nat \ {0}
ASSUME BoundsAssumption == MaxOpened \in Nat /\ MaxTicks \in Nat /\ MaxBatches \in Nat

Blank == "blank"      \* a slot counted by the range but not written yet
Zero == "zero"        \* greeks never computed

\* An unwritten slot has the type PAYOFFTYPE_ERROR, which no contract has.
ASSUME BlankAssumption == Blank \notin Contracts

Cells == Contracts \cup {Blank}
Priced == Slices \X Contracts
Results == (Slices \X Cells) \cup {Zero}
Keys == {DateOf[s] : s \in Slices} \X Cells

VARIABLES
  \* the compute thread
  cpc,                \* where it is
  expiries,           \* the slices of the symbol, in the order they arrived
  retired,            \* those that are past by the grace period
  opened,             \* per slice, its registered contracts, in order
  metas,              \* registered, but not yet placed
  processed,          \* slices whose batch was built in this flush
  cur,                \* per slice, the heap cell of its batch, 0 for none
  todo,               \* slices whose job of this tick is not yet built
  slot,               \* the slot being appended: its slice and contract
  seqno, ticks,       \* of the symbol
  \* shared memory
  heap,               \* every batch built: its slice, slots in use, empty
                      \* slots (or how far it overran), and not yet freed
  jobs,               \* the job queue
  \* the publisher thread
  ppc, job, i, pipeline,
  latest,             \* latest_seqno_
  \* Redis
  rows,               \* key -> seqno of the tick, whose result
  \* history
  first,              \* the value seqno started with
  priced,             \* what the last tick priced
  again,              \* appended since to a batch that had them already
  freed,              \* the publisher has followed a pointer to a freed batch
  lost                \* slices whose newest job was dropped or not executed

registry == <<expiries, retired, opened>>
batches == <<heap, cur>>
tick == <<todo, seqno, ticks, first, priced>>
compute == <<cpc, registry, metas, processed, slot, again, batches, tick>>
publisher == <<ppc, job, i, pipeline, latest, freed>>
output == <<jobs, rows, lost>>
vars == <<compute, publisher, output>>

NoJob == [batch |-> 0, slice |-> CHOOSE s \in Slices : TRUE, seqno |-> 0, greeks |-> <<>>]

Init ==
  /\ cpc = "idle"
  /\ expiries = <<>>
  /\ retired = {}
  /\ opened = [s \in Slices |-> <<>>]
  /\ metas = <<>>
  /\ processed = {}
  /\ cur = [s \in Slices |-> 0]
  /\ todo = {}
  /\ slot = <<>>
  /\ seqno \in FirstSeqnos
  /\ ticks = 0
  /\ heap = <<>>
  /\ jobs = <<>>
  /\ ppc = "idle"
  /\ job = NoJob
  /\ i = 1
  /\ pipeline = <<>>
  /\ latest = [s \in Slices |-> 0]
  /\ rows = <<>>
  /\ first = seqno
  /\ priced = {}
  /\ again = {}
  /\ freed = FALSE
  /\ lost = {}

Alive == ppc # "dead"

-----------------------------------------------------------------------------
(* The compute thread: flush_changes, retire.                               *)

BeginFlush ==
  /\ Alive
  /\ cpc = "idle"
  /\ cpc' = "retire"
  /\ UNCHANGED <<registry, metas, processed, slot, again, batches, tick, publisher, output>>

Waiting == ToSet(expiries) \ retired       \* expiry_queues_ of the symbol

\* ns_to_meta_ points into a vector that has moved since (see Orchestrator).
StalePointer(s) ==
  \E e \in DOMAIN expiries, k \in 0 .. Len(expiries) :
    expiries[e] = s /\ e <= 2^k /\ 2^k < Len(expiries)

\* find_expired_slices pops the next expiry, and looks at the one after it
Expired(s) ==
  /\ Alive
  /\ cpc = "retire"
  /\ s \in Waiting
  /\ Waiting # {s}
  /\ \A t \in Waiting \ {s} : ExpiryOf[s] < ExpiryOf[t]
  /\ retired' = retired \cup {s}
  /\ UNCHANGED <<cpc, expiries, opened, metas, processed, slot, again, tick, publisher, output>>

\* SymbolState::retire_expiry_slice destroys the batch of the slice, or of
\* the one that a stale pointer gives
RetireSlice(s, t) ==
  /\ Expired(s)
  /\ t = s \/ StalePointer(s)
  /\ cur[t] # 0
  /\ heap' = [heap EXCEPT ![cur[t]].live = FALSE]
  /\ cur' = [cur EXCEPT ![t] = 0]

\* ... which may have none
RetireNothing(s) ==
  /\ Expired(s)
  /\ cur[s] = 0 \/ StalePointer(s)
  /\ UNCHANGED batches

-----------------------------------------------------------------------------
(* The compute thread: flush_changes, register and place new contracts.     *)

Registered == Cardinality(UNION {{s} \X DOMAIN opened[s] : s \in Slices})

\* flush_user_changes, one contract that missing_level_of does not find
Register(s, c) ==
  /\ Alive
  /\ cpc \in {"retire", "drain"}
  /\ cpc' = "drain"
  /\ c \in Listed[s]
  /\ c \in ToSet(opened[s]) => c \in TwoKeyed
  /\ Registered < MaxOpened
  /\ expiries' = IF opened[s] = <<>> THEN Append(expiries, s) ELSE expiries
  /\ opened' = [opened EXCEPT ![s] = Append(@, c)]
  /\ metas' = Append(metas, <<s, c>>)
  /\ UNCHANGED <<retired, processed, slot, again, batches, tick, publisher, output>>

\* The next contract to place.  Whether has_headroom finds an empty slot for
\* it is left open: it compares with a range past the end of the vector.
Placing(s, c) ==
  /\ Alive
  /\ cpc \in {"drain", "place"}
  /\ metas # <<>>
  /\ Head(metas) = <<s, c>>
  /\ metas' = Tail(metas)
  /\ UNCHANGED <<registry, tick, publisher, output>>

\* the empty slots of a batch built with n contracts: max(0.2 n, 5)
Headroom(n) == IF n \div 5 > MinHeadroom THEN n \div 5 ELSE MinHeadroom

NewBatch(s) == [slice |-> s, slots |-> opened[s], room |-> Headroom(Len(opened[s])),
                live |-> TRUE]

\* remove_old_batch, if there is one, and create_or_recreate_batch of all
\* the contracts that are registered
BuildBatch(s, c) ==
  /\ Placing(s, c)
  /\ s \notin processed
  /\ Len(heap) < MaxBatches
  /\ processed' = processed \cup {s}
  /\ heap' = Append([b \in DOMAIN heap |->
                       IF b = cur[s] THEN [heap[b] EXCEPT !.live = FALSE] ELSE heap[b]],
                    NewBatch(s))
  /\ cur' = [cur EXCEPT ![s] = Len(heap) + 1]
  /\ cpc' = "place"
  /\ UNCHANGED <<slot, again>>

\* No room, but the batch was built in this flush.
SkipContract(s, c) ==
  /\ Placing(s, c)
  /\ s \in processed
  /\ cpc' = "place"
  /\ UNCHANGED <<processed, slot, again, batches>>

WithBlankSlot(b) == [b EXCEPT !.slots = Append(@, Blank), !.room = @ - 1]

\* append_new_contract: contract_ranges_[range_index].second++
BeginAppend(s, c) ==
  /\ Placing(s, c)
  /\ cur[s] # 0
  /\ heap[cur[s]].room > 0
  /\ heap' = [heap EXCEPT ![cur[s]] = WithBlankSlot(heap[cur[s]])]
  /\ slot' = <<s, c>>
  /\ again' = IF c \in ToSet(heap[cur[s]].slots) THEN again \cup {<<s, c>>} ELSE again
  /\ cpc' = "append"
  /\ UNCHANGED <<processed, cur>>

\* ... of a batch without an empty slot.  The publisher stops at the end of
\* the arrays, and never sees what was written past it.
AppendPastEnd(s, c) ==
  /\ Placing(s, c)
  /\ cur[s] # 0
  /\ heap[cur[s]].room <= 0
  /\ heap' = [heap EXCEPT ![cur[s]].room = @ - 1]
  /\ cpc' = "place"
  /\ UNCHANGED <<processed, slot, again, cur>>

FirstSlot(b) == 1                                                  \* mutant
LastSlot(b) == Len(heap[b].slots)

\* append_new_contract: strikes_ and payoff_types_ of the new slot
EndAppend ==
  /\ Alive
  /\ cpc = "append"
  /\ LET b == cur[slot[1]]
     IN heap' = [heap EXCEPT ![b].slots[LastSlot(b)] = slot[2]]
  /\ slot' = <<>>
  /\ cpc' = "place"
  /\ UNCHANGED <<registry, metas, processed, again, cur, tick, publisher, output>>

\* What was written past a batch may end the process.
StrayWrite ==
  /\ \E b \in DOMAIN heap : heap[b].live /\ heap[b].room < 0
  /\ ppc' = "dead"
  /\ UNCHANGED <<cpc, registry, metas, processed, slot, again, batches, tick,
                 job, i, pipeline, latest, freed, output>>

FlushDone ==
  /\ Alive
  /\ cpc \in {"retire", "place"}
  /\ metas = <<>>
  /\ processed' = {}

\* A flush that no tick follows.
EndFlush ==
  /\ FlushDone
  /\ cpc' = "idle"
  /\ UNCHANGED <<registry, metas, slot, again, batches, tick, publisher, output>>

-----------------------------------------------------------------------------
(* The compute thread: StateOrchestrator::process_tick.                     *)

\* SymbolState::process_tick: count the tick and price every batch
ProcessTick ==
  /\ FlushDone
  /\ ticks < MaxTicks
  /\ ticks' = ticks + 1
  /\ seqno' = (seqno + 1) % Modulus
  /\ todo' = {s \in Slices : cur[s] # 0}
  /\ priced' = {sc \in Priced : cur[sc[1]] # 0 /\ sc[2] \in ToSet(heap[cur[sc[1]]].slots)}
  /\ again' = {}
  /\ cpc' = "jobs"
  /\ UNCHANGED <<registry, metas, slot, batches, first, publisher, output>>

\* The greeks of a batch: one result per slot of its range.
GreeksOf(s) == [n \in DOMAIN heap[cur[s]].slots |-> <<s, heap[cur[s]].slots[n]>>]

RoomForOneMore == Len(jobs) <= QueueSize                           \* mutant
WriteAvailable == Len(jobs) < QueueSize

\* build_and_publish_jobs and enqueue_job, one batch; a full queue drops the job
EnqueueJob(s) ==
  /\ Alive
  /\ cpc = "jobs"
  /\ s \in todo
  /\ todo' = todo \ {s}
  /\ IF WriteAvailable
     THEN /\ jobs' = Append(jobs, [batch |-> cur[s], slice |-> s, seqno |-> seqno,
                                   greeks |-> GreeksOf(s)])
          /\ lost' = lost \ {s}
     ELSE /\ lost' = lost \cup {s}
          /\ UNCHANGED jobs
  /\ UNCHANGED <<cpc, registry, metas, processed, slot, again, batches, seqno, ticks,
                 first, priced, publisher, rows>>

TickDone ==
  /\ Alive
  /\ cpc = "jobs"
  /\ todo = {}
  /\ cpc' = "idle"
  /\ UNCHANGED <<registry, metas, processed, slot, again, batches, tick, publisher, output>>

-----------------------------------------------------------------------------
(* The publisher thread: RedisPublisher::run and publish_batch.             *)

NeverFiltered(j) == TRUE                                           \* mutant
NewerThanAny(j) == \A s \in Slices : j.seqno > latest[s]           \* mutant
\* latest_seqno_[job_key] is read as 0 when there is none
IsNewer(j) == j.seqno > latest[j.slice]

PopJob ==
  /\ ppc = "idle"
  /\ jobs # <<>>
  /\ jobs' = Tail(jobs)
  /\ IF IsNewer(Head(jobs))
     THEN /\ job' = Head(jobs)
          /\ latest' = [latest EXCEPT ![job'.slice] = job'.seqno]
          /\ ppc' = "rows"
     ELSE UNCHANGED <<job, latest, ppc>>
  /\ UNCHANGED <<compute, i, pipeline, freed, rows, lost>>

ResultAt(n) == IF n \in DOMAIN job.greeks THEN job.greeks[n] ELSE Zero

\* The key of a row and the result in it; the sequence number is the job's.
Row(cell) == [key |-> <<DateOf[job.slice], cell>>, of |-> ResultAt(i)]

\* One iteration over the range: the slot as it is now, the greeks as copied.
QueueRow ==
  /\ ppc = "rows"
  /\ heap[job.batch].live
  /\ i <= Len(heap[job.batch].slots)
  /\ pipeline' = Append(pipeline, Row(heap[job.batch].slots[i]))
  /\ i' = i + 1
  /\ UNCHANGED <<compute, jobs, ppc, job, latest, freed, rows, lost>>

(***************************************************************************)
(* The batch is gone: an assert or at() may end the process; or the freed  *)
(* memory still looks like a batch, and its slot like any contract.        *)
(***************************************************************************)
QueueFreedRow ==
  /\ ppc = "rows"
  /\ ~heap[job.batch].live
  /\ freed' = TRUE
  /\ \/ /\ ppc' = "dead"
        /\ UNCHANGED <<i, pipeline>>
     \/ /\ i \in DOMAIN job.greeks
        /\ \E cell \in Cells : pipeline' = Append(pipeline, Row(cell))
        /\ i' = i + 1
        /\ UNCHANGED ppc
  /\ UNCHANGED <<compute, jobs, job, latest, rows, lost>>

(***************************************************************************)
(* hmset, or the pipeline that replaces one that failed, throws: there is  *)
(* no handler, so the process ends, and with it the commands it buffered.  *)
(***************************************************************************)
HmsetThrows ==
  /\ ppc = "rows"
  /\ heap[job.batch].live
  /\ i <= Len(heap[job.batch].slots)
  /\ ppc' = "dead"
  /\ pipeline' = <<>>
  /\ UNCHANGED <<compute, jobs, job, i, latest, freed, rows, lost>>

LastRowQueued == heap[job.batch].live => i > Len(heap[job.batch].slots)

\* Redis applies the first n commands of the pipeline; the last for a key stays.
LastFor(k, n) == Max({p \in 1 .. n : pipeline[p].key = k})
Applied(n) ==
  LET sent == {pipeline[p].key : p \in 1 .. n}
  IN [k \in sent \cup DOMAIN rows |->
        IF k \in sent THEN [seqno |-> job.seqno, of |-> pipeline[LastFor(k, n)].of]
                      ELSE rows[k]]

\* pipeline_.exec(); if it fails, whatever part Redis applied stays
Exec ==
  /\ ppc = "rows"
  /\ LastRowQueued
  /\ freed' = (freed \/ ~heap[job.batch].live)
  /\ \E n \in 0 .. Len(pipeline) :
       /\ rows' = Applied(n)
       /\ lost' = IF n < Len(pipeline) /\ job.seqno = seqno
                  THEN lost \cup {job.slice} ELSE lost
  /\ ppc' = "idle"
  /\ job' = NoJob
  /\ i' = 1
  /\ pipeline' = <<>>
  /\ UNCHANGED <<compute, jobs, latest>>

\* The TTL of a row that is not written again, or Redis losing its data.
Expire(k) ==
  /\ rows' = Restrict(rows, DOMAIN rows \ {k})
  /\ UNCHANGED <<compute, publisher, jobs, lost>>

-----------------------------------------------------------------------------
Retire ==
  \/ BeginFlush
  \/ \E s, t \in Slices : RetireSlice(s, t)
  \/ \E s \in Slices : RetireNothing(s)

Place ==
  \/ \E s \in Slices, c \in Contracts :
       \/ Register(s, c)
       \/ BuildBatch(s, c) \/ SkipContract(s, c)
       \/ BeginAppend(s, c) \/ AppendPastEnd(s, c)
  \/ EndAppend
  \/ EndFlush

Tick == ProcessTick \/ (\E s \in Slices : EnqueueJob(s)) \/ TickDone
Publish == PopJob \/ QueueRow \/ QueueFreedRow \/ HmsetThrows \/ Exec

Next == Retire \/ Place \/ Tick \/ StrayWrite \/ Publish \/ (\E k \in DOMAIN rows : Expire(k))

Spec == Init /\ [][Next]_vars

-----------------------------------------------------------------------------
Seqnos == 0 .. Modulus - 1
Batches == [slice : Slices, slots : Seq(Cells), room : Int, live : BOOLEAN]
Jobs == [batch : 1 .. MaxBatches, slice : Slices, seqno : Seqnos,
         greeks : Seq(Slices \X Cells)]

ComputeOK ==
  /\ cpc \in {"idle", "retire", "drain", "place", "append", "jobs"}
  /\ expiries \in Seq(Slices)
  /\ retired \subseteq Slices
  /\ opened \in [Slices -> Seq(Contracts)]
  /\ metas \in Seq(Priced)
  /\ processed \subseteq Slices
  /\ again \subseteq Priced
  /\ todo \subseteq Slices
  /\ slot \in {<<>>} \cup Priced
  /\ seqno \in Seqnos
  /\ ticks \in 0 .. MaxTicks

MemoryOK ==
  /\ heap \in Seq(Batches)
  /\ Len(heap) <= MaxBatches
  /\ cur \in [Slices -> 0 .. Len(heap)]

QueueOK ==
  /\ jobs \in Seq(Jobs)
  /\ Len(jobs) <= QueueSize

PublisherOK ==
  /\ ppc \in {"idle", "rows", "dead"}
  /\ ppc = "rows" => job \in Jobs
  /\ i \in Nat \ {0}
  /\ pipeline \in Seq([key : Keys, of : Results])
  /\ latest \in [Slices -> Seqnos]

RedisOK ==
  /\ rows \in [DOMAIN rows -> [seqno : Seqnos, of : Results]]
  /\ DOMAIN rows \subseteq Keys
  /\ lost \subseteq Slices

\* The type invariant: the queue and its jobs stay within their bounds.
TypeOK == ComputeOK /\ MemoryOK /\ QueueOK /\ PublisherOK /\ RedisOK

(***************************************************************************)
(* A row is only ever overwritten by a later tick of its symbol, whatever  *)
(* jobs were dropped, whatever part of a pipeline was applied, even when   *)
(* the sequence number wraps around, and even when the publisher reads a   *)
(* batch that was freed; as long as no two slices share a date.            *)
(***************************************************************************)
RowsNeverGoBack ==
  [][\A k \in DOMAIN rows \cap DOMAIN rows' : rows'[k].seqno >= rows[k].seqno]_rows

(***************************************************************************)
(* The numbers in a row are those of the contract in its key, or zeros,    *)
(* and never those of another one: the publisher pairs slots read now with *)
(* greeks copied earlier, but slots are only ever added.  The exception is *)
(* a publisher that has followed a freed pointer.                          *)
(***************************************************************************)
RowShowsItsContract ==
  ~freed =>
    \A k \in DOMAIN rows :
      \/ rows[k].of = Zero
      \/ rows[k].of[2] = k[2] /\ DateOf[rows[k].of[1]] = k[1]

NothingPending == cpc = "idle" /\ jobs = <<>> /\ ppc = "idle"

\* The row of a contract, unless it has expired, shows the last tick.
ShowsLastTick(s, c) ==
  LET k == <<DateOf[s], c>>
  IN k \in DOMAIN rows => rows[k] = [seqno |-> seqno, of |-> <<s, c>>]

OwnDate(s) == \A t \in Slices \ {s} : DateOf[t] # DateOf[s]

(***************************************************************************)
(* Once nothing is pending, the row of each contract priced at the last    *)
(* tick shows that tick, whatever was filtered, dropped or lost before:    *)
(* unless the last job of the slice itself was dropped or failed, the      *)
(* counter has wrapped around, the slice shares its date, or a flush since *)
(* then appended the contract a second time (its strike has two keys, or a *)
(* rebuild had collected it): the zeros of its second slot come last.      *)
(***************************************************************************)
LastTickIsShown ==
  NothingPending /\ seqno = first + ticks /\ ~freed =>
    \A sc \in priced \ again :
      sc[1] \notin lost /\ OwnDate(sc[1]) => ShowsLastTick(sc[1], sc[2])

-----------------------------------------------------------------------------
(* What the code says, and does not keep.                                   *)

(***************************************************************************)
(* The asserts of publish_batch on the sizes of strikes, payoff types and  *)
(* ranges: the batch a job points to is still there when it is published.  *)
(***************************************************************************)
JobBatchIsLive == ppc = "rows" => heap[job.batch].live
=============================================================================
