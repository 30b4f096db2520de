-------------------------- MODULE PublishPathProofs --------------------------
(***************************************************************************)
(* Theorems about the publish path, for any number of slices, contracts,   *)
(* ticks and queued jobs, any modulus of the sequence number and any first *)
(* value of it.                                                            *)
(***************************************************************************)
EXTENDS PublishPath, SequenceTheorems, WellFoundedInduction, TLAPS

\* Row keys show the date of an expiry, so two slices must not share one.
DistinctDates == \A s, t \in Slices : DateOf[s] = DateOf[t] => s = t

(***************************************************************************)
(* A job under way carries the newest sequence number of its slice, and    *)
(* everything in the pipeline goes to keys of that slice.                  *)
(***************************************************************************)
JobInv ==
  ppc = "rows" =>
    /\ job.seqno = latest[job.slice]
    /\ \A p \in 1 .. Len(pipeline) : pipeline[p].key[1] = DateOf[job.slice]

PipelineInv == ppc = "idle" => pipeline = <<>>

\* No row is newer than the newest job taken for its slice.
RowsInv ==
  \A k \in DOMAIN rows : \A s \in Slices :
    k[1] = DateOf[s] => rows[k].seqno <= latest[s]

(***************************************************************************)
(* Pointers lead to batches that were built: those of the slot being       *)
(* appended, of the jobs still to be built, queued, and under way.  They   *)
(* may have been freed since.                                              *)
(***************************************************************************)
PointerInv ==
  /\ cpc = "append" => slot \in Priced /\ cur[slot[1]] # 0
  /\ \A s \in todo : cpc = "jobs" /\ cur[s] # 0
  /\ \A n \in 1 .. Len(jobs) : jobs[n].batch \in 1 .. Len(heap)
  /\ ppc = "rows" => job.batch \in 1 .. Len(heap)

IInv == TypeOK /\ PointerInv
RInv == IInv /\ JobInv /\ PipelineInv /\ RowsInv

USE ModulusAssumption, FirstAssumption, QueueAssumption, BoundsAssumption, HeadroomAssumption
    DEF Seqnos

-----------------------------------------------------------------------------
\* A non-empty set of indexes has a greatest one.
LEMMA MaxInSet ==
  ASSUME NEW n \in Nat, NEW T \in SUBSET (1 .. n), T # {}
  PROVE  Max(T) \in T
<1> DEFINE U == {n - t : t \in T}
<1>1. U \subseteq Nat /\ U # {}
  <2>1. \A t \in T : n - t \in Nat
    OBVIOUS
  <2>. QED
    BY <2>1
<1>2. PICK x \in U : \A y \in U : <<y, x>> \notin OpToRel(<, Nat)
  <2>. HIDE DEF U
  <2>. QED
    BY <1>1, NatLessThanWellFounded, WFMin
<1>3. \A y \in U : ~(y < x)
  BY <1>1, <1>2 DEF OpToRel
<1>4. PICK t \in T : x = n - t
  OBVIOUS
<1>5. \A u \in T : t >= u
  BY <1>3, <1>4
<1>. QED
  BY <1>5 DEF Max

-----------------------------------------------------------------------------
(* The steps of a flush.                                                    *)

\* A flush never touches the tick, the publisher, the queue or Redis.
LEMMA FlushFrame ==
  ASSUME Retire \/ Place
  PROVE  /\ cpc # "jobs" /\ cpc' # "jobs"
         /\ UNCHANGED <<todo, seqno, ticks, first, priced>>
         /\ UNCHANGED <<ppc, job, i, pipeline, latest, freed>>
         /\ UNCHANGED <<jobs, rows, lost>>
         /\ again \subseteq again'
<1>. USE DEF tick, publisher, output
<1>1. CASE Retire
  BY <1>1 DEF Retire, BeginFlush, RetireSlice, RetireNothing, Expired
<1>2. CASE Place
  BY <1>2 DEF Place, Register, Placing, BuildBatch, SkipContract, BeginAppend,
              AppendPastEnd, EndAppend, EndFlush, FlushDone
<1>. QED
  BY <1>1, <1>2

\* The steps that touch a batch or a pointer to one; every other step leaves
\* them alone.
LEMMA HeapStep ==
  ASSUME Next
  PROVE  \/ \E s, t \in Slices : RetireSlice(s, t)
         \/ \E s \in Slices, c \in Contracts :
              BuildBatch(s, c) \/ BeginAppend(s, c) \/ AppendPastEnd(s, c)
         \/ EndAppend
         \/ /\ UNCHANGED <<heap, cur, slot>>
            /\ cpc = "append" <=> cpc' = "append"
            /\ ProcessTick \/ UNCHANGED again
<1>. USE DEF batches
<1>1. CASE Retire
  BY <1>1 DEF Retire, BeginFlush, RetireNothing, Expired
<1>2. CASE Place
  BY <1>2 DEF Place, Register, Placing, SkipContract, EndFlush, FlushDone
<1>3. CASE Tick \/ StrayWrite
  BY <1>3 DEF Tick, ProcessTick, FlushDone, EnqueueJob, TickDone, StrayWrite
<1>4. CASE UNCHANGED compute
  BY <1>4 DEF compute
<1>. QED
  BY <1>1, <1>2, <1>3, <1>4
     DEF Next, Publish, PopJob, QueueRow, QueueFreedRow, HmsetThrows, Exec, Expire

-----------------------------------------------------------------------------
(* Type correctness.                                                        *)

LEMMA InitIInv == Init => IInv
<1>. SUFFICES ASSUME Init PROVE IInv
  OBVIOUS
<1>. USE DEF Init
<1>1. ComputeOK /\ RedisOK
  BY DEF ComputeOK, RedisOK
<1>2. MemoryOK /\ QueueOK
  BY EmptySeq DEF MemoryOK, QueueOK
<1>3. PublisherOK
  BY DEF PublisherOK
<1>4. PointerInv
  BY EmptySeq DEF PointerInv
<1>. QED
  BY <1>1, <1>2, <1>3, <1>4 DEF IInv, TypeOK

\* What the compute thread keeps to itself is well typed.
LEMMA ComputeTypes ==
  ASSUME ComputeOK, Next
  PROVE  ComputeOK'
<1>. USE DEF ComputeOK
<1>1. CASE BeginFlush \/ EndFlush \/ TickDone
  BY <1>1 DEF BeginFlush, EndFlush, FlushDone, TickDone, registry, tick
<1>2. ASSUME NEW s \in Slices, Expired(s)
      PROVE  ComputeOK'
  BY <1>2 DEF Expired, tick
<1>3. ASSUME NEW s \in Slices, NEW c \in Contracts, Register(s, c)
      PROVE  ComputeOK'
  <2>1. opened' \in [Slices -> Seq(Contracts)]
    <3>1. Append(opened[s], c) \in Seq(Contracts)
      OBVIOUS
    <3>2. opened' = [opened EXCEPT ![s] = Append(@, c)]
      BY <1>3 DEF Register
    <3>. QED
      BY <3>1, <3>2
  <2>2. metas' \in Seq(Priced)
    <3>1. <<s, c>> \in Priced
      BY DEF Priced
    <3>. QED
      BY <1>3, <3>1 DEF Register
  <2>3. expiries' \in Seq(Slices)
    BY <1>3 DEF Register
  <2>. QED
    BY <1>3, <2>1, <2>2, <2>3 DEF Register, tick
<1>4. ASSUME NEW s \in Slices, NEW c \in Contracts, Placing(s, c),
             cpc' \in {"place", "append"}, processed' \subseteq processed \cup {s},
             slot' \in {slot, <<s, c>>}, again' \subseteq again \cup {<<s, c>>}
      PROVE  ComputeOK'
  <2>1. metas' \in Seq(Priced)
    BY <1>4, HeadTailProperties DEF Placing
  <2>2. <<s, c>> \in Priced
    BY DEF Priced
  <2>. QED
    BY <1>4, <2>1, <2>2 DEF Placing, registry, tick
<1>5. ASSUME NEW s \in Slices, NEW c \in Contracts,
             \/ BuildBatch(s, c) \/ SkipContract(s, c)
             \/ BeginAppend(s, c) \/ AppendPastEnd(s, c)
      PROVE  ComputeOK'
  BY <1>4, <1>5 DEF BuildBatch, SkipContract, BeginAppend, AppendPastEnd
<1>6. CASE EndAppend
  BY <1>6 DEF EndAppend, registry, tick
<1>7. CASE ProcessTick
  BY <1>7 DEF ProcessTick, FlushDone, registry
<1>8. ASSUME NEW s \in Slices, EnqueueJob(s)
      PROVE  ComputeOK'
  BY <1>8 DEF EnqueueJob, registry
<1>9. ASSUME UNCHANGED compute
      PROVE  ComputeOK'
  BY <1>9 DEF compute, registry, tick
<1>10. CASE Retire \/ Place
  BY <1>1, <1>2, <1>3, <1>5, <1>6, <1>10 DEF Retire, Place, RetireSlice, RetireNothing
<1>11. CASE StrayWrite
  BY <1>9, <1>11 DEF StrayWrite, compute
<1>. QED
  BY <1>1, <1>7, <1>8, <1>9, <1>10, <1>11
     DEF Next, Tick, Publish, PopJob, QueueRow, QueueFreedRow, HmsetThrows, Exec, Expire

\* Assigning to an index, even one out of range, keeps a sequence a sequence.
LEMMA ExceptAny ==
  ASSUME NEW S, NEW q \in Seq(S), NEW n, NEW e \in S
  PROVE  [q EXCEPT ![n] = e] \in Seq(S)
<1>1. Len(q) \in Nat /\ q \in [1 .. Len(q) -> S]
  BY LenProperties
<1>2. [q EXCEPT ![n] = e] \in [1 .. Len(q) -> S]
  BY <1>1
<1>. QED
  BY <1>1, <1>2, SeqDef

\* A batch that was built, and one with a slot to be written.
LEMMA NewBatchTyped ==
  ASSUME IInv, NEW s \in Slices
  PROVE  NewBatch(s) \in Batches
<1>1. opened[s] \in Seq(Cells)
  BY SeqMonotonic DEF IInv, TypeOK, ComputeOK, Cells
<1>2. Headroom(Len(opened[s])) \in Int
  BY <1>1, LenProperties DEF Headroom
<1>. QED
  BY <1>1, <1>2 DEF NewBatch, Batches

LEMMA OtherSlots ==
  ASSUME NEW b \in Batches, NEW q \in Seq(Cells), NEW n \in Int
  PROVE  [b EXCEPT !.slots = q, !.room = n] \in Batches
BY DEF Batches

LEMMA OtherRoom ==
  ASSUME NEW b \in Batches, NEW n \in Int
  PROVE  /\ [b EXCEPT !.room = n] \in Batches
         /\ [b EXCEPT !.room = n].slots = b.slots /\ [b EXCEPT !.room = n].slice = b.slice
BY DEF Batches

LEMMA RoomOfOneLess ==
  ASSUME NEW b \in Batches
  PROVE  b.room - 1 \in Int
BY DEF Batches

LEMMA BlankSlotTyped ==
  ASSUME NEW b \in Batches
  PROVE  /\ WithBlankSlot(b) \in Batches
         /\ WithBlankSlot(b).slots = Append(b.slots, Blank)
         /\ WithBlankSlot(b).slice = b.slice /\ WithBlankSlot(b).live = b.live
<1> DEFINE q == Append(b.slots, Blank)
<1>1. q \in Seq(Cells)
  BY DEF Batches, Cells
<1>2. WithBlankSlot(b) = [b EXCEPT !.slots = q, !.room = b.room - 1]
  BY DEF WithBlankSlot
<1>. HIDE DEF q
<1>3. [b EXCEPT !.slots = q, !.room = b.room - 1] \in Batches
  <2>1. PICK n : n = b.room - 1
    OBVIOUS
  <2>2. n \in Int
    BY <2>1, RoomOfOneLess
  <2>3. [b EXCEPT !.slots = q, !.room = n] \in Batches
    BY <1>1, <2>2, OtherSlots
  <2>. QED
    BY <2>1, <2>3
<1>4. WithBlankSlot(b) \in Batches
  BY <1>2, <1>3
<1>5. WithBlankSlot(b).slots = q /\ WithBlankSlot(b).slice = b.slice /\ WithBlankSlot(b).live = b.live
  BY <1>2 DEF Batches
<1>. QED
  BY <1>4, <1>5 DEF q

\* The heap only grows, and every pointer of the symbol stays within it.
LEMMA MemoryTypes ==
  ASSUME IInv, Next
  PROVE  MemoryOK' /\ Len(heap') >= Len(heap)
<1>. USE DEF MemoryOK
<1>. heap \in Seq(Batches) /\ Len(heap) \in Nat /\ DOMAIN heap = 1 .. Len(heap) /\ MemoryOK
  BY LenProperties DEF IInv, TypeOK
\* one batch is changed
<1>1. ASSUME NEW b \in 1 .. Len(heap), NEW e \in Batches, heap' = [heap EXCEPT ![b] = e],
             cur' \in [Slices -> 0 .. Len(heap)]
      PROVE  MemoryOK' /\ Len(heap') >= Len(heap)
  <2>1. heap' \in Seq(Batches) /\ Len(heap') = Len(heap)
    BY <1>1, ExceptSeq
  <2>. QED
    BY <1>1, <2>1
<1>2. \A b \in 1 .. Len(heap) : heap[b] \in Batches
  BY ElementOfSeq
<1>3. ASSUME NEW s \in Slices, NEW t \in Slices, RetireSlice(s, t)
      PROVE  MemoryOK' /\ Len(heap') >= Len(heap)
  <2> DEFINE e == [heap[cur[t]] EXCEPT !.live = FALSE]
  <2>1. cur[t] \in 1 .. Len(heap)
    BY <1>3 DEF RetireSlice
  <2>3. e \in Batches
    BY <1>2, <2>1 DEF Batches
  <2>2. heap' = [heap EXCEPT ![cur[t]] = e] /\ cur' \in [Slices -> 0 .. Len(heap)]
    BY <1>3 DEF RetireSlice
  <2>. HIDE DEF e
  <2>. QED
    BY <1>1, <2>1, <2>2, <2>3
<1>4. ASSUME NEW s \in Slices, NEW c \in Contracts, BuildBatch(s, c)
      PROVE  MemoryOK' /\ Len(heap') >= Len(heap)
  <2> DEFINE kept(b) == IF b = cur[s] THEN [heap[b] EXCEPT !.live = FALSE] ELSE heap[b]
             rest == [b \in 1 .. Len(heap) |-> kept(b)]
  <2>1. \A b \in 1 .. Len(heap) : kept(b) \in Batches
    BY <1>2 DEF Batches
  <2>2. rest \in Seq(Batches) /\ Len(rest) = Len(heap)
    <3>. HIDE DEF kept
    <3>1. rest \in Seq(Batches)
      BY <2>1, IsASeq
    <3>. QED
      BY <3>1, LenProperties
  <2>3. NewBatch(s) \in Batches
    BY NewBatchTyped
  <2>4. heap' = Append(rest, NewBatch(s))
    BY <1>4 DEF BuildBatch
  <2>5. heap' \in Seq(Batches) /\ Len(heap') = Len(heap) + 1
    <3>. HIDE DEF rest
    <3>. QED
      BY <2>2, <2>3, <2>4
  <2>6. cur' \in [Slices -> 0 .. Len(heap')]
    BY <1>4, <2>5 DEF BuildBatch
  <2>. QED
    BY <1>4, <2>5, <2>6 DEF BuildBatch
<1>5. ASSUME NEW s \in Slices, NEW c \in Contracts, BeginAppend(s, c)
      PROVE  MemoryOK' /\ Len(heap') >= Len(heap)
  <2> DEFINE e == WithBlankSlot(heap[cur[s]])
  <2>1. cur[s] \in 1 .. Len(heap) /\ heap[cur[s]] \in Batches
    BY <1>2, <1>5 DEF BeginAppend
  <2>2. e \in Batches
    BY <2>1, BlankSlotTyped
  <2>3. heap' = [heap EXCEPT ![cur[s]] = e] /\ cur' = cur
    BY <1>5 DEF BeginAppend
  <2>. HIDE DEF e
  <2>. QED
    BY <1>1, <2>1, <2>2, <2>3
<1>6. ASSUME NEW s \in Slices, NEW c \in Contracts, AppendPastEnd(s, c)
      PROVE  MemoryOK' /\ Len(heap') >= Len(heap)
  <2> DEFINE e == [heap[cur[s]] EXCEPT !.room = @ - 1]
  <2>1. cur[s] \in 1 .. Len(heap)
    BY <1>6 DEF AppendPastEnd
  <2>3. e \in Batches
    <3>1. PICK b : b = heap[cur[s]]
      OBVIOUS
    <3>2. b \in Batches
      BY <1>2, <2>1, <3>1
    <3>3. PICK n : n = b.room - 1
      OBVIOUS
    <3>4. n \in Int
      BY <3>2, <3>3, RoomOfOneLess
    <3>5. [b EXCEPT !.room = n] \in Batches
      BY <3>2, <3>4, OtherRoom
    <3>. QED
      BY <3>1, <3>3, <3>5
  <2>2. heap' = [heap EXCEPT ![cur[s]] = e] /\ cur' = cur
    BY <1>6 DEF AppendPastEnd
  <2>. HIDE DEF e
  <2>. QED
    BY <1>1, <2>1, <2>2, <2>3
<1>7. CASE EndAppend
  <2> DEFINE b == cur[slot[1]]
             n == LastSlot(b)
             e == [heap[b] EXCEPT !.slots = [@ EXCEPT ![n] = slot[2]]]
  <2>1. slot \in Priced
    BY <1>7 DEF EndAppend, IInv, PointerInv
  <2>2. b \in 1 .. Len(heap) /\ heap[b] \in Batches
    BY <1>2, <1>7, <2>1 DEF EndAppend, IInv, PointerInv, Priced
  <2>3. [heap[b].slots EXCEPT ![n] = slot[2]] \in Seq(Cells)
    <3>. HIDE DEF b, n
    <3>. QED
      BY <2>1, <2>2, ExceptAny DEF Batches, Priced, Cells
  <2>4. e \in Batches
    BY <2>2, <2>3 DEF Batches
  <2>5. heap' = [heap EXCEPT ![b] = e] /\ cur' = cur
    BY <1>7 DEF EndAppend
  <2>. HIDE DEF b, e
  <2>. QED
    BY <1>1, <2>2, <2>4, <2>5
<1>8. ASSUME UNCHANGED batches
      PROVE  MemoryOK' /\ Len(heap') >= Len(heap)
  BY <1>8 DEF batches
<1>9. CASE Retire \/ Place
  BY <1>3, <1>4, <1>5, <1>6, <1>7, <1>8, <1>9
     DEF Retire, Place, BeginFlush, RetireNothing, Register, SkipContract, EndFlush
<1>10. CASE Tick \/ StrayWrite
  BY <1>8, <1>10 DEF Tick, ProcessTick, EnqueueJob, TickDone, StrayWrite
<1>11. ASSUME UNCHANGED compute
      PROVE  MemoryOK' /\ Len(heap') >= Len(heap)
  BY <1>8, <1>11 DEF compute
<1>. QED
  BY <1>9, <1>10, <1>11
     DEF Next, Publish, PopJob, QueueRow, QueueFreedRow, HmsetThrows, Exec, Expire

\* The job of a slice is well typed.
LEMMA JobTyped ==
  ASSUME IInv, NEW s \in todo
  PROVE  /\ cur[s] \in 1 .. Len(heap)
         /\ [batch |-> cur[s], slice |-> s, seqno |-> seqno, greeks |-> GreeksOf(s)] \in Jobs
<1>. heap \in Seq(Batches) /\ s \in Slices /\ Len(heap) \in Nat
  BY LenProperties DEF IInv, TypeOK, MemoryOK, ComputeOK
<1>1. cur[s] \in 1 .. Len(heap) /\ Len(heap) <= MaxBatches
  BY DEF IInv, TypeOK, MemoryOK, PointerInv
<1>2. heap[cur[s]].slots \in Seq(Cells)
  <2>1. heap[cur[s]] \in Batches
    BY <1>1, ElementOfSeq
  <2>. QED
    BY <2>1 DEF Batches
<1>3. GreeksOf(s) \in Seq(Slices \X Cells)
  <2> DEFINE q == heap[cur[s]].slots
             e(n) == <<s, q[n]>>
  <2>1. Len(q) \in Nat /\ DOMAIN q = 1 .. Len(q)
    BY <1>2, LenProperties
  <2>2. \A n \in 1 .. Len(q) : e(n) \in Slices \X Cells
    <3>1. \A n \in 1 .. Len(q) : q[n] \in Cells
      BY <1>2, ElementOfSeq
    <3>. QED
      BY <3>1
  <2>3. [n \in 1 .. Len(q) |-> e(n)] \in Seq(Slices \X Cells)
    <3>. HIDE DEF q, e
    <3>. QED
      BY <2>1, <2>2, IsASeq
  <2>. QED
    BY <2>1, <2>3 DEF GreeksOf
<1>. QED
  BY <1>1, <1>3 DEF IInv, TypeOK, ComputeOK, Jobs

\* The queue never holds more than its capacity, and only well-typed jobs.
LEMMA QueueTypes ==
  ASSUME IInv, Next
  PROVE  QueueOK'
<1>. QueueOK
  BY DEF IInv, TypeOK
<1>1. ASSUME NEW s \in Slices, EnqueueJob(s)
      PROVE  QueueOK'
  <2> DEFINE new == [batch |-> cur[s], slice |-> s, seqno |-> seqno, greeks |-> GreeksOf(s)]
  <2>1. new \in Jobs
    BY <1>1, JobTyped DEF EnqueueJob
  <2>2. CASE Len(jobs) < QueueSize
    <3>1. jobs' = Append(jobs, new)
      BY <1>1, <2>2 DEF EnqueueJob, WriteAvailable
    <3>. HIDE DEF new
    <3>. QED
      BY <2>1, <2>2, <3>1, LenProperties DEF QueueOK
  <2>3. CASE ~(Len(jobs) < QueueSize)
    BY <1>1, <2>3 DEF EnqueueJob, WriteAvailable, QueueOK
  <2>. QED
    BY <2>2, <2>3
<1>2. CASE PopJob
  BY <1>2, HeadTailProperties, LenProperties DEF PopJob, QueueOK
<1>3. ASSUME UNCHANGED jobs
      PROVE  QueueOK'
  BY <1>3 DEF QueueOK
<1>. QED
  BY <1>1, <1>2, <1>3, FlushFrame
     DEF Next, Tick, Publish, ProcessTick, TickDone, QueueRow, QueueFreedRow, HmsetThrows, Exec,
        Expire, StrayWrite, compute, tick, publisher, output, FlushDone

\* What the publisher queues is well typed, whatever slot it reads.
LEMMA RowTyped ==
  ASSUME PublisherOK, ppc = "rows", NEW cell \in Cells
  PROVE  Row(cell) \in [key : Keys, of : Results]
<1>1. ResultAt(i) \in Results
  <2>1. job.greeks \in Seq(Slices \X Cells)
    BY DEF PublisherOK, Jobs
  <2>2. \A n \in DOMAIN job.greeks : job.greeks[n] \in Slices \X Cells
    BY <2>1, LenProperties, ElementOfSeq
  <2>. QED
    BY <2>2 DEF ResultAt, Results
<1>2. <<DateOf[job.slice], cell>> \in Keys
  BY DEF Keys, PublisherOK, Jobs
<1>. QED
  BY <1>1, <1>2 DEF Row

\* The publisher's own variables are well typed.
LEMMA PublisherTypes ==
  ASSUME IInv, Next
  PROVE  PublisherOK'
<1>. PublisherOK /\ QueueOK /\ MemoryOK
  BY DEF IInv, TypeOK
<1>1. CASE PopJob
  <2>1. Head(jobs) \in Jobs
    BY <1>1, HeadTailProperties DEF PopJob, QueueOK
  <2>2. CASE IsNewer(Head(jobs))
    BY <1>1, <2>1, <2>2 DEF PopJob, PublisherOK, Jobs
  <2>3. CASE ~IsNewer(Head(jobs))
    BY <1>1, <2>3 DEF PopJob, PublisherOK
  <2>. QED
    BY <2>2, <2>3
<1>2. ASSUME ppc = "rows", NEW cell \in Cells, pipeline' = Append(pipeline, Row(cell)),
             i' = i + 1, UNCHANGED <<ppc, job, latest>>
      PROVE  PublisherOK'
  <2>1. Row(cell) \in [key : Keys, of : Results]
    BY <1>2, RowTyped
  <2>2. pipeline' \in Seq([key : Keys, of : Results])
    BY <1>2, <2>1 DEF PublisherOK
  <2>. QED
    BY <1>2, <2>2 DEF PublisherOK
<1>3. CASE QueueRow
  <2>1. job.batch \in 1 .. Len(heap)
    BY <1>3 DEF QueueRow, IInv, PointerInv
  <2>2. heap[job.batch].slots \in Seq(Cells)
    <3>1. heap[job.batch] \in Batches
      BY <2>1, ElementOfSeq DEF MemoryOK
    <3>. QED
      BY <3>1 DEF Batches
  <2>3. heap[job.batch].slots[i] \in Cells
    BY <1>3, <2>2, ElementOfSeq, LenProperties DEF QueueRow, PublisherOK
  <2>. QED
    BY <1>2, <1>3, <2>3 DEF QueueRow
<1>4. CASE QueueFreedRow
  BY <1>2, <1>4 DEF QueueFreedRow, PublisherOK
<1>5. CASE Exec
  BY <1>5, EmptySeq DEF Exec, PublisherOK
<1>6. ASSUME UNCHANGED <<ppc, job, i, pipeline, latest>>
      PROVE  PublisherOK'
  BY <1>6 DEF PublisherOK
<1>7. CASE HmsetThrows
  BY <1>7, EmptySeq DEF HmsetThrows, PublisherOK
<1>8. CASE StrayWrite
  BY <1>8 DEF StrayWrite, PublisherOK
<1>. QED
  BY <1>1, <1>3, <1>4, <1>5, <1>6, <1>7, <1>8, FlushFrame
     DEF Next, Tick, Publish, ProcessTick, EnqueueJob, TickDone, Expire, compute,
        tick, publisher, output, FlushDone

\* What a row holds after an attempt to execute a pipeline.
LEMMA AppliedRows ==
  ASSUME PublisherOK, NEW n \in 0 .. Len(pipeline), NEW k \in DOMAIN Applied(n)
  PROVE  \/ \E p \in 1 .. Len(pipeline) :
               /\ k = pipeline[p].key
               /\ Applied(n)[k] = [seqno |-> job.seqno, of |-> pipeline[p].of]
         \/ /\ k \in DOMAIN rows /\ Applied(n)[k] = rows[k]
            /\ \A p \in 1 .. n : pipeline[p].key # k
<1> DEFINE T == {p \in 1 .. n : pipeline[p].key = k}
           sent == {pipeline[p].key : p \in 1 .. n}
<1>1. Len(pipeline) \in Nat /\ n \in Nat
  BY LenProperties DEF PublisherOK
<1>2. CASE k \notin sent
  BY <1>2 DEF Applied
<1>3. CASE k \in sent
  <2>1. T \in SUBSET (1 .. n) /\ T # {}
    BY <1>3
  <2>2. LastFor(k, n) \in T
    <3>1. LastFor(k, n) = Max(T)
      BY DEF LastFor
    <3>2. Max(T) \in T
      <4>. HIDE DEF T
      <4>. QED
        BY ONLY <1>1, <2>1, MaxInSet
    <3>. QED
      BY <3>1, <3>2
  <2>3. LastFor(k, n) \in 1 .. Len(pipeline) /\ pipeline[LastFor(k, n)].key = k
    BY <1>1, <2>2
  <2>4. Applied(n)[k] = [seqno |-> job.seqno, of |-> pipeline[LastFor(k, n)].of]
    BY <1>3 DEF Applied
  <2>. QED
    BY <2>3, <2>4
<1>. QED
  BY <1>2, <1>3

\* What Redis stores is well typed.
LEMMA RedisTypes ==
  ASSUME IInv, Next
  PROVE  RedisOK'
<1>. RedisOK /\ PublisherOK
  BY DEF IInv, TypeOK
<1>1. CASE Exec
  <2>1. PICK n \in 0 .. Len(pipeline) : rows' = Applied(n)
    BY <1>1 DEF Exec
  <2>2. lost' \subseteq Slices
    BY <1>1 DEF Exec, RedisOK, PublisherOK, Jobs
  <2>3. ASSUME NEW k \in DOMAIN Applied(n)
        PROVE  k \in Keys /\ Applied(n)[k] \in [seqno : Seqnos, of : Results]
    <3>1. job.seqno \in Seqnos
      BY <1>1 DEF Exec, PublisherOK, Jobs
    <3>2. \A p \in 1 .. Len(pipeline) : pipeline[p] \in [key : Keys, of : Results]
      BY ElementOfSeq DEF PublisherOK
    <3>3. k \in DOMAIN rows => k \in Keys /\ rows[k] \in [seqno : Seqnos, of : Results]
      BY DEF RedisOK
    <3>. QED
      BY <3>1, <3>2, <3>3, AppliedRows
  <2>4. Applied(n) = [k \in DOMAIN Applied(n) |-> Applied(n)[k]]
    BY DEF Applied
  <2>. QED
    BY <2>1, <2>2, <2>3, <2>4 DEF RedisOK
<1>2. ASSUME NEW k \in DOMAIN rows, Expire(k)
      PROVE  RedisOK'
  BY <1>2 DEF Expire, Restrict, RedisOK
<1>3. ASSUME NEW s \in Slices, EnqueueJob(s)
      PROVE  RedisOK'
  BY <1>3 DEF EnqueueJob, RedisOK
<1>4. ASSUME UNCHANGED <<rows, lost>>
      PROVE  RedisOK'
  BY <1>4 DEF RedisOK
<1>. QED
  BY <1>1, <1>2, <1>3, <1>4, FlushFrame
     DEF Next, Tick, Publish, ProcessTick, TickDone, PopJob, QueueRow, QueueFreedRow,
        HmsetThrows, StrayWrite, compute, tick, publisher, output, FlushDone

\* No pointer ever leads outside the heap.
LEMMA StepPointerInv ==
  ASSUME IInv, Next
  PROVE  PointerInv'
<1>1. Len(heap) \in Nat /\ Len(heap') \in Nat /\ Len(heap') >= Len(heap)
  BY MemoryTypes, LenProperties DEF IInv, TypeOK, MemoryOK
<1>2. MemoryOK /\ jobs \in Seq(Jobs) /\ Len(jobs) \in Nat /\ PublisherOK /\ ComputeOK
  BY LenProperties DEF IInv, TypeOK, QueueOK
<1>3. PointerInv
  BY DEF IInv
<1>4. (cpc = "append" => slot \in Priced /\ cur[slot[1]] # 0)'
  <2>1. ASSUME NEW s \in Slices, NEW c \in Contracts, BeginAppend(s, c)
        PROVE  slot' \in Priced /\ cur'[slot'[1]] # 0
    BY <2>1 DEF BeginAppend, Priced
  <2>2. cpc' = "append" =>
          \/ \E s \in Slices, c \in Contracts : BeginAppend(s, c)
          \/ cpc = "append" /\ UNCHANGED <<slot, cur>>
    BY HeapStep DEF RetireSlice, Expired, BuildBatch, AppendPastEnd, EndAppend
  <2>. QED
    BY <1>3, <2>1, <2>2 DEF PointerInv
<1>5. (\A s \in todo : cpc = "jobs" /\ cur[s] # 0)'
  <2>1. CASE ProcessTick
    BY <2>1 DEF ProcessTick, batches
  <2>2. ASSUME NEW s \in Slices, EnqueueJob(s)
        PROVE  \A t \in todo' : cpc' = "jobs" /\ cur'[t] # 0
    BY <1>3, <2>2 DEF EnqueueJob, batches, PointerInv
  <2>3. ASSUME UNCHANGED todo, cpc # "jobs" \/ UNCHANGED <<cpc, cur>>
        PROVE  \A s \in todo' : cpc' = "jobs" /\ cur'[s] # 0
    BY <1>3, <2>3 DEF PointerInv
  <2>4. CASE TickDone
    BY <2>4 DEF TickDone, tick
  <2>. QED
    BY <2>1, <2>2, <2>3, <2>4, FlushFrame
       DEF Next, Tick, Publish, PopJob, QueueRow, QueueFreedRow, HmsetThrows, Exec, Expire,
          StrayWrite, compute, batches, tick, publisher, output, FlushDone
<1>6. (\A n \in 1 .. Len(jobs) : jobs[n].batch \in 1 .. Len(heap))'
  <2>1. ASSUME NEW s \in Slices, EnqueueJob(s), WriteAvailable
        PROVE  \A n \in 1 .. Len(jobs') : jobs'[n].batch \in 1 .. Len(heap')
    <3> DEFINE new == [batch |-> cur[s], slice |-> s, seqno |-> seqno,
                       greeks |-> GreeksOf(s)]
    <3>1. new \in Jobs /\ new.batch \in 1 .. Len(heap)
      BY <2>1, JobTyped DEF EnqueueJob
    <3>2. jobs' = Append(jobs, new) /\ UNCHANGED heap
      BY <2>1 DEF EnqueueJob, batches
    <3>. HIDE DEF new
    <3>. QED
      BY <1>2, <1>3, <3>1, <3>2, AppendProperties DEF PointerInv
  <2>2. CASE PopJob
    BY <1>2, <1>3, <2>2, HeadTailProperties DEF PopJob, compute, batches, PointerInv
  <2>3. ASSUME UNCHANGED jobs
        PROVE  \A n \in 1 .. Len(jobs') : jobs'[n].batch \in 1 .. Len(heap')
    BY <1>1, <1>3, <2>3 DEF PointerInv
  <2>. QED
    BY <2>1, <2>2, <2>3, FlushFrame
       DEF Next, Tick, Publish, ProcessTick, EnqueueJob, TickDone, QueueRow, QueueFreedRow,
          HmsetThrows, Exec, Expire, StrayWrite, compute, tick, publisher, output, FlushDone
<1>7. (ppc = "rows" => job.batch \in 1 .. Len(heap))'
  <2>1. CASE PopJob
    <3>1. Head(jobs).batch \in 1 .. Len(heap)
      BY <1>2, <1>3, <2>1 DEF PopJob, PointerInv
    <3>. QED
      BY <1>3, <2>1, <3>1 DEF PopJob, compute, batches, PointerInv
  <2>2. ASSUME UNCHANGED job, ppc' = "rows" => ppc = "rows"
        PROVE  ppc' = "rows" => job'.batch \in 1 .. Len(heap')
    BY <1>1, <1>3, <2>2 DEF PointerInv
  <2>3. CASE Exec
    BY <2>3 DEF Exec
  <2>. QED
    BY <2>1, <2>2, <2>3, FlushFrame
       DEF Next, Tick, Publish, ProcessTick, EnqueueJob, TickDone, QueueRow, QueueFreedRow,
          HmsetThrows, Expire, StrayWrite, compute, tick, publisher, output, FlushDone
<1>. QED
  BY <1>4, <1>5, <1>6, <1>7 DEF PointerInv

LEMMA StepIInv ==
  ASSUME IInv, [Next]_vars
  PROVE  IInv'
<1>1. CASE Next
  BY <1>1, ComputeTypes, MemoryTypes, QueueTypes, PublisherTypes, RedisTypes,
     StepPointerInv DEF IInv, TypeOK
<1>2. CASE UNCHANGED vars
  BY <1>2 DEF vars, compute, registry, batches, tick, publisher, output, IInv, TypeOK, ComputeOK, MemoryOK, QueueOK,
              PublisherOK, RedisOK, PointerInv
<1>. QED
  BY <1>1, <1>2

(***************************************************************************)
(* The type invariant: whatever the two threads and Redis do, the queue    *)
(* and every job and row in it stay within their types and bounds.         *)
(***************************************************************************)
THEOREM TypeCorrect == Spec => []TypeOK
<1>1. IInv => TypeOK
  BY DEF IInv
<1>. QED
  BY <1>1, InitIInv, StepIInv, PTL DEF Spec

-----------------------------------------------------------------------------
(* Rows and time.                                                           *)

LEMMA InitRInv == Init => RInv
BY InitIInv DEF Init, RInv, JobInv, PipelineInv, RowsInv

\* The newest sequence number taken for a slice never decreases.
LEMMA LatestGrows ==
  ASSUME IInv, Next
  PROVE  \A s \in Slices : latest'[s] >= latest[s]
<1>. latest \in [Slices -> Seqnos] /\ \A s \in Slices : latest[s] \in Nat
  BY DEF IInv, TypeOK, PublisherOK
<1>1. CASE PopJob
  <2>1. Head(jobs) \in Jobs
    BY <1>1, HeadTailProperties DEF PopJob, IInv, TypeOK, QueueOK
  <2>2. CASE IsNewer(Head(jobs))
    <3>1. latest' = [latest EXCEPT ![Head(jobs).slice] = Head(jobs).seqno]
      BY <1>1, <2>2 DEF PopJob
    <3>2. Head(jobs).seqno > latest[Head(jobs).slice] /\ Head(jobs).seqno \in Nat
      BY <2>1, <2>2 DEF IsNewer, Jobs
    <3>. QED
      BY <3>1, <3>2
  <2>3. CASE ~IsNewer(Head(jobs))
    BY <1>1, <2>3 DEF PopJob
  <2>. QED
    BY <2>2, <2>3
<1>2. CASE UNCHANGED latest
  BY <1>2
<1>. QED
  BY <1>1, <1>2, FlushFrame
     DEF Next, Tick, Publish, ProcessTick, EnqueueJob, TickDone, QueueRow, QueueFreedRow,
        HmsetThrows, Exec, Expire, StrayWrite, compute, tick, publisher, output, FlushDone

\* The job under way stays the newest of its slice, and writes only its keys.
LEMMA StepJobInv ==
  ASSUME IInv, JobInv, PipelineInv, Next
  PROVE  JobInv' /\ PipelineInv'
<1>. PublisherOK
  BY DEF IInv, TypeOK
<1>. Len(pipeline) \in Nat
  BY LenProperties DEF PublisherOK
<1>1. CASE PopJob
  <2>1. Head(jobs) \in Jobs
    BY <1>1, HeadTailProperties DEF PopJob, IInv, TypeOK, QueueOK
  <2>2. CASE IsNewer(Head(jobs))
    <3>1. job' = Head(jobs) /\ latest' = [latest EXCEPT ![Head(jobs).slice] = Head(jobs).seqno]
      BY <1>1, <2>2 DEF PopJob
    <3>2. latest'[job'.slice] = job'.seqno
      BY <2>1, <3>1 DEF PublisherOK, Jobs
    <3>3. pipeline' = <<>> /\ ppc' = "rows"
      BY <1>1, <2>2 DEF PopJob, PipelineInv
    <3>. QED
      BY <3>2, <3>3, EmptySeq DEF JobInv, PipelineInv
  <2>3. CASE ~IsNewer(Head(jobs))
    BY <1>1, <2>3 DEF PopJob, JobInv, PipelineInv
  <2>. QED
    BY <2>2, <2>3
<1>2. ASSUME ppc = "rows", NEW cell \in Cells, pipeline' = Append(pipeline, Row(cell)),
             UNCHANGED <<ppc, job, latest>>
      PROVE  JobInv' /\ PipelineInv'
  <2>1. Row(cell) \in [key : Keys, of : Results]
    BY <1>2, RowTyped
  <2>2. Row(cell).key[1] = DateOf[job.slice]
    BY DEF Row
  <2>3. \A p \in 1 .. Len(pipeline') : pipeline'[p].key[1] = DateOf[job.slice]
    <3> DEFINE new == Row(cell)
    <3>. HIDE DEF new
    <3>. QED
      BY <1>2, <2>1, <2>2, AppendProperties DEF JobInv, PublisherOK
  <2>. QED
    BY <1>2, <2>3 DEF JobInv, PipelineInv
<1>3. CASE QueueRow
  <2>1. job.batch \in 1 .. Len(heap) /\ heap \in Seq(Batches)
    BY <1>3 DEF QueueRow, IInv, PointerInv, TypeOK, MemoryOK
  <2>2. heap[job.batch] \in Batches
    BY <2>1, ElementOfSeq
  <2>3. heap[job.batch].slots[i] \in Cells
    BY <1>3, <2>2, ElementOfSeq, LenProperties DEF QueueRow, PublisherOK, Batches
  <2>. QED
    BY <1>2, <1>3, <2>3 DEF QueueRow
<1>4. CASE QueueFreedRow
  BY <1>2, <1>4 DEF QueueFreedRow, JobInv, PipelineInv
<1>5. CASE Exec
  BY <1>5 DEF Exec, JobInv, PipelineInv
<1>6. CASE UNCHANGED <<ppc, job, pipeline, latest>>
  BY <1>6 DEF JobInv, PipelineInv
<1>7. CASE HmsetThrows
  BY <1>7 DEF HmsetThrows, JobInv, PipelineInv
<1>8. CASE StrayWrite
  BY <1>8 DEF StrayWrite, JobInv, PipelineInv
<1>. QED
  BY <1>1, <1>3, <1>4, <1>5, <1>6, <1>7, <1>8, FlushFrame
     DEF Next, Tick, Publish, ProcessTick, EnqueueJob, TickDone, Expire, compute,
        tick, publisher, output, FlushDone

\* Executing a pipeline, however much of it, moves rows only forward.
LEMMA ExecMovesForward ==
  ASSUME DistinctDates, RInv, ppc = "rows", NEW n \in 0 .. Len(pipeline),
         NEW k \in DOMAIN Applied(n)
  PROVE  /\ \A s \in Slices : k[1] = DateOf[s] => Applied(n)[k].seqno <= latest[s]
         /\ k \in DOMAIN rows => Applied(n)[k].seqno >= rows[k].seqno
<1>. PublisherOK /\ RedisOK /\ job \in Jobs
  BY DEF RInv, IInv, TypeOK, PublisherOK
<1>1. job.seqno \in Nat /\ job.slice \in Slices /\ latest[job.slice] = job.seqno
  BY DEF Jobs, RInv, JobInv
<1>2. \A s \in Slices : k \in DOMAIN rows /\ k[1] = DateOf[s] => rows[k].seqno <= latest[s]
  BY DEF RInv, RowsInv
<1>3. k \in DOMAIN rows => rows[k].seqno \in Nat
  BY DEF RedisOK
<1>4. CASE \E p \in 1 .. Len(pipeline) :
             /\ k = pipeline[p].key
             /\ Applied(n)[k] = [seqno |-> job.seqno, of |-> pipeline[p].of]
  <2>1. k[1] = DateOf[job.slice] /\ Applied(n)[k].seqno = job.seqno
    BY <1>4 DEF RInv, JobInv
  <2>2. \A s \in Slices : k[1] = DateOf[s] => s = job.slice
    BY <1>1, <2>1 DEF DistinctDates
  <2>. QED
    BY <1>1, <1>2, <1>3, <2>1, <2>2
<1>5. CASE k \in DOMAIN rows /\ Applied(n)[k] = rows[k]
  BY <1>2, <1>3, <1>5
<1>. QED
  BY <1>4, <1>5, AppliedRows

LEMMA StepRowsInv ==
  ASSUME DistinctDates, RInv, Next
  PROVE  /\ RowsInv'
         /\ \A k \in DOMAIN rows \cap DOMAIN rows' : rows'[k].seqno >= rows[k].seqno
<1>. RowsInv /\ RedisOK /\ \A k \in DOMAIN rows : rows[k].seqno \in Nat
  BY DEF RInv, IInv, TypeOK, RedisOK
<1>1. CASE Exec
  <2>1. PICK n \in 0 .. Len(pipeline) : rows' = Applied(n)
    BY <1>1 DEF Exec
  <2>. QED
    BY <1>1, <2>1, ExecMovesForward DEF Exec, RowsInv
<1>2. ASSUME NEW x \in DOMAIN rows, Expire(x)
      PROVE  /\ RowsInv'
             /\ \A k \in DOMAIN rows \cap DOMAIN rows' : rows'[k].seqno >= rows[k].seqno
  BY <1>2 DEF Expire, Restrict, RowsInv, publisher
<1>3. ASSUME UNCHANGED rows
      PROVE  /\ RowsInv'
             /\ \A k \in DOMAIN rows \cap DOMAIN rows' : rows'[k].seqno >= rows[k].seqno
  <2>1. \A s \in Slices : latest[s] \in Nat /\ latest'[s] \in Nat /\ latest'[s] >= latest[s]
    BY LatestGrows, PublisherTypes DEF RInv, IInv, TypeOK, PublisherOK
  <2>. QED
    BY <1>3, <2>1 DEF RowsInv
<1>. QED
  BY <1>1, <1>2, <1>3, FlushFrame
     DEF Next, Tick, Publish, ProcessTick, EnqueueJob, TickDone, PopJob, QueueRow,
        QueueFreedRow, HmsetThrows, StrayWrite, compute, tick, publisher, output, FlushDone

LEMMA StepRInv ==
  ASSUME DistinctDates, RInv, [Next]_vars
  PROVE  RInv'
<1>1. IInv'
  BY StepIInv DEF RInv
<1>2. CASE Next
  BY <1>1, <1>2, StepJobInv, StepRowsInv DEF RInv
<1>3. CASE UNCHANGED vars
  BY <1>1, <1>3 DEF vars, publisher, output, RInv, JobInv, PipelineInv, RowsInv
<1>. QED
  BY <1>2, <1>3

(***************************************************************************)
(* If no two slices share a date, a row is only ever overwritten by a      *)
(* later tick: for every queue size, however many jobs were dropped,       *)
(* however much of each pipeline Redis applied, when the sequence number   *)
(* wraps around, and whatever a publisher reads from a freed batch.        *)
(***************************************************************************)
THEOREM RowsNeverGoBackThm ==
  ASSUME DistinctDates
  PROVE  Spec => RowsNeverGoBack
<1>1. ASSUME RInv, [Next]_vars
      PROVE  [\A k \in DOMAIN rows \cap DOMAIN rows' : rows'[k].seqno >= rows[k].seqno]_rows
  <2>1. CASE Next
    BY <1>1, <2>1, StepRowsInv
  <2>2. CASE UNCHANGED vars
    BY <2>2 DEF vars, output
  <2>. QED
    BY <1>1, <2>1, <2>2
<1>. QED
  BY <1>1, InitRInv, StepRInv, PTL DEF Spec, RowsNeverGoBack

-----------------------------------------------------------------------------
(* Rows and contracts.                                                      *)

(***************************************************************************)
(* The slots of a batch only grow, and only the last one of the batch that *)
(* a contract is being appended to is still to be written.  So a job that  *)
(* was built earlier has the results of the slots it points to, as far as  *)
(* they go, and of none that is still to be written.                       *)
(***************************************************************************)
Copied(j) ==
  \A n \in DOMAIN j.greeks :
    /\ n \in 1 .. Len(heap[j.batch].slots)
    /\ j.greeks[n] = <<j.slice, heap[j.batch].slots[n]>>
    /\ cpc = "append" /\ j.batch = cur[slot[1]] => n < Len(heap[j.batch].slots)

CopyInv ==
  /\ cpc = "append" => Len(heap[cur[slot[1]]].slots) >= 1
  /\ \A n \in 1 .. Len(jobs) : Copied(jobs[n])
  /\ ppc = "rows" => Copied(job)

\* The result, if there is one, is that of the contract in the key.
Matches(key, of) == of = Zero \/ (of[2] = key[2] /\ DateOf[of[1]] = key[1])

MatchInv ==
  ~freed =>
    /\ \A p \in 1 .. Len(pipeline) : Matches(pipeline[p].key, pipeline[p].of)
    /\ \A k \in DOMAIN rows : Matches(k, rows[k].of)

CInv == IInv /\ CopyInv /\ MatchInv

LEMMA AppendFacts ==
  ASSUME NEW S, NEW q \in Seq(S), NEW e \in S
  PROVE  /\ Append(q, e) \in Seq(S) /\ Len(q) \in Nat
         /\ Len(Append(q, e)) = Len(q) + 1 /\ Append(q, e)[Len(q) + 1] = e
         /\ \A n \in 1 .. Len(q) : Append(q, e)[n] = q[n]
OBVIOUS

\* What each action that writes to batches does to them.
LEMMA OneBatch ==
  ASSUME IInv, NEW b \in 1 .. Len(heap), NEW e \in Batches, heap' = [heap EXCEPT ![b] = e]
  PROVE  /\ Len(heap') = Len(heap) /\ heap'[b] = e
         /\ \A a \in 1 .. Len(heap) : a # b => heap'[a] = heap[a]
<1>. heap \in Seq(Batches) /\ Len(heap) \in Nat
  BY LenProperties DEF IInv, TypeOK, MemoryOK
<1>. QED
  BY ExceptSeq, LenProperties

LEMMA HeapTyped ==
  ASSUME IInv
  PROVE  /\ Len(heap) \in Nat /\ cur \in [Slices -> 0 .. Len(heap)]
         /\ \A b \in 1 .. Len(heap) : heap[b] \in Batches
<1>. heap \in Seq(Batches) /\ cur \in [Slices -> 0 .. Len(heap)]
  BY DEF IInv, TypeOK, MemoryOK
<1>. QED
  BY LenProperties, ElementOfSeq

LEMMA RetireHeap ==
  ASSUME IInv, NEW s \in Slices, NEW t \in Slices, RetireSlice(s, t)
  PROVE  /\ Len(heap') = Len(heap)
         /\ \A b \in 1 .. Len(heap) :
              heap'[b].slots = heap[b].slots /\ heap'[b].slice = heap[b].slice
<1> DEFINE e == [heap[cur[t]] EXCEPT !.live = FALSE]
<1>1. cur[t] \in 1 .. Len(heap) /\ heap[cur[t]] \in Batches
  BY HeapTyped DEF RetireSlice
<1>2. e \in Batches /\ e.slots = heap[cur[t]].slots /\ e.slice = heap[cur[t]].slice
  BY <1>1 DEF Batches
<1>3. heap' = [heap EXCEPT ![cur[t]] = e]
  BY DEF RetireSlice
<1>. HIDE DEF e
<1>4. /\ Len(heap') = Len(heap) /\ heap'[cur[t]] = e
      /\ \A a \in 1 .. Len(heap) : a # cur[t] => heap'[a] = heap[a]
  BY <1>1, <1>2, <1>3, OneBatch
<1>. QED
  BY <1>2, <1>4

LEMMA BuildHeap ==
  ASSUME IInv, NEW s \in Slices, NEW c \in Contracts, BuildBatch(s, c)
  PROVE  /\ Len(heap') = Len(heap) + 1 /\ heap'[Len(heap) + 1] = NewBatch(s)
         /\ \A b \in 1 .. Len(heap) :
              heap'[b].slots = heap[b].slots /\ heap'[b].slice = heap[b].slice
<1> DEFINE kept(b) == IF b = cur[s] THEN [heap[b] EXCEPT !.live = FALSE] ELSE heap[b]
           rest == [b \in 1 .. Len(heap) |-> kept(b)]
           new == NewBatch(s)
<1>1. heap \in Seq(Batches) /\ Len(heap) \in Nat /\ DOMAIN heap = 1 .. Len(heap)
  BY LenProperties DEF IInv, TypeOK, MemoryOK
<1>2. \A b \in 1 .. Len(heap) : heap[b] \in Batches
  BY HeapTyped
<1>3. \A b \in 1 .. Len(heap) :
        kept(b) \in Batches /\ kept(b).slots = heap[b].slots /\ kept(b).slice = heap[b].slice
  BY <1>2 DEF Batches
<1>4. rest \in Seq(Batches) /\ Len(rest) = Len(heap)
  <2>. HIDE DEF kept
  <2>1. rest \in Seq(Batches)
    BY <1>1, <1>3, IsASeq
  <2>. QED
    BY <1>1, <2>1, LenProperties
<1>5. heap' = Append(rest, new)
  BY <1>1 DEF BuildBatch
<1>6. /\ Len(heap') = Len(heap) + 1 /\ heap'[Len(heap) + 1] = new
      /\ \A b \in 1 .. Len(heap) : heap'[b] = rest[b]
  <2>1. new \in Batches
    BY NewBatchTyped
  <2>2. /\ Len(Append(rest, new)) = Len(rest) + 1 /\ Append(rest, new)[Len(rest) + 1] = new
        /\ \A b \in 1 .. Len(rest) : Append(rest, new)[b] = rest[b]
    <3>. HIDE DEF rest, new
    <3>. QED
      BY <1>4, <2>1, AppendFacts
  <2>. QED
    BY ONLY <1>4, <1>5, <2>2
<1>7. \A b \in 1 .. Len(heap) : rest[b] = kept(b)
  OBVIOUS
<1>. HIDE DEF kept, rest
<1>. QED
  BY <1>3, <1>6, <1>7

LEMMA BeginAppendHeap ==
  ASSUME IInv, NEW s \in Slices, NEW c \in Contracts, BeginAppend(s, c)
  PROVE  /\ Len(heap') = Len(heap) /\ cur[s] \in 1 .. Len(heap)
         /\ heap'[cur[s]].slots = Append(heap[cur[s]].slots, Blank)
         /\ heap'[cur[s]].slice = heap[cur[s]].slice
         /\ \A b \in 1 .. Len(heap) : b # cur[s] => heap'[b] = heap[b]
<1> DEFINE e == WithBlankSlot(heap[cur[s]])
<1>1. cur[s] \in 1 .. Len(heap) /\ heap[cur[s]] \in Batches
  BY HeapTyped DEF BeginAppend
<1>2. /\ e \in Batches /\ e.slots = Append(heap[cur[s]].slots, Blank)
      /\ e.slice = heap[cur[s]].slice
  BY <1>1, BlankSlotTyped
<1>3. heap' = [heap EXCEPT ![cur[s]] = e]
  BY DEF BeginAppend
<1>. HIDE DEF e
<1>4. /\ Len(heap') = Len(heap) /\ heap'[cur[s]] = e
      /\ \A a \in 1 .. Len(heap) : a # cur[s] => heap'[a] = heap[a]
  BY <1>1, <1>2, <1>3, OneBatch
<1>. QED
  BY <1>1, <1>2, <1>4

LEMMA AppendPastEndHeap ==
  ASSUME IInv, NEW s \in Slices, NEW c \in Contracts, AppendPastEnd(s, c)
  PROVE  /\ Len(heap') = Len(heap)
         /\ \A b \in 1 .. Len(heap) :
              heap'[b].slots = heap[b].slots /\ heap'[b].slice = heap[b].slice
<1> DEFINE e == [heap[cur[s]] EXCEPT !.room = @ - 1]
<1>1. cur[s] \in 1 .. Len(heap) /\ heap[cur[s]] \in Batches
  BY HeapTyped DEF AppendPastEnd
<1>2. e \in Batches /\ e.slots = heap[cur[s]].slots /\ e.slice = heap[cur[s]].slice
  <2>1. PICK n : n = heap[cur[s]].room - 1
    OBVIOUS
  <2>2. n \in Int
    BY <1>1, <2>1, RoomOfOneLess
  <2>. QED
    BY <1>1, <2>1, <2>2, OtherRoom
<1>3. heap' = [heap EXCEPT ![cur[s]] = e]
  BY DEF AppendPastEnd
<1>. HIDE DEF e
<1>4. /\ Len(heap') = Len(heap) /\ heap'[cur[s]] = e
      /\ \A a \in 1 .. Len(heap) : a # cur[s] => heap'[a] = heap[a]
  BY <1>1, <1>2, <1>3, OneBatch
<1>. QED
  BY <1>2, <1>4

LEMMA EndAppendHeap ==
  ASSUME IInv, EndAppend
  PROVE  /\ Len(heap') = Len(heap) /\ cur[slot[1]] \in 1 .. Len(heap) /\ slot \in Priced
         /\ LET old == heap[cur[slot[1]]].slots
                new == heap'[cur[slot[1]]].slots
            IN /\ Len(new) = Len(old)
               /\ \A n \in 1 .. Len(old) : new[n] = IF n = Len(old) THEN slot[2] ELSE old[n]
         /\ heap'[cur[slot[1]]].slice = heap[cur[slot[1]]].slice
         /\ \A b \in 1 .. Len(heap) : b # cur[slot[1]] => heap'[b] = heap[b]
<1> DEFINE b == cur[slot[1]]
           old == heap[b].slots
           new == [old EXCEPT ![Len(old)] = slot[2]]
           e == [heap[b] EXCEPT !.slots = new]
<1>1. slot \in Priced /\ slot[1] \in Slices /\ slot[2] \in Cells
  BY DEF EndAppend, IInv, PointerInv, Priced, Cells
<1>2. b \in 1 .. Len(heap)
  BY <1>1, HeapTyped DEF EndAppend, IInv, PointerInv
<1>3. heap[b] \in Batches /\ old \in Seq(Cells)
  <2>1. heap[b] \in Batches
    BY <1>2, HeapTyped
  <2>. QED
    BY <2>1 DEF Batches
<1>4. new \in Seq(Cells) /\ Len(new) = Len(old)
      /\ \A n \in 1 .. Len(old) : new[n] = IF n = Len(old) THEN slot[2] ELSE old[n]
  <2>1. old \in Seq(Cells) /\ Len(old) \in Nat /\ DOMAIN old = 1 .. Len(old)
    BY <1>3, LenProperties
  <2> DEFINE x == slot[2]
  <2>2. x \in Cells
    BY <1>1
  <2>. HIDE DEF old, x
  <2>3. [old EXCEPT ![Len(old)] = x] \in Seq(Cells)
    BY <2>1, <2>2, ExceptAny
  <2>4. Len([old EXCEPT ![Len(old)] = x]) = Len(old)
    BY <2>1, <2>3, LenProperties
  <2>. QED
    BY <2>1, <2>3, <2>4 DEF x
<1>5. heap' = [heap EXCEPT ![b] = e]
  BY DEF EndAppend, LastSlot
<1>6. e \in Batches /\ e.slots = new /\ e.slice = heap[b].slice
  <2>. HIDE DEF new
  <2>. QED
    BY <1>3, <1>4 DEF Batches
<1>7. /\ Len(heap') = Len(heap) /\ heap'[b] = e
      /\ \A a \in 1 .. Len(heap) : a # b => heap'[a] = heap[a]
  <2>. HIDE DEF b, e
  <2>. QED
    BY <1>2, <1>5, <1>6, OneBatch
<1>. HIDE DEF e, new
<1>. QED
  BY <1>1, <1>2, <1>4, <1>6, <1>7

\* The copies in a job stay true to the batch it points to.
LEMMA CopiedStep ==
  ASSUME CInv, Next, NEW j \in Jobs, j.batch \in 1 .. Len(heap), Copied(j)
  PROVE  Copied(j)'
<1> DEFINE b == j.batch
<1>. Len(heap) \in Nat /\ heap[b] \in Batches /\ Len(heap[b].slots) \in Nat
  <2>1. heap \in Seq(Batches)
    BY DEF CInv, IInv, TypeOK, MemoryOK
  <2>2. heap[b] \in Batches
    BY <2>1, ElementOfSeq
  <2>. QED
    BY <2>1, <2>2, LenProperties DEF Batches
<1>1. ASSUME UNCHANGED heap[b].slots, cpc' # "append" PROVE Copied(j)'
  BY <1>1 DEF Copied
<1>2. ASSUME NEW s \in Slices, NEW c \in Contracts,
             BuildBatch(s, c) \/ AppendPastEnd(s, c)
      PROVE  Copied(j)'
  <2>1. heap'[b].slots = heap[b].slots
    BY <1>2, BuildHeap, AppendPastEndHeap DEF CInv
  <2>2. cpc' # "append"
    BY <1>2 DEF BuildBatch, AppendPastEnd
  <2>. QED
    BY <1>1, <2>1, <2>2
<1>3. ASSUME NEW s \in Slices, NEW c \in Contracts, BeginAppend(s, c) PROVE Copied(j)'
  <2>1. CASE b = cur[s]
    <3>1. heap'[b].slots = Append(heap[b].slots, Blank)
      BY <1>3, <2>1, BeginAppendHeap DEF CInv
    <3>2. /\ Len(heap'[b].slots) = Len(heap[b].slots) + 1
          /\ \A n \in 1 .. Len(heap[b].slots) : heap'[b].slots[n] = heap[b].slots[n]
      <4> DEFINE q == heap[b].slots
      <4>1. q \in Seq(Cells)
        BY DEF Batches
      <4>. HIDE DEF q
      <4>2. /\ Len(Append(q, Blank)) = Len(q) + 1
            /\ \A n \in 1 .. Len(q) : Append(q, Blank)[n] = q[n]
        BY <4>1, AppendFacts DEF Cells
      <4>. QED
        BY <3>1, <4>2 DEF q
    <3>3. ASSUME NEW n \in DOMAIN j.greeks
          PROVE  /\ n \in 1 .. Len(heap'[b].slots) /\ n < Len(heap'[b].slots)
                 /\ j.greeks[n] = <<j.slice, heap'[b].slots[n]>>
      <4>1. n \in 1 .. Len(heap[b].slots) /\ j.greeks[n] = <<j.slice, heap[b].slots[n]>>
        BY DEF Copied
      <4>2. heap'[b].slots[n] = heap[b].slots[n]
        BY <3>2, <4>1
      <4>3. n \in 1 .. Len(heap'[b].slots) /\ n < Len(heap'[b].slots)
        BY <3>2, <4>1
      <4>. QED
        BY <4>1, <4>2, <4>3
    <3>. QED
      BY <3>3 DEF Copied
  <2>2. CASE b # cur[s]
    <3>1. heap'[b] = heap[b] /\ slot'[1] = s /\ cur' = cur
      BY <1>3, <2>2, BeginAppendHeap DEF CInv, BeginAppend
    <3>. QED
      BY <2>2, <3>1 DEF Copied
  <2>. QED
    BY <2>1, <2>2
<1>4. CASE EndAppend
  <2>0. cpc = "append" /\ cpc' = "place"
    BY <1>4 DEF EndAppend
  <2>1. CASE b = cur[slot[1]]
    <3>1. /\ Len(heap'[b].slots) = Len(heap[b].slots)
          /\ \A n \in 1 .. Len(heap[b].slots) :
               n < Len(heap[b].slots) => heap'[b].slots[n] = heap[b].slots[n]
      BY <1>4, <2>1, EndAppendHeap DEF CInv
    <3>2. ASSUME NEW n \in DOMAIN j.greeks
          PROVE  /\ n \in 1 .. Len(heap'[b].slots)
                 /\ j.greeks[n] = <<j.slice, heap'[b].slots[n]>>
      <4>1. /\ n \in 1 .. Len(heap[b].slots) /\ n < Len(heap[b].slots)
            /\ j.greeks[n] = <<j.slice, heap[b].slots[n]>>
        BY <2>0, <2>1 DEF Copied
      <4>2. heap'[b].slots[n] = heap[b].slots[n]
        BY <3>1, <4>1
      <4>. QED
        BY <3>1, <4>1, <4>2
    <3>. QED
      BY <2>0, <3>2 DEF Copied
  <2>2. CASE b # cur[slot[1]]
    <3>1. heap'[b] = heap[b]
      BY <1>4, <2>2, EndAppendHeap DEF CInv
    <3>. QED
      BY <2>0, <3>1 DEF Copied
  <2>. QED
    BY <2>1, <2>2
<1>5. ASSUME UNCHANGED <<heap, cur, slot>>, cpc = "append" <=> cpc' = "append"
      PROVE  Copied(j)'
  BY <1>5 DEF Copied
<1>6. ASSUME NEW s \in Slices, NEW t \in Slices, RetireSlice(s, t) PROVE Copied(j)'
  <2>1. heap'[b].slots = heap[b].slots
    BY <1>6, RetireHeap DEF CInv
  <2>. QED
    BY <1>1, <1>6, <2>1 DEF RetireSlice, Expired
<1>. QED
  BY <1>2, <1>3, <1>4, <1>5, <1>6, HeapStep

\* Where the jobs of a step come from.
LEMMA JobsStep ==
  ASSUME IInv, Next
  PROVE  /\ \A n \in 1 .. Len(jobs') :
              \/ \E m \in 1 .. Len(jobs) : jobs'[n] = jobs[m]
              \/ \E s \in todo :
                   /\ EnqueueJob(s)
                   /\ jobs'[n] = [batch |-> cur[s], slice |-> s, seqno |-> seqno, greeks |-> GreeksOf(s)]
         /\ ppc' = "rows" =>
              \/ ppc = "rows" /\ job' = job
              \/ 1 \in 1 .. Len(jobs) /\ job' = jobs[1]
<1>. jobs \in Seq(Jobs) /\ Len(jobs) \in Nat
  BY LenProperties DEF IInv, TypeOK, QueueOK
<1>1. ASSUME NEW s \in Slices, EnqueueJob(s), WriteAvailable, NEW n \in 1 .. Len(jobs')
      PROVE  \/ \E m \in 1 .. Len(jobs) : jobs'[n] = jobs[m]
             \/ jobs'[n] = [batch |-> cur[s], slice |-> s, seqno |-> seqno, greeks |-> GreeksOf(s)]
  <2> DEFINE new == [batch |-> cur[s], slice |-> s, seqno |-> seqno, greeks |-> GreeksOf(s)]
  <2>1. new \in Jobs /\ jobs' = Append(jobs, new)
    BY <1>1, JobTyped DEF EnqueueJob
  <2>2. (\E m \in 1 .. Len(jobs) : jobs'[n] = jobs[m]) \/ jobs'[n] = new
    <3>. HIDE DEF new
    <3>. QED
      BY <1>1, <2>1, AppendFacts
  <2>. QED
    BY <2>2
<1>2. ASSUME PopJob, NEW n \in 1 .. Len(jobs')
      PROVE  \E m \in 1 .. Len(jobs) : jobs'[n] = jobs[m]
  <2>1. Len(jobs') = Len(jobs) - 1 /\ jobs'[n] = jobs[n + 1]
    BY <1>2, HeadTailProperties DEF PopJob
  <2>. QED
    BY <2>1
<1>3. ASSUME PopJob, ppc' = "rows"
      PROVE  1 \in 1 .. Len(jobs) /\ job' = jobs[1]
  BY <1>3 DEF PopJob
<1>4. ASSUME UNCHANGED jobs, NEW n \in 1 .. Len(jobs')
      PROVE  \E m \in 1 .. Len(jobs) : jobs'[n] = jobs[m]
  BY <1>4
<1>5. \/ \E s \in Slices : EnqueueJob(s) /\ s \in todo /\ (WriteAvailable \/ UNCHANGED jobs)
      \/ PopJob \/ UNCHANGED jobs
  BY FlushFrame
     DEF Next, Tick, Publish, ProcessTick, EnqueueJob, TickDone, QueueRow, QueueFreedRow,
        HmsetThrows, Exec, Expire, StrayWrite, compute, tick, publisher, output, FlushDone
<1>6. PopJob \/ (ppc' = "rows" => ppc = "rows" /\ job' = job)
  BY FlushFrame
     DEF Next, Tick, Publish, ProcessTick, EnqueueJob, TickDone, QueueRow, QueueFreedRow,
        HmsetThrows, Exec, Expire, StrayWrite, compute, tick, publisher, output, FlushDone
<1>. QED
  BY <1>1, <1>2, <1>3, <1>4, <1>5, <1>6

LEMMA StepCopyInv ==
  ASSUME CInv, Next
  PROVE  CopyInv'
<1>. IInv /\ CopyInv
  BY DEF CInv
<1>. jobs \in Seq(Jobs) /\ Len(jobs) \in Nat /\ Len(heap) \in Nat
  BY LenProperties DEF IInv, TypeOK, QueueOK, MemoryOK
<1>1. (cpc = "append" => Len(heap[cur[slot[1]]].slots) >= 1)'
  <2>1. ASSUME NEW s \in Slices, NEW c \in Contracts, BeginAppend(s, c)
        PROVE  Len(heap'[cur'[slot'[1]]].slots) >= 1
    <3>1. slot'[1] = s /\ cur' = cur /\ cur[s] \in 1 .. Len(heap)
      BY <2>1, BeginAppendHeap DEF BeginAppend
    <3> DEFINE q == heap[cur[s]].slots
    <3>2. heap'[cur[s]].slots = Append(q, Blank)
      BY <2>1, BeginAppendHeap
    <3>3. q \in Seq(Cells)
      <4>1. heap[cur[s]] \in Batches
        BY <3>1, ElementOfSeq DEF IInv, TypeOK, MemoryOK
      <4>. QED
        BY <4>1 DEF Batches
    <3>4. Len(Append(q, Blank)) >= 1
      <4>. HIDE DEF q
      <4>. QED
        BY <3>3, AppendFacts DEF Cells
    <3>. QED
      BY <3>1, <3>2, <3>4
  <2>. QED
    BY <2>1, HeapStep DEF CopyInv, RetireSlice, Expired, BuildBatch, AppendPastEnd, EndAppend
<1>2. \A n \in 1 .. Len(jobs') : \E j : j = jobs'[n] /\ Copied(j)'
  <2> SUFFICES ASSUME NEW n \in 1 .. Len(jobs')
               PROVE  \E j : j = jobs'[n] /\ Copied(j)'
    OBVIOUS
  <2>1. ASSUME NEW m \in 1 .. Len(jobs), jobs'[n] = jobs[m]
        PROVE  \E j : j = jobs'[n] /\ Copied(j)'
    <3>1. PICK j : j = jobs[m]
      OBVIOUS
    <3>2. j \in Jobs /\ j.batch \in 1 .. Len(heap) /\ Copied(j)
      BY <3>1, ElementOfSeq DEF IInv, PointerInv, CopyInv
    <3>3. Copied(j)'
      BY <3>2, CopiedStep
    <3>. QED
      BY <2>1, <3>1, <3>3
  <2>2. ASSUME NEW s \in todo, EnqueueJob(s),
               jobs'[n] = [batch |-> cur[s], slice |-> s, seqno |-> seqno, greeks |-> GreeksOf(s)]
        PROVE  \E j : j = jobs'[n] /\ Copied(j)'
    <3>1. PICK j : j = jobs'[n]
      OBVIOUS
    <3>2. /\ j.batch = cur[s] /\ j.slice = s
          /\ j.greeks = [x \in DOMAIN heap[cur[s]].slots |-> <<s, heap[cur[s]].slots[x]>>]
      BY <2>2, <3>1 DEF GreeksOf
    <3>3. DOMAIN heap[cur[s]].slots = 1 .. Len(heap[cur[s]].slots)
      <4>1. cur[s] \in 1 .. Len(heap)
        BY JobTyped
      <4>2. heap[cur[s]] \in Batches
        BY <4>1, ElementOfSeq DEF IInv, TypeOK, MemoryOK
      <4>. QED
        BY <4>2, LenProperties DEF Batches
    <3>4. UNCHANGED <<heap, cur>> /\ cpc' = "jobs"
      BY <2>2 DEF EnqueueJob, batches
    <3>5. Copied(j)'
      BY <3>2, <3>3, <3>4 DEF Copied
    <3>. QED
      BY <3>1, <3>5
  <2>. QED
    BY <2>1, <2>2, JobsStep
<1>3. ppc' = "rows" => \E j : j = job' /\ Copied(j)'
  <2> SUFFICES ASSUME ppc' = "rows" PROVE \E j : j = job' /\ Copied(j)'
    OBVIOUS
  <2>1. PICK j : j = job'
    OBVIOUS
  <2>2. j \in Jobs /\ j.batch \in 1 .. Len(heap) /\ Copied(j)
    <3>1. CASE ppc = "rows" /\ job' = job
      BY <2>1, <3>1 DEF IInv, TypeOK, PublisherOK, PointerInv, CopyInv
    <3>2. CASE 1 \in 1 .. Len(jobs) /\ job' = jobs[1]
      BY <2>1, <3>2, ElementOfSeq DEF IInv, PointerInv, CopyInv
    <3>. QED
      BY <3>1, <3>2, JobsStep
  <2>. QED
    BY <2>1, <2>2, CopiedStep
<1>4. (\A n \in 1 .. Len(jobs) : Copied(jobs[n]))'
  <2> SUFFICES ASSUME NEW n \in 1 .. Len(jobs') PROVE Copied(jobs[n])'
    OBVIOUS
  <2>1. PICK j : j = jobs'[n] /\ Copied(j)'
    BY <1>2
  <2>. QED
    BY <2>1 DEF Copied
<1>5. (ppc = "rows" => Copied(job))'
  BY <1>3 DEF Copied
<1>. QED
  BY <1>1, <1>4, <1>5 DEF CopyInv

LEMMA StepMatchInv ==
  ASSUME CInv, Next
  PROVE  MatchInv'
<1>. IInv /\ CopyInv /\ MatchInv /\ PublisherOK /\ Len(pipeline) \in Nat
     /\ pipeline \in Seq([key : Keys, of : Results])
  BY LenProperties DEF CInv, IInv, TypeOK, PublisherOK
<1>1. CASE QueueRow
  <2> SUFFICES ASSUME ~freed PROVE MatchInv'
    BY <1>1 DEF QueueRow, MatchInv
  <2> DEFINE cell == heap[job.batch].slots[i]
             new == Row(cell)
  <2>1. job.batch \in 1 .. Len(heap) /\ heap \in Seq(Batches) /\ job \in Jobs
    BY <1>1 DEF QueueRow, IInv, PointerInv, TypeOK, MemoryOK, PublisherOK
  <2>2. cell \in Cells
    <3>1. heap[job.batch] \in Batches
      BY <2>1, ElementOfSeq
    <3>. QED
      BY <1>1, <3>1, ElementOfSeq, LenProperties DEF QueueRow, PublisherOK, Batches
  <2>3. new \in [key : Keys, of : Results]
    BY <1>1, <2>2, RowTyped DEF QueueRow
  <2>4. Matches(new.key, new.of)
    <3>1. i \in DOMAIN job.greeks => job.greeks[i] = <<job.slice, cell>>
      BY <1>1 DEF QueueRow, CopyInv, Copied
    <3>. HIDE DEF cell
    <3>. QED
      BY <3>1 DEF Matches, Row, ResultAt
  <2>5. \A p \in 1 .. Len(pipeline') : Matches(pipeline'[p].key, pipeline'[p].of)
    <3>1. pipeline' = Append(pipeline, new)
      BY <1>1 DEF QueueRow
    <3>. HIDE DEF new
    <3>. QED
      BY <2>3, <2>4, <3>1, AppendFacts DEF MatchInv
  <2>. QED
    BY <1>1, <2>5 DEF QueueRow, MatchInv, Matches
<1>2. CASE QueueFreedRow
  BY <1>2 DEF QueueFreedRow, MatchInv
<1>3. CASE Exec
  <2> SUFFICES ASSUME ~freed PROVE MatchInv'
    BY <1>3 DEF Exec, MatchInv
  <2>1. PICK n \in 0 .. Len(pipeline) : rows' = Applied(n)
    BY <1>3 DEF Exec
  <2>2. \A k \in DOMAIN Applied(n) : Matches(k, Applied(n)[k].of)
    BY AppliedRows DEF MatchInv
  <2>. QED
    BY <1>3, <2>1, <2>2 DEF Exec, MatchInv, Matches
<1>4. CASE HmsetThrows
  BY <1>4 DEF HmsetThrows, MatchInv, Matches
<1>5. ASSUME NEW x \in DOMAIN rows, Expire(x) PROVE MatchInv'
  BY <1>5 DEF Expire, Restrict, MatchInv, Matches, publisher
<1>6. CASE UNCHANGED <<pipeline, rows, freed>>
  BY <1>6 DEF MatchInv, Matches
<1>. QED
  BY <1>1, <1>2, <1>3, <1>4, <1>5, <1>6, FlushFrame
     DEF Next, Tick, Publish, ProcessTick, EnqueueJob, TickDone, PopJob, StrayWrite, compute,
        tick, publisher, output, FlushDone

LEMMA InitCInv == Init => CInv
<1>. SUFFICES ASSUME Init PROVE CInv
  OBVIOUS
<1>. QED
  BY InitIInv DEF Init, CInv, CopyInv, MatchInv

LEMMA StepCInv ==
  ASSUME CInv, [Next]_vars
  PROVE  CInv'
<1>1. IInv'
  BY StepIInv DEF CInv
<1>2. CASE Next
  BY <1>1, <1>2, StepCopyInv, StepMatchInv DEF CInv
<1>3. CASE UNCHANGED vars
  BY <1>1, <1>3 DEF vars, compute, batches, publisher, output, CInv, CopyInv, Copied, MatchInv, Matches
<1>. QED
  BY <1>2, <1>3

(***************************************************************************)
(* The publisher pairs the slots it reads through a pointer with greeks    *)
(* that were copied at another time, while the compute thread appends to   *)
(* the batch; for any number of slices, contracts, batches and ticks, a    *)
(* row never shows the numbers of another contract than that of its key.   *)
(***************************************************************************)
THEOREM RowShowsItsContractThm == Spec => []RowShowsItsContract
<1>1. CInv => RowShowsItsContract
  BY DEF CInv, MatchInv, Matches, RowShowsItsContract
<1>. QED
  BY <1>1, InitCInv, StepCInv, PTL DEF Spec
-----------------------------------------------------------------------------
(* Rows and the last tick.                                                  *)

NoWrap == seqno = first + ticks

\* A slice and its jobs point to batches of that slice.
OwnerInv ==
  /\ \A s \in Slices : cur[s] # 0 => heap[cur[s]].slice = s
  /\ \A n \in 1 .. Len(jobs) : heap[jobs[n].batch].slice = jobs[n].slice
  /\ ppc = "rows" => heap[job.batch].slice = job.slice

\* The slots that were appended since a job of the last tick was built hold
\* none of its contracts, unless that was appended again.
Fresh(j) ==
  j.seqno = seqno =>
    \A n \in DOMAIN j.greeks, x \in 1 .. Len(heap[j.batch].slots) :
      x \notin DOMAIN j.greeks /\ heap[j.batch].slots[x] = j.greeks[n][2] =>
        heap[j.batch].slots[x] = Blank \/ <<j.slice, heap[j.batch].slots[x]>> \in again

AppendInv ==
  cpc = "append" =>
    \A x \in 1 .. Len(heap[cur[slot[1]]].slots) - 1 :
      heap[cur[slot[1]]].slots[x] = slot[2] => slot \in again

FreshInv == NoWrap => (\A n \in 1 .. Len(jobs) : Fresh(jobs[n])) /\ (ppc = "rows" => Fresh(job))

\* As long as the counter has not wrapped around, the jobs of a slice are in
\* the order of their ticks, and none is older than what was published.
Newer(j) ==
  /\ latest[j.slice] < j.seqno /\ j.seqno <= seqno
  /\ j.slice \in todo => j.seqno < seqno

OrderInv ==
  /\ first \in Seqnos /\ seqno <= first + ticks
  /\ NoWrap =>
       /\ \A s \in Slices : latest[s] <= seqno /\ (s \in todo => latest[s] < seqno)
       /\ \A n \in 1 .. Len(jobs) : Newer(jobs[n])
       /\ \A n, m \in 1 .. Len(jobs) :
            n < m /\ jobs[n].slice = jobs[m].slice => jobs[n].seqno < jobs[m].seqno

\* A job of the last tick has the results of all that was priced.
Covers(j) ==
  j.seqno = seqno =>
    \A c \in Contracts : <<j.slice, c>> \in priced =>
      \E n \in DOMAIN j.greeks : j.greeks[n] = <<j.slice, c>>

CoverInv ==
  /\ cpc = "jobs" =>
       priced = {sc \in Priced : cur[sc[1]] # 0 /\ sc[2] \in ToSet(heap[cur[sc[1]]].slots)}
  /\ NoWrap => (\A n \in 1 .. Len(jobs) : Covers(jobs[n])) /\ (ppc = "rows" => Covers(job))

\* The pipeline has the results of the job, and its other rows, of slots
\* added later, are not for the contracts of the job, unless it is an old
\* job or the contract was appended again.
RowInv(p) ==
  IF p \in DOMAIN job.greeks
  THEN pipeline[p] = [key |-> <<DateOf[job.slice], job.greeks[p][2]>>, of |-> job.greeks[p]]
  ELSE /\ pipeline[p].key[1] = DateOf[job.slice]
       /\ \A n \in DOMAIN job.greeks :
            pipeline[p].key[2] = job.greeks[n][2] =>
              \/ pipeline[p].key[2] = Blank
              \/ job.seqno # seqno
              \/ <<job.slice, pipeline[p].key[2]>> \in again

CurrentInv ==
  /\ ppc = "idle" => i = 1
  /\ ppc = "rows" /\ ~freed /\ NoWrap =>
       i = Len(pipeline) + 1 /\ \A p \in 1 .. Len(pipeline) : RowInv(p)

\* Where the result of the last tick is.
Settled(s) ==
  \/ s \in todo
  \/ s \in lost
  \/ ppc = "dead"
  \/ \E n \in 1 .. Len(jobs) : jobs[n].slice = s /\ jobs[n].seqno = seqno
  \/ ppc = "rows" /\ job.slice = s /\ job.seqno = seqno
  \/ /\ latest[s] = seqno
     /\ \A c \in Contracts : <<s, c>> \in priced \ again => ShowsLastTick(s, c)

SettledInv ==
  /\ priced \subseteq Priced
  /\ NoWrap /\ ~freed => \A sc \in priced : OwnDate(sc[1]) => Settled(sc[1])

LInv == /\ CInv /\ JobInv /\ PipelineInv
        /\ OwnerInv /\ AppendInv /\ FreshInv /\ OrderInv /\ CoverInv /\ CurrentInv /\ SettledInv

-----------------------------------------------------------------------------
LEMMA NextSeqno ==
  ASSUME NEW x \in Seqnos
  PROVE  (x + 1) % Modulus = x + 1 \/ (x + 1) % Modulus = 0
<1>1. CASE x + 1 < Modulus
  BY <1>1
<1>2. CASE x + 1 = Modulus
  BY <1>2
<1>. QED
  BY <1>1, <1>2

\* If the counter has not wrapped around by now, it had not before.
LEMMA NoWrapBack ==
  ASSUME IInv, OrderInv, Next
  PROVE  /\ first' \in Seqnos /\ seqno' <= first' + ticks'
         /\ NoWrap' => NoWrap /\ (ProcessTick => seqno' = seqno + 1)
         /\ ProcessTick \/ UNCHANGED <<seqno, priced>>
<1>. seqno \in Seqnos /\ ticks \in Nat /\ first \in Seqnos /\ seqno <= first + ticks
  BY DEF IInv, TypeOK, ComputeOK, OrderInv
<1>1. CASE ProcessTick
  <2>1. seqno' = (seqno + 1) % Modulus /\ ticks' = ticks + 1 /\ first' = first
    BY <1>1 DEF ProcessTick
  <2>2. seqno' = seqno + 1 \/ seqno' = 0
    BY <2>1, NextSeqno
  <2>. QED
    BY <1>1, <2>1, <2>2 DEF NoWrap
<1>2. CASE UNCHANGED <<seqno, ticks, first, priced>> /\ ~ProcessTick
  BY <1>2 DEF NoWrap
<1>3. ProcessTick \/ UNCHANGED <<seqno, ticks, first, priced>>
  BY FlushFrame
     DEF Next, Tick, Publish, EnqueueJob, TickDone, PopJob, QueueRow, QueueFreedRow,
        HmsetThrows, Exec, Expire, StrayWrite, compute, tick, publisher, output, FlushDone
<1>. QED
  BY <1>1, <1>2, <1>3

\* The jobs of a slice stay in order, each newer than what was published.
LEMMA StepOrderInv ==
  ASSUME IInv, OrderInv, Next
  PROVE  OrderInv'
<1>1. first' \in Seqnos /\ seqno' <= first' + ticks'
  BY NoWrapBack
<1> SUFFICES ASSUME NoWrap' PROVE OrderInv'
  BY <1>1 DEF OrderInv
<1>2. NoWrap
  BY NoWrapBack
<1>3. jobs \in Seq(Jobs) /\ Len(jobs) \in Nat
  BY LenProperties DEF IInv, TypeOK, QueueOK
<1>4. \A n \in 1 .. Len(jobs) : jobs[n].slice \in Slices /\ jobs[n].seqno \in Nat
  <2>1. \A n \in 1 .. Len(jobs) : jobs[n] \in Jobs
    BY <1>3, ElementOfSeq
  <2>. QED
    BY <2>1 DEF Jobs
<1>5. seqno \in Nat /\ todo \subseteq Slices /\ latest \in [Slices -> Nat]
  BY DEF IInv, TypeOK, ComputeOK, PublisherOK
<1>6. CASE ProcessTick
  <2>1. seqno' = seqno + 1 /\ UNCHANGED <<latest, jobs>>
    BY <1>6, NoWrapBack DEF ProcessTick, publisher, output
  <2>2. \A n \in 1 .. Len(jobs) : latest[jobs[n].slice] < jobs[n].seqno /\ jobs[n].seqno < seqno + 1
    BY <1>2, <1>4, <1>5 DEF OrderInv, Newer
  <2>3. \A s \in Slices : latest[s] < seqno + 1
    BY <1>2, <1>5 DEF OrderInv
  <2>4. \A s \in Slices : latest'[s] <= seqno' /\ (s \in todo' => latest'[s] < seqno')
    BY <1>5, <2>1, <2>3
  <2>5. (\A n \in 1 .. Len(jobs) : Newer(jobs[n]))'
    BY <1>4, <1>5, <2>1, <2>2 DEF Newer
  <2>6. (\A n, m \in 1 .. Len(jobs) :
           n < m /\ jobs[n].slice = jobs[m].slice => jobs[n].seqno < jobs[m].seqno)'
    BY <1>2, <2>1 DEF OrderInv
  <2>. QED
    BY <1>1, <2>4, <2>5, <2>6 DEF OrderInv
<1>7. ASSUME NEW s \in Slices, EnqueueJob(s) PROVE OrderInv'
  <2> DEFINE new == [batch |-> cur[s], slice |-> s, seqno |-> seqno, greeks |-> GreeksOf(s)]
  <2>1. UNCHANGED <<latest, seqno>> /\ todo' = todo \ {s} /\ s \in todo
    BY <1>7 DEF EnqueueJob, publisher
  <2>2. CASE UNCHANGED jobs
    BY <1>1, <1>2, <2>1, <2>2 DEF OrderInv, Newer
  <2>3. CASE jobs' = Append(jobs, new)
    <3>1. new \in Jobs /\ new.slice = s /\ new.seqno = seqno
      BY <2>1, JobTyped
    <3>. HIDE DEF new
    <3>2. /\ Len(jobs') = Len(jobs) + 1 /\ jobs'[Len(jobs) + 1] = new
          /\ \A n \in 1 .. Len(jobs) : jobs'[n] = jobs[n]
      BY <1>3, <2>3, <3>1, AppendFacts
    <3>3. \A n \in 1 .. Len(jobs') : n \in 1 .. Len(jobs) \/ n = Len(jobs) + 1
      BY <1>3, <3>2
    <3>4. ASSUME NEW n \in 1 .. Len(jobs') PROVE Newer(jobs[n])'
      <4>1. CASE n \in 1 .. Len(jobs)
        <5>1. Newer(jobs[n]) /\ jobs'[n] = jobs[n]
          BY <1>2, <3>2, <4>1 DEF OrderInv
        <5>. QED
          BY <2>1, <5>1 DEF Newer
      <4>2. CASE n = Len(jobs) + 1
        <5>1. jobs'[n] = new /\ latest[s] < seqno
          BY <1>2, <2>1, <3>2, <4>2 DEF OrderInv
        <5>. QED
          BY <1>5, <2>1, <3>1, <5>1 DEF Newer
      <4>. QED
        BY <3>3, <4>1, <4>2
    <3>5. ASSUME NEW n \in 1 .. Len(jobs'), NEW m \in 1 .. Len(jobs'), n < m,
                 jobs'[n].slice = jobs'[m].slice
          PROVE  jobs'[n].seqno < jobs'[m].seqno
      <4>1. n \in 1 .. Len(jobs) /\ jobs'[n] = jobs[n]
        BY <1>3, <3>2, <3>3, <3>5
      <4>2. CASE m \in 1 .. Len(jobs)
        <5>1. jobs'[m] = jobs[m]
          BY <3>2, <4>2
        <5>. QED
          BY <1>2, <3>5, <4>1, <4>2, <5>1 DEF OrderInv
      <4>3. CASE m = Len(jobs) + 1
        <5>1. jobs'[m] = new
          BY <3>2, <4>3
        <5>2. Newer(jobs[n]) /\ jobs[n].slice \in todo
          BY <1>2, <2>1, <3>1, <3>5, <4>1, <5>1 DEF OrderInv
        <5>. QED
          BY <3>1, <4>1, <5>1, <5>2 DEF Newer
      <4>. QED
        BY <3>3, <4>2, <4>3
    <3>6. \A t \in Slices : latest[t] <= seqno /\ (t \in todo => latest[t] < seqno)
      BY <1>2 DEF OrderInv
    <3>. QED
      BY <1>1, <2>1, <3>4, <3>5, <3>6 DEF OrderInv
  <2>. QED
    BY <1>7, <2>2, <2>3 DEF EnqueueJob
<1>8. CASE PopJob
  <2>1. /\ Len(jobs') = Len(jobs) - 1 /\ Len(jobs) >= 1 /\ Head(jobs) = jobs[1]
        /\ \A n \in 1 .. Len(jobs') : n + 1 \in 1 .. Len(jobs) /\ jobs'[n] = jobs[n + 1]
    BY <1>3, <1>8, HeadTailProperties DEF PopJob
  <2>2. UNCHANGED <<seqno, todo>>
    BY <1>8 DEF PopJob, compute, tick
  <2> DEFINE j == jobs[1]
  <2>3. 1 \in 1 .. Len(jobs) /\ j.slice \in Slices /\ j.seqno \in Nat /\ Newer(j)
    BY <1>2, <1>3, <1>4, <2>1 DEF OrderInv
  <2>4. latest' = [latest EXCEPT ![j.slice] = j.seqno]
    BY <1>8, <2>1, <2>3 DEF PopJob, IsNewer, Newer
  <2>5. ASSUME NEW n \in 1 .. Len(jobs')
        PROVE  /\ Newer(jobs'[n]) /\ jobs'[n].slice \in Slices /\ jobs'[n].seqno \in Nat
               /\ jobs'[n].slice = j.slice => j.seqno < jobs'[n].seqno
    <3>1. n + 1 \in 1 .. Len(jobs) /\ 1 < n + 1 /\ jobs'[n] = jobs[n + 1]
      BY <2>1
    <3>2. Newer(jobs[n + 1])
      BY <1>2, <3>1 DEF OrderInv
    <3>3. j.slice = jobs[n + 1].slice => j.seqno < jobs[n + 1].seqno
      BY <1>2, <2>3, <3>1 DEF OrderInv
    <3>. QED
      BY <1>4, <3>1, <3>2, <3>3
  <2>6. ASSUME NEW n \in 1 .. Len(jobs'), NEW m \in 1 .. Len(jobs'), n < m,
               jobs'[n].slice = jobs'[m].slice
        PROVE  jobs'[n].seqno < jobs'[m].seqno
    <3>1. /\ n + 1 \in 1 .. Len(jobs) /\ jobs'[n] = jobs[n + 1]
          /\ m + 1 \in 1 .. Len(jobs) /\ jobs'[m] = jobs[m + 1]
      BY <2>1
    <3>2. n + 1 < m + 1
      BY <2>1, <2>6
    <3>. QED
      BY <1>2, <2>6, <3>1, <3>2 DEF OrderInv
  <2>. HIDE DEF j
  <2>7. \A s \in Slices : latest[s] <= seqno /\ (s \in todo => latest[s] < seqno)
    BY <1>2 DEF OrderInv
  <2>8. \A s \in Slices : latest'[s] <= seqno /\ (s \in todo => latest'[s] < seqno)
    BY <1>5, <2>3, <2>4, <2>7 DEF Newer
  <2>9. (\A n \in 1 .. Len(jobs) : Newer(jobs[n]))'
    BY <1>5, <2>2, <2>4, <2>5 DEF Newer
  <2>. QED
    BY <1>1, <2>2, <2>6, <2>8, <2>9 DEF OrderInv
<1>9. CASE UNCHANGED <<seqno, latest, jobs, todo>>
  BY <1>1, <1>2, <1>9 DEF OrderInv, Newer
<1>. QED
  BY <1>6, <1>7, <1>8, <1>9, FlushFrame
     DEF Next, Tick, Publish, TickDone, QueueRow, QueueFreedRow, HmsetThrows, Exec, Expire,
        StrayWrite, compute, tick, publisher, output, FlushDone

\* A batch stays a batch of its slice, and what was appended again is only
\* forgotten at a tick.
LEMMA SliceKept ==
  ASSUME IInv, Next
  PROVE  /\ Len(heap') >= Len(heap)
         /\ \A b \in 1 .. Len(heap) : heap'[b].slice = heap[b].slice
<1>1. ASSUME NEW s \in Slices, NEW t \in Slices, RetireSlice(s, t)
      PROVE  \A b \in 1 .. Len(heap) : heap'[b].slice = heap[b].slice
  BY <1>1, RetireHeap
<1>2. ASSUME NEW s \in Slices, NEW c \in Contracts,
             BuildBatch(s, c) \/ BeginAppend(s, c) \/ AppendPastEnd(s, c)
      PROVE  \A b \in 1 .. Len(heap) : heap'[b].slice = heap[b].slice
  BY <1>2, BuildHeap, BeginAppendHeap, AppendPastEndHeap
<1>3. CASE EndAppend
  BY <1>3, EndAppendHeap
<1>4. \A b \in 1 .. Len(heap) : heap'[b].slice = heap[b].slice
  BY <1>1, <1>2, <1>3, HeapStep
<1>. QED
  BY <1>4, MemoryTypes

LEMMA AgainGrows ==
  ASSUME Next, ~ProcessTick
  PROVE  again \subseteq again'
BY FlushFrame
   DEF Next, Tick, Publish, EnqueueJob, TickDone, StrayWrite, PopJob, QueueRow, QueueFreedRow,
       HmsetThrows, Exec, Expire, compute

LEMMA StepOwnerInv ==
  ASSUME IInv, OwnerInv, Next
  PROVE  OwnerInv'
<1>. Len(heap) \in Nat /\ cur \in [Slices -> 0 .. Len(heap)] /\ Len(jobs) \in Nat
     /\ jobs \in Seq(Jobs) /\ Len(heap') >= Len(heap)
     /\ \A b \in 1 .. Len(heap) : heap'[b].slice = heap[b].slice
  BY HeapTyped, SliceKept, LenProperties DEF IInv, TypeOK, QueueOK
<1>1. (\A s \in Slices : cur[s] # 0 => heap[cur[s]].slice = s)'
  <2>1. ASSUME NEW s \in Slices, NEW c \in Contracts, BuildBatch(s, c), NEW t \in Slices, cur'[t] # 0
        PROVE  heap'[cur'[t]].slice = t
    <3>1. cur' = [cur EXCEPT ![s] = Len(heap) + 1] /\ heap'[Len(heap) + 1] = NewBatch(s)
      BY <2>1, BuildHeap DEF BuildBatch
    <3>2. NewBatch(s).slice = s
      BY DEF NewBatch
    <3>3. CASE t = s
      BY <3>1, <3>2, <3>3
    <3>4. CASE t # s
      BY <2>1, <3>1, <3>4 DEF OwnerInv
    <3>. QED
      BY <3>3, <3>4
  <2>2. ASSUME \A t \in Slices : cur'[t] = 0 \/ cur'[t] = cur[t], NEW t \in Slices, cur'[t] # 0
        PROVE  heap'[cur'[t]].slice = t
    BY <2>2 DEF OwnerInv
  <2>3. \/ \E s \in Slices, c \in Contracts : BuildBatch(s, c)
        \/ \A t \in Slices : cur'[t] = 0 \/ cur'[t] = cur[t]
    BY HeapStep DEF RetireSlice, BeginAppend, AppendPastEnd, EndAppend
  <2>. QED
    BY <2>1, <2>2, <2>3
<1>2. (\A n \in 1 .. Len(jobs) : heap[jobs[n].batch].slice = jobs[n].slice)'
  <2> SUFFICES ASSUME NEW n \in 1 .. Len(jobs') PROVE heap'[jobs'[n].batch].slice = jobs'[n].slice
    OBVIOUS
  <2>1. ASSUME NEW m \in 1 .. Len(jobs), jobs'[n] = jobs[m]
        PROVE  heap'[jobs'[n].batch].slice = jobs'[n].slice
    <3>1. jobs[m].batch \in 1 .. Len(heap)
      BY DEF IInv, PointerInv
    <3>2. heap[jobs[m].batch].slice = jobs[m].slice
      BY DEF OwnerInv
    <3>. QED
      BY <2>1, <3>1, <3>2
  <2>2. ASSUME NEW s \in todo, EnqueueJob(s),
               jobs'[n] = [batch |-> cur[s], slice |-> s, seqno |-> seqno, greeks |-> GreeksOf(s)]
        PROVE  heap'[jobs'[n].batch].slice = jobs'[n].slice
    <3>1. s \in Slices /\ cur[s] \in 1 .. Len(heap) /\ cur[s] # 0
      BY <2>2, JobTyped DEF EnqueueJob, IInv, TypeOK, ComputeOK
    <3>2. jobs'[n].batch = cur[s] /\ jobs'[n].slice = s
      BY <2>2
    <3>. QED
      BY <3>1, <3>2 DEF OwnerInv
  <2>. QED
    BY <2>1, <2>2, JobsStep
<1>3. (ppc = "rows" => heap[job.batch].slice = job.slice)'
  <2> SUFFICES ASSUME ppc' = "rows" PROVE heap'[job'.batch].slice = job'.slice
    OBVIOUS
  <2>1. CASE ppc = "rows" /\ job' = job
    BY <2>1 DEF IInv, PointerInv, OwnerInv
  <2>2. CASE 1 \in 1 .. Len(jobs) /\ job' = jobs[1]
    BY <2>2 DEF IInv, PointerInv, OwnerInv
  <2>. QED
    BY <2>1, <2>2, JobsStep
<1>. QED
  BY <1>1, <1>2, <1>3 DEF OwnerInv

\* A slot is written to hold a contract that no earlier slot holds, unless it
\* was appended again.
LEMMA StepAppendInv ==
  ASSUME CInv, AppendInv, Next
  PROVE  AppendInv'
<1>. IInv
  BY DEF CInv
<1>1. ASSUME NEW s \in Slices, NEW c \in Contracts, BeginAppend(s, c)
      PROVE  AppendInv'
  <2> DEFINE q == heap[cur[s]].slots
  <2>1. /\ cur' = cur /\ slot' = <<s, c>> /\ heap'[cur[s]].slots = Append(q, Blank)
        /\ c \in ToSet(q) => <<s, c>> \in again'
    BY <1>1, BeginAppendHeap DEF BeginAppend
  <2>2. q \in Seq(Cells)
    <3>1. heap[cur[s]] \in Batches
      BY <1>1, BeginAppendHeap, HeapTyped
    <3>. QED
      BY <3>1 DEF Batches
  <2>3. cur'[slot'[1]] = cur[s] /\ slot'[2] = c
    BY <2>1
  <2>. HIDE DEF q
  <2>4. /\ Len(Append(q, Blank)) - 1 = Len(q) /\ DOMAIN q = 1 .. Len(q)
        /\ \A x \in 1 .. Len(q) : Append(q, Blank)[x] = q[x]
    BY <2>2, AppendFacts, LenProperties DEF Cells
  <2>5. ASSUME NEW x \in 1 .. Len(q), q[x] = c PROVE <<s, c>> \in again'
    BY <2>1, <2>4, <2>5 DEF ToSet
  <2>. QED
    BY <2>1, <2>3, <2>4, <2>5 DEF AppendInv
<1>2. CASE cpc' # "append"
  BY <1>2 DEF AppendInv
<1>3. CASE UNCHANGED <<heap, cur, slot, again>> /\ (cpc = "append" <=> cpc' = "append")
  BY <1>3 DEF AppendInv
<1>. QED
  BY <1>1, <1>2, <1>3, HeapStep
     DEF RetireSlice, Expired, BuildBatch, AppendPastEnd, EndAppend, ProcessTick

LEMMA FreshStep ==
  ASSUME CInv, AppendInv, OrderInv, Next, NoWrap', NEW j \in Jobs, j.batch \in 1 .. Len(heap),
         heap[j.batch].slice = j.slice, \A s \in Slices : cur[s] # 0 => heap[cur[s]].slice = s,
         Copied(j), Fresh(j), j.seqno <= seqno
  PROVE  Fresh(j)'
<1> DEFINE b == j.batch
<1>. IInv
  BY DEF CInv
<1>. Len(heap) \in Nat /\ heap[b] \in Batches /\ heap[b].slots \in Seq(Cells)
     /\ Len(heap[b].slots) \in Nat /\ seqno \in Nat /\ j.seqno \in Nat
  <2>1. heap[b] \in Batches
    BY HeapTyped
  <2>. QED
    BY <2>1, HeapTyped, LenProperties DEF Batches, IInv, TypeOK, ComputeOK, Jobs
<1>1. CASE ProcessTick
  <2>1. seqno' = seqno + 1
    BY <1>1, NoWrapBack
  <2>. QED
    BY <2>1 DEF Fresh
<1> SUFFICES ASSUME ~ProcessTick, j.seqno = seqno PROVE Fresh(j)'
  BY <1>1, NoWrapBack DEF Fresh
<1>2. again \subseteq again' /\ seqno' = seqno
  BY AgainGrows, NoWrapBack
<1>3. ASSUME UNCHANGED heap[b].slots PROVE Fresh(j)'
  BY <1>2, <1>3 DEF Fresh
<1>4. ASSUME NEW s \in Slices, NEW c \in Contracts, BeginAppend(s, c) PROVE Fresh(j)'
  <2>1. CASE b = cur[s]
    <3> DEFINE q == heap[b].slots
    <3>1. heap'[b].slots = Append(q, Blank)
      BY <1>4, <2>1, BeginAppendHeap
    <3>2. \A n \in DOMAIN j.greeks, x \in 1 .. Len(q) :
            x \notin DOMAIN j.greeks /\ q[x] = j.greeks[n][2] =>
              q[x] = Blank \/ <<j.slice, q[x]>> \in again
      BY DEF Fresh
    <3>. HIDE DEF q
    <3>3. /\ \A x \in 1 .. Len(Append(q, Blank)) : x \in 1 .. Len(q) \/ x = Len(q) + 1
          /\ Append(q, Blank)[Len(q) + 1] = Blank
          /\ \A x \in 1 .. Len(q) : Append(q, Blank)[x] = q[x]
      BY AppendFacts DEF Cells, q
    <3>4. ASSUME NEW n \in DOMAIN j.greeks, NEW x \in 1 .. Len(heap'[b].slots),
                 x \notin DOMAIN j.greeks, heap'[b].slots[x] = j.greeks[n][2]
          PROVE  heap'[b].slots[x] = Blank \/ <<j.slice, heap'[b].slots[x]>> \in again'
      BY <1>2, <3>1, <3>2, <3>3, <3>4
    <3>. QED
      BY <3>4 DEF Fresh
  <2>2. CASE b # cur[s]
    BY <1>3, <1>4, <2>2, BeginAppendHeap
  <2>. QED
    BY <2>1, <2>2
<1>5. CASE EndAppend
  <2>1. CASE b = cur[slot[1]]
    <3> DEFINE q == heap[b].slots
               new == heap'[b].slots
    <3>1. /\ Len(new) = Len(q) /\ slot \in Priced /\ cur[slot[1]] # 0
          /\ \A n \in 1 .. Len(q) : new[n] = IF n = Len(q) THEN slot[2] ELSE q[n]
      BY <1>5, <2>1, EndAppendHeap
    <3>2. slot = <<j.slice, slot[2]>>
      BY <2>1, <3>1 DEF Priced
    <3>3. \A x \in 1 .. Len(q) - 1 : q[x] = slot[2] => slot \in again
      BY <1>5, <2>1 DEF AppendInv, EndAppend
    <3>4. \A n \in DOMAIN j.greeks :
            n \in 1 .. Len(q) - 1 /\ j.greeks[n] = <<j.slice, q[n]>>
      <4>1. cpc = "append" /\ j.batch = cur[slot[1]]
        BY <1>5, <2>1 DEF EndAppend
      <4>. QED
        BY <4>1 DEF Copied
    <3>5. \A n \in DOMAIN j.greeks, x \in 1 .. Len(q) :
            x \notin DOMAIN j.greeks /\ q[x] = j.greeks[n][2] =>
              q[x] = Blank \/ <<j.slice, q[x]>> \in again
      BY DEF Fresh
    <3>6. ASSUME NEW n \in DOMAIN j.greeks, NEW x \in 1 .. Len(new),
                 x \notin DOMAIN j.greeks, new[x] = j.greeks[n][2]
          PROVE  new[x] = Blank \/ <<j.slice, new[x]>> \in again'
      <4>1. CASE x = Len(q)
        <5>1. new[x] = slot[2] /\ q[n] = slot[2] /\ n \in 1 .. Len(q) - 1
          BY <3>1, <3>4, <3>6, <4>1
        <5>2. slot \in again'
          BY <1>2, <3>3, <5>1
        <5>. QED
          BY <3>2, <5>1, <5>2
      <4>2. CASE x # Len(q)
        BY <1>2, <3>1, <3>5, <3>6, <4>2
      <4>. QED
        BY <4>1, <4>2
    <3>. QED
      BY <3>6 DEF Fresh
  <2>2. CASE b # cur[slot[1]]
    BY <1>3, <1>5, <2>2, EndAppendHeap
  <2>. QED
    BY <2>1, <2>2
<1>6. ASSUME NEW s \in Slices, NEW c \in Contracts, BuildBatch(s, c) \/ AppendPastEnd(s, c)
      PROVE  Fresh(j)'
  BY <1>3, <1>6, BuildHeap, AppendPastEndHeap
<1>7. ASSUME NEW s \in Slices, NEW t \in Slices, RetireSlice(s, t)
      PROVE  Fresh(j)'
  BY <1>3, <1>7, RetireHeap
<1>8. CASE UNCHANGED heap
  BY <1>3, <1>8
<1>. QED
  BY <1>4, <1>5, <1>6, <1>7, <1>8, HeapStep

LEMMA StepFreshInv ==
  ASSUME CInv, JobInv, OwnerInv, AppendInv, OrderInv, FreshInv, Next
  PROVE  FreshInv'
<1> SUFFICES ASSUME NoWrap'
             PROVE  (\A n \in 1 .. Len(jobs) : Fresh(jobs[n]))' /\ (ppc = "rows" => Fresh(job))'
  BY DEF FreshInv
<1>. IInv /\ CopyInv /\ jobs \in Seq(Jobs) /\ Len(jobs) \in Nat
  BY LenProperties DEF CInv, IInv, TypeOK, QueueOK
<1>1. NoWrap
  BY NoWrapBack
<1>2. \A m \in 1 .. Len(jobs) : \E j : j = jobs[m] /\ Fresh(j)'
  <2> SUFFICES ASSUME NEW m \in 1 .. Len(jobs) PROVE \E j : j = jobs[m] /\ Fresh(j)'
    OBVIOUS
  <2>1. PICK j : j = jobs[m]
    OBVIOUS
  <2>2. /\ j \in Jobs /\ j.batch \in 1 .. Len(heap) /\ heap[j.batch].slice = j.slice
        /\ Copied(j) /\ Fresh(j) /\ j.seqno <= seqno
    BY <1>1, <2>1, ElementOfSeq DEF IInv, PointerInv, OwnerInv, CopyInv, FreshInv, OrderInv, Newer
  <2>3. Fresh(j)'
    BY <2>2, FreshStep DEF OwnerInv
  <2>. QED
    BY <2>1, <2>3
<1>3. \A n \in 1 .. Len(jobs') : \E j : j = jobs'[n] /\ Fresh(j)'
  <2> SUFFICES ASSUME NEW n \in 1 .. Len(jobs') PROVE \E j : j = jobs'[n] /\ Fresh(j)'
    OBVIOUS
  <2>1. ASSUME NEW m \in 1 .. Len(jobs), jobs'[n] = jobs[m]
        PROVE  \E j : j = jobs'[n] /\ Fresh(j)'
    BY <1>2, <2>1
  <2>2. ASSUME NEW s \in todo, EnqueueJob(s),
               jobs'[n] = [batch |-> cur[s], slice |-> s, seqno |-> seqno, greeks |-> GreeksOf(s)]
        PROVE  \E j : j = jobs'[n] /\ Fresh(j)'
    <3>1. PICK j : j = jobs'[n]
      OBVIOUS
    <3>2. j.batch = cur[s] /\ DOMAIN j.greeks = DOMAIN heap[cur[s]].slots
      BY <2>2, <3>1 DEF GreeksOf
    <3>3. DOMAIN heap[cur[s]].slots = 1 .. Len(heap[cur[s]].slots)
      <4>1. heap[cur[s]] \in Batches
        BY JobTyped, HeapTyped
      <4>. QED
        BY <4>1, LenProperties DEF Batches
    <3>4. heap' = heap
      BY <2>2 DEF EnqueueJob, batches
    <3>5. Fresh(j)'
      BY <3>2, <3>3, <3>4 DEF Fresh
    <3>. QED
      BY <3>1, <3>5
  <2>. QED
    BY <2>1, <2>2, JobsStep
<1>4. ppc' = "rows" => \E j : j = job' /\ Fresh(j)'
  <2>1. ASSUME ppc = "rows", job' = job
        PROVE  \E j : j = job' /\ Fresh(j)'
    <3>1. PICK j : j = job
      OBVIOUS
    <3>2. /\ j \in Jobs /\ j.batch \in 1 .. Len(heap) /\ heap[j.batch].slice = j.slice
          /\ Copied(j) /\ Fresh(j)
      BY <1>1, <2>1, <3>1 DEF IInv, TypeOK, PublisherOK, PointerInv, OwnerInv, CopyInv, FreshInv
    <3>3. j.seqno <= seqno
      BY <1>1, <2>1, <3>1, <3>2 DEF JobInv, OrderInv, Jobs
    <3>4. Fresh(j)'
      BY <3>2, <3>3, FreshStep DEF OwnerInv
    <3>. QED
      BY <2>1, <3>1, <3>4
  <2>2. ASSUME 1 \in 1 .. Len(jobs), job' = jobs[1]
        PROVE  \E j : j = job' /\ Fresh(j)'
    BY <1>2, <2>2
  <2>. QED
    BY <2>1, <2>2, JobsStep
<1>5. (\A n \in 1 .. Len(jobs) : Fresh(jobs[n]))'
  <2> SUFFICES ASSUME NEW n \in 1 .. Len(jobs') PROVE Fresh(jobs[n])'
    OBVIOUS
  <2>1. PICK j : j = jobs'[n] /\ Fresh(j)'
    BY <1>3
  <2>. QED
    BY <2>1 DEF Fresh
<1>6. (ppc = "rows" => Fresh(job))'
  BY <1>4 DEF Fresh
<1>. QED
  BY <1>5, <1>6

\* A job of the last tick has a result for each contract that was priced.
LEMMA StepCoverInv ==
  ASSUME CInv, JobInv, OrderInv, CoverInv, Next
  PROVE  CoverInv'
<1>. IInv /\ jobs \in Seq(Jobs) /\ Len(jobs) \in Nat
  BY LenProperties DEF CInv, IInv, TypeOK, QueueOK
<1>1. (cpc = "jobs" =>
         priced = {sc \in Priced : cur[sc[1]] # 0 /\ sc[2] \in ToSet(heap[cur[sc[1]]].slots)})'
  <2>1. CASE ProcessTick
    BY <2>1 DEF ProcessTick, batches
  <2>2. CASE cpc' = "jobs" => cpc = "jobs" /\ UNCHANGED <<priced, cur, heap>>
    BY <2>2 DEF CoverInv
  <2>. QED
    BY <2>1, <2>2, FlushFrame
       DEF Next, Tick, Publish, EnqueueJob, TickDone, PopJob, QueueRow, QueueFreedRow,
          HmsetThrows, Exec, Expire, StrayWrite, compute, batches, tick, publisher, output, FlushDone
<1> SUFFICES ASSUME NoWrap'
             PROVE  (\A n \in 1 .. Len(jobs) : Covers(jobs[n]))' /\ (ppc = "rows" => Covers(job))'
  BY <1>1 DEF CoverInv
<1>2. NoWrap
  BY NoWrapBack DEF CInv
<1>3. \A n \in 1 .. Len(jobs) : jobs[n] \in Jobs
  BY ElementOfSeq
\* a job built before the step
<1>4. ASSUME NEW j, Covers(j), j.seqno \in Nat, j.seqno <= seqno
      PROVE  Covers(j)'
  <2>1. CASE ProcessTick
    <3>1. seqno' = seqno + 1 /\ seqno \in Nat
      BY <2>1, NoWrapBack DEF IInv, TypeOK, ComputeOK
    <3>. QED
      BY <1>4, <3>1 DEF Covers
  <2>2. CASE UNCHANGED <<seqno, priced>>
    BY <1>4, <2>2 DEF Covers
  <2>. QED
    BY <2>1, <2>2, NoWrapBack
<1>5. \A m \in 1 .. Len(jobs) : \E j : j = jobs[m] /\ Covers(j)'
  <2> SUFFICES ASSUME NEW m \in 1 .. Len(jobs) PROVE \E j : j = jobs[m] /\ Covers(j)'
    OBVIOUS
  <2>1. PICK j : j = jobs[m]
    OBVIOUS
  <2>2. Covers(j) /\ j.seqno \in Nat /\ j.seqno <= seqno
    BY <1>2, <1>3, <2>1 DEF CoverInv, OrderInv, Newer, Jobs
  <2>. QED
    BY <1>4, <2>1, <2>2
<1>6. \A n \in 1 .. Len(jobs') : \E j : j = jobs'[n] /\ Covers(j)'
  <2> SUFFICES ASSUME NEW n \in 1 .. Len(jobs') PROVE \E j : j = jobs'[n] /\ Covers(j)'
    OBVIOUS
  <2>1. ASSUME NEW s \in todo, EnqueueJob(s),
               jobs'[n] = [batch |-> cur[s], slice |-> s, seqno |-> seqno, greeks |-> GreeksOf(s)]
        PROVE  \E j : j = jobs'[n] /\ Covers(j)'
    <3>1. PICK j : j = jobs'[n]
      OBVIOUS
    <3>2. /\ j.slice = s
          /\ j.greeks = [x \in DOMAIN heap[cur[s]].slots |-> <<s, heap[cur[s]].slots[x]>>]
      BY <2>1, <3>1 DEF GreeksOf
    <3>3. UNCHANGED <<seqno, priced>> /\ cpc = "jobs"
      BY <2>1 DEF EnqueueJob
    <3>4. \A c \in Contracts : <<s, c>> \in priced => c \in ToSet(heap[cur[s]].slots)
      BY <3>3 DEF CoverInv
    <3>5. ASSUME NEW c \in Contracts, <<s, c>> \in priced
          PROVE  \E x \in DOMAIN j.greeks : j.greeks[x] = <<s, c>>
      <4>1. PICK x \in DOMAIN heap[cur[s]].slots : heap[cur[s]].slots[x] = c
        BY <3>4, <3>5 DEF ToSet
      <4>2. x \in DOMAIN j.greeks /\ j.greeks[x] = <<s, c>>
        BY <3>2, <4>1
      <4>. QED
        BY <4>2
    <3>6. Covers(j)'
      BY <3>2, <3>3, <3>5 DEF Covers
    <3>. QED
      BY <3>1, <3>6
  <2>2. ASSUME NEW m \in 1 .. Len(jobs), jobs'[n] = jobs[m]
        PROVE  \E j : j = jobs'[n] /\ Covers(j)'
    BY <1>5, <2>2
  <2>. QED
    BY <2>1, <2>2, JobsStep
<1>7. ppc' = "rows" => \E j : j = job' /\ Covers(j)'
  <2>1. ASSUME ppc = "rows", job' = job
        PROVE  \E j : j = job' /\ Covers(j)'
    <3>1. PICK j : j = job
      OBVIOUS
    <3>2. Covers(j) /\ j.seqno \in Nat /\ j.seqno <= seqno
      BY <1>2, <2>1, <3>1 DEF CoverInv, OrderInv, JobInv, IInv, TypeOK, PublisherOK, Jobs
    <3>. QED
      BY <1>4, <2>1, <3>1, <3>2
  <2>2. ASSUME 1 \in 1 .. Len(jobs), job' = jobs[1]
        PROVE  \E j : j = job' /\ Covers(j)'
    BY <1>5, <2>2
  <2>. QED
    BY <2>1, <2>2, JobsStep
<1>8. (\A n \in 1 .. Len(jobs) : Covers(jobs[n]))'
  <2> SUFFICES ASSUME NEW n \in 1 .. Len(jobs') PROVE Covers(jobs[n])'
    OBVIOUS
  <2>1. PICK j : j = jobs'[n] /\ Covers(j)'
    BY <1>6
  <2>. QED
    BY <2>1 DEF Covers
<1>9. (ppc = "rows" => Covers(job))'
  BY <1>7 DEF Covers
<1>. QED
  BY <1>8, <1>9
\* The pipeline follows the slots as the publisher goes through them.
LEMMA StepCurrentInv ==
  ASSUME CInv, JobInv, PipelineInv, OrderInv, FreshInv, CurrentInv, Next
  PROVE  CurrentInv'
<1>. IInv /\ CopyInv /\ PublisherOK /\ Len(pipeline) \in Nat
     /\ pipeline \in Seq([key : Keys, of : Results])
  BY LenProperties DEF CInv, IInv, TypeOK, PublisherOK
<1>1. CASE PopJob
  <2>1. i' = 1 /\ pipeline' = <<>> /\ ppc = "idle"
    BY <1>1 DEF PopJob, CurrentInv, PipelineInv
  <2>. QED
    BY <2>1, EmptySeq DEF CurrentInv
<1>2. CASE QueueRow
  <2>. UNCHANGED <<seqno, ticks, first, again>>
    BY <1>2 DEF QueueRow, compute, tick
  <2> SUFFICES ASSUME ~freed, NoWrap PROVE CurrentInv'
    BY <1>2 DEF QueueRow, CurrentInv, NoWrap
  <2> DEFINE q == heap[job.batch].slots
             cell == q[i]
             new == Row(cell)
  <2>1. /\ ppc = "rows" /\ UNCHANGED <<ppc, job, freed>> /\ i' = i + 1
        /\ pipeline' = Append(pipeline, new) /\ i <= Len(q)
    BY <1>2 DEF QueueRow
  <2>2. i = Len(pipeline) + 1 /\ \A p \in 1 .. Len(pipeline) : RowInv(p)
    BY <2>1 DEF CurrentInv
  <2>3. job.batch \in 1 .. Len(heap) /\ heap \in Seq(Batches) /\ job \in Jobs
    BY <2>1 DEF IInv, PointerInv, TypeOK, MemoryOK, PublisherOK
  <2>4. q \in Seq(Cells) /\ Len(q) \in Nat
    <3>1. heap[job.batch] \in Batches
      BY <2>3, ElementOfSeq
    <3>. QED
      BY <3>1, LenProperties DEF Batches
  <2>5. i \in 1 .. Len(q) /\ cell \in Cells
    <3>. HIDE DEF q
    <3>. QED
      BY <2>1, <2>2, <2>4, ElementOfSeq
  <2>6. new \in [key : Keys, of : Results]
    BY <2>1, <2>5, RowTyped
  <2>7. \A n \in DOMAIN job.greeks : n \in 1 .. Len(q) /\ job.greeks[n] = <<job.slice, q[n]>>
    BY <2>1 DEF CopyInv, Copied
  <2>8. Fresh(job)
    BY <2>1 DEF FreshInv
  <2>9. new.key = <<DateOf[job.slice], cell>> /\ new.of = ResultAt(i)
        /\ new = [key |-> <<DateOf[job.slice], cell>>, of |-> ResultAt(i)]
    BY DEF Row
  <2>. HIDE DEF q, new
  <2>10. /\ Len(pipeline') = i /\ pipeline'[i] = new
         /\ \A p \in 1 .. Len(pipeline) : pipeline'[p] = pipeline[p]
    BY <2>1, <2>2, <2>6, AppendFacts
  <2>11. ASSUME NEW p \in 1 .. Len(pipeline') PROVE RowInv(p)'
    <3>1. CASE p \in 1 .. Len(pipeline)
      <4>1. RowInv(p) /\ pipeline'[p] = pipeline[p] /\ job' = job
        BY <2>1, <2>2, <2>10, <3>1
      <4>. QED
        BY <4>1 DEF RowInv
    <3>2. CASE p = i /\ i \in DOMAIN job.greeks
      <4>1. job.greeks[i] = <<job.slice, cell>> /\ ResultAt(i) = job.greeks[i]
        BY <2>7, <3>2 DEF ResultAt
      <4>. HIDE DEF cell
      <4>2. pipeline'[p] = [key |-> <<DateOf[job.slice], job.greeks[p][2]>>, of |-> job.greeks[p]]
        BY <2>9, <2>10, <3>2, <4>1
      <4>. QED
        BY <2>1, <3>2, <4>2 DEF RowInv
    <3>3. CASE p = i /\ i \notin DOMAIN job.greeks
      <4>1. ASSUME NEW n \in DOMAIN job.greeks, cell = job.greeks[n][2]
            PROVE  cell = Blank \/ job.seqno # seqno \/ <<job.slice, cell>> \in again
        BY <2>5, <2>8, <3>3, <4>1 DEF Fresh, q
      <4>2. pipeline'[p].key = <<DateOf[job.slice], cell>>
        BY <2>9, <2>10, <3>3
      <4>. HIDE DEF cell
      <4>3. pipeline'[p].key[1] = DateOf[job.slice] /\ pipeline'[p].key[2] = cell
        BY <4>2
      <4>4. UNCHANGED <<job, seqno, again>>
        BY <2>1
      <4>. QED
        BY <3>3, <4>1, <4>3, <4>4 DEF RowInv
    <3>4. p \in 1 .. Len(pipeline) \/ p = i
      BY <2>2, <2>10
    <3>. QED
      BY <3>1, <3>2, <3>3, <3>4
  <2>12. ppc' = "rows" /\ i' = Len(pipeline') + 1
    BY <2>1, <2>10
  <2>. QED
    BY <2>11, <2>12 DEF CurrentInv
<1>3. CASE QueueFreedRow
  BY <1>3 DEF QueueFreedRow, CurrentInv
<1>4. CASE HmsetThrows
  BY <1>4 DEF HmsetThrows, CurrentInv
<1>5. CASE Exec
  BY <1>5 DEF Exec, CurrentInv
<1>6. CASE UNCHANGED <<ppc, job, i, pipeline, freed>>
  <2>1. ASSUME ppc = "rows", NoWrap', NEW p \in 1 .. Len(pipeline), RowInv(p)
        PROVE  RowInv(p)'
    <3>1. job.seqno \in Nat /\ seqno \in Nat /\ job.seqno <= seqno
      <4>1. job \in Jobs /\ job.seqno = latest[job.slice] /\ NoWrap
        BY <2>1, NoWrapBack DEF JobInv, PublisherOK
      <4>2. job.slice \in Slices /\ job.seqno \in Nat
        BY <4>1 DEF Jobs
      <4>. QED
        BY <4>1, <4>2 DEF OrderInv, IInv, TypeOK, ComputeOK
    <3>2. CASE ProcessTick
      <4>1. job.seqno # seqno'
        BY <2>1, <3>1, <3>2, NoWrapBack
      <4>. QED
        BY <1>6, <2>1, <4>1 DEF RowInv
    <3>3. CASE ~ProcessTick
      <4>1. again \subseteq again' /\ seqno' = seqno
        BY <3>3, AgainGrows, NoWrapBack
      <4>. QED
        BY <1>6, <2>1, <4>1 DEF RowInv
    <3>. QED
      BY <3>2, <3>3
  <2>2. NoWrap' => NoWrap
    BY NoWrapBack
  <2>. QED
    BY <1>6, <2>1, <2>2 DEF CurrentInv
<1>7. CASE StrayWrite
  BY <1>7 DEF StrayWrite, CurrentInv
<1>. QED
  BY <1>1, <1>2, <1>3, <1>4, <1>5, <1>6, <1>7, FlushFrame
     DEF Next, Tick, Publish, ProcessTick, EnqueueJob, TickDone, Expire, compute,
        tick, publisher, output, FlushDone

\* Once the whole pipeline of the last tick is applied, each priced contract
\* has its row.
LEMMA ExecShows ==
  ASSUME CInv, CoverInv, CurrentInv, ppc = "rows", LastRowQueued, heap[job.batch].live,
         ~freed, NoWrap, job.seqno = seqno, NEW c \in Contracts,
         <<job.slice, c>> \in priced \ again,
         <<DateOf[job.slice], c>> \in DOMAIN Applied(Len(pipeline))
  PROVE  Applied(Len(pipeline))[<<DateOf[job.slice], c>>]
           = [seqno |-> seqno, of |-> <<job.slice, c>>]
<1> DEFINE k == <<DateOf[job.slice], c>>
           N == Len(pipeline)
<1>1. PublisherOK /\ N \in Nat /\ N \in 0 .. N
  BY LenProperties DEF CInv, IInv, TypeOK, PublisherOK
<1>2. PICK n \in DOMAIN job.greeks : job.greeks[n] = <<job.slice, c>>
  BY DEF CoverInv, Covers
<1>3. /\ \A p \in DOMAIN job.greeks :
           /\ p \in 1 .. Len(heap[job.batch].slots)
           /\ job.greeks[p] = <<job.slice, heap[job.batch].slots[p]>>
  BY DEF CInv, CopyInv, Copied
<1>4. Len(heap[job.batch].slots) \in Nat
  <2>1. job.batch \in 1 .. Len(heap) /\ heap \in Seq(Batches)
    BY DEF CInv, IInv, PointerInv, TypeOK, MemoryOK
  <2>2. heap[job.batch] \in Batches
    BY <2>1, ElementOfSeq
  <2>. QED
    BY <2>2, LenProperties DEF Batches
<1>5. n \in 1 .. N
  <2>1. N + 1 > Len(heap[job.batch].slots)
    BY DEF LastRowQueued, CurrentInv
  <2>. QED
    BY <1>1, <1>2, <1>3, <1>4, <2>1
<1>6. \A p \in 1 .. N : RowInv(p)
  BY DEF CurrentInv
<1>7. ASSUME NEW p \in 1 .. N, p \in DOMAIN job.greeks
      PROVE  pipeline[p].key = <<DateOf[job.slice], job.greeks[p][2]>> /\ pipeline[p].of = job.greeks[p]
  <2> DEFINE row == [key |-> <<DateOf[job.slice], job.greeks[p][2]>>, of |-> job.greeks[p]]
  <2>1. pipeline[p] = row
    <3>1. RowInv(p)
      BY <1>6
    <3>. QED
      BY <1>7, <3>1 DEF RowInv
  <2>2. row.key = <<DateOf[job.slice], job.greeks[p][2]>> /\ row.of = job.greeks[p]
    OBVIOUS
  <2>. HIDE DEF row
  <2>. QED
    BY <2>1, <2>2
<1>8. pipeline[n].key = k
  BY <1>2, <1>5, <1>7
<1>9. PICK p \in 1 .. N : k = pipeline[p].key
                          /\ Applied(N)[k] = [seqno |-> job.seqno, of |-> pipeline[p].of]
  BY <1>1, <1>5, <1>8, AppliedRows
<1>10. CASE p \in DOMAIN job.greeks
  <2>1. pipeline[p].key = <<DateOf[job.slice], job.greeks[p][2]>> /\ pipeline[p].of = job.greeks[p]
    BY <1>7, <1>10
  <2>2. job.greeks[p][2] = c
    BY <1>9, <2>1
  <2>3. job.greeks[p] = <<job.slice, job.greeks[p][2]>>
    BY <1>3, <1>10
  <2>. QED
    BY <1>9, <2>1, <2>2, <2>3
<1>11. CASE p \notin DOMAIN job.greeks
  <2>1. \A m \in DOMAIN job.greeks :
           pipeline[p].key[2] = job.greeks[m][2] =>
             pipeline[p].key[2] = Blank \/ <<job.slice, pipeline[p].key[2]>> \in again
    <3>1. RowInv(p)
      BY <1>6
    <3>. QED
      BY <1>11, <3>1 DEF RowInv
  <2>2. pipeline[p].key[2] = c
    BY <1>9
  <2>3. job.greeks[n][2] = c
    BY <1>2
  <2>. HIDE DEF k, N
  <2>4. c = Blank
    BY <1>2, <2>1, <2>2, <2>3
  <2>. QED
    BY <2>4, BlankAssumption
<1>. QED
  BY <1>10, <1>11
\* Wherever the result of the last tick is, a step that is not a tick leaves
\* it there or takes it one station on.
LEMMA SettledStep ==
  ASSUME CInv, JobInv, PipelineInv, OrderInv, CoverInv, CurrentInv, Next,
         ~ProcessTick, UNCHANGED <<seqno, priced>>, NoWrap, ~freed', NEW s \in Slices, OwnDate(s), Settled(s)
  PROVE  Settled(s)'
<1> DEFINE Shown == \A c \in Contracts : <<s, c>> \in priced \ again => ShowsLastTick(s, c)
           Queued == \E n \in 1 .. Len(jobs) : jobs[n].slice = s /\ jobs[n].seqno = seqno
<1>. again \subseteq again'
  BY AgainGrows
<1>. IInv /\ PublisherOK /\ jobs \in Seq(Jobs) /\ Len(jobs) \in Nat
  BY LenProperties DEF CInv, IInv, TypeOK, QueueOK
<1>. seqno \in Nat /\ latest \in [Slices -> Nat]
  BY DEF IInv, TypeOK, ComputeOK, PublisherOK
<1>1. ASSUME NEW t \in Slices, EnqueueJob(t) PROVE Settled(s)'
  <2> DEFINE new == [batch |-> cur[t], slice |-> t, seqno |-> seqno, greeks |-> GreeksOf(t)]
  <2>1. /\ UNCHANGED <<ppc, job, latest, rows, seqno, priced>> /\ todo' = todo \ {t} /\ t \in todo
        /\ \/ jobs' = Append(jobs, new) /\ lost' = lost \ {t}
           \/ lost' = lost \cup {t} /\ UNCHANGED jobs
    BY <1>1 DEF EnqueueJob, publisher
  <2>2. CASE jobs' = Append(jobs, new) /\ lost' = lost \ {t}
    <3>1. new \in Jobs /\ new.slice = t /\ new.seqno = seqno
      BY <2>1, JobTyped
    <3>. HIDE DEF new
    <3>2. /\ Len(jobs') = Len(jobs) + 1 /\ jobs'[Len(jobs) + 1] = new
          /\ \A n \in 1 .. Len(jobs) : jobs'[n] = jobs[n]
      BY <2>2, <3>1, AppendFacts
    <3>3. CASE s = t
      <4>1. Len(jobs) + 1 \in 1 .. Len(jobs')
        BY <3>2
      <4>. QED
        BY <2>1, <3>1, <3>2, <3>3, <4>1 DEF Settled
    <3>4. CASE Queued
      <4>1. PICK n \in 1 .. Len(jobs) : jobs[n].slice = s /\ jobs[n].seqno = seqno
        BY <3>4
      <4>2. n \in 1 .. Len(jobs') /\ jobs'[n] = jobs[n]
        BY <3>2
      <4>. QED
        BY <2>1, <4>1, <4>2 DEF Settled
    <3>5. CASE s # t /\ ~Queued
      BY <2>1, <2>2, <3>5 DEF Settled, ShowsLastTick
    <3>. QED
      BY <3>3, <3>4, <3>5
  <2>3. CASE lost' = lost \cup {t} /\ UNCHANGED jobs
    BY <2>1, <2>3 DEF Settled, ShowsLastTick
  <2>. QED
    BY <2>1, <2>2, <2>3
<1>2. CASE PopJob
  <2>1. /\ Len(jobs') = Len(jobs) - 1 /\ Len(jobs) >= 1 /\ Head(jobs) = jobs[1]
        /\ \A n \in 1 .. Len(jobs') : jobs'[n] = jobs[n + 1]
    BY <1>2, HeadTailProperties DEF PopJob
  <2> DEFINE j == jobs[1]
  <2>2. j \in Jobs /\ Newer(j)
    BY <2>1, ElementOfSeq DEF OrderInv
  <2>3. /\ UNCHANGED <<seqno, priced, todo, lost, rows>>
        /\ ppc = "idle" /\ ppc' = "rows" /\ job' = j /\ latest' = [latest EXCEPT ![j.slice] = j.seqno]
    BY <1>2, <2>1, <2>2 DEF PopJob, compute, tick, IsNewer, Newer, Jobs
  <2>4. j.slice \in Slices /\ j.seqno \in Nat /\ latest[j.slice] < j.seqno /\ j.seqno <= seqno
    BY <2>2 DEF Newer, Jobs
  <2>5. CASE Queued
    <3>1. PICK n \in 1 .. Len(jobs) : jobs[n].slice = s /\ jobs[n].seqno = seqno
      BY <2>5
    <3>2. CASE n = 1
      BY <2>3, <3>1, <3>2 DEF Settled
    <3>3. CASE n # 1
      <4>1. n - 1 \in 1 .. Len(jobs') /\ jobs'[n - 1] = jobs[n]
        BY <2>1, <3>3
      <4>. QED
        BY <2>3, <3>1, <4>1 DEF Settled
    <3>. QED
      BY <3>2, <3>3
  <2>6. CASE latest[s] = seqno /\ Shown
    <3>. HIDE DEF j
    <3>1. j.slice # s
      BY <2>4, <2>6
    <3>2. latest'[s] = seqno
      BY <2>3, <2>4, <2>6, <3>1
    <3>. QED
      BY <2>3, <2>6, <3>2 DEF Settled, ShowsLastTick
  <2>7. CASE s \in todo \/ s \in lost
    BY <2>3, <2>7 DEF Settled
  <2>. QED
    BY <2>3, <2>5, <2>6, <2>7 DEF Settled
<1>3. CASE Exec
  <2>1. PICK n \in 0 .. Len(pipeline) :
          /\ rows' = Applied(n)
          /\ lost' = IF n < Len(pipeline) /\ job.seqno = seqno THEN lost \cup {job.slice} ELSE lost
    BY <1>3 DEF Exec
  <2>2. /\ UNCHANGED <<seqno, priced, todo, jobs, latest>> /\ ppc = "rows" /\ LastRowQueued
        /\ heap[job.batch].live /\ ~freed
    BY <1>3 DEF Exec, compute, tick
  <2>3. job.seqno = latest[job.slice] /\ job.slice \in Slices
        /\ \A p \in 1 .. Len(pipeline) : pipeline[p].key[1] = DateOf[job.slice]
    BY <2>2 DEF JobInv, PublisherOK, Jobs
  <2>4. CASE s = job.slice /\ job.seqno = seqno
    <3>1. CASE n < Len(pipeline)
      BY <2>1, <2>4, <3>1 DEF Settled
    <3>2. CASE n = Len(pipeline)
      <4>1. ASSUME NEW c \in Contracts, <<s, c>> \in priced \ again PROVE ShowsLastTick(s, c)'
        <5>1. rows' = Applied(Len(pipeline))
          BY <2>1, <3>2
        <5>2. <<DateOf[s], c>> \in DOMAIN rows' => rows'[<<DateOf[s], c>>] = [seqno |-> seqno, of |-> <<s, c>>]
          BY <2>2, <2>4, <4>1, <5>1, ExecShows
        <5>. QED
          BY <2>2, <5>2 DEF ShowsLastTick
      <4>. QED
        BY <2>2, <2>3, <2>4, <4>1 DEF Settled
    <3>. QED
      BY <3>1, <3>2, LenProperties DEF PublisherOK
  <2>5. CASE latest[s] = seqno /\ Shown /\ s # job.slice
    <3>1. ASSUME NEW c \in Contracts, <<s, c>> \in priced \ again PROVE ShowsLastTick(s, c)'
      <4> DEFINE k == <<DateOf[s], c>>
      <4>1. \A p \in 1 .. Len(pipeline) : pipeline[p].key # k
        BY <2>3, <2>5 DEF OwnDate
      <4>2. k \in DOMAIN Applied(n) => k \in DOMAIN rows /\ Applied(n)[k] = rows[k]
        BY <4>1, AppliedRows
      <4>3. k \in DOMAIN rows => rows[k] = [seqno |-> seqno, of |-> <<s, c>>]
        BY <2>5, <3>1 DEF ShowsLastTick
      <4>4. k \in DOMAIN rows' => rows'[k] = [seqno |-> seqno, of |-> <<s, c>>]
        BY <2>1, <4>2, <4>3
      <4>. QED
        BY <2>2, <4>4 DEF ShowsLastTick
    <3>. QED
      BY <2>2, <2>5, <3>1 DEF Settled
  <2>6. CASE s \in todo \/ s \in lost \/ Queued
    BY <2>1, <2>2, <2>6 DEF Settled
  <2>. QED
    BY <2>2, <2>3, <2>4, <2>5, <2>6 DEF Settled
<1>4. CASE HmsetThrows
  BY <1>4 DEF HmsetThrows, Settled
<1>5. ASSUME NEW x \in DOMAIN rows, Expire(x) PROVE Settled(s)'
  <2>1. UNCHANGED <<seqno, priced, todo, lost, jobs, ppc, job, latest>>
    BY <1>5 DEF Expire, compute, tick, publisher
  <2>2. \A k \in DOMAIN rows' : k \in DOMAIN rows /\ rows'[k] = rows[k]
    BY <1>5 DEF Expire, Restrict
  <2>. QED
    BY <2>1, <2>2 DEF Settled, ShowsLastTick
<1>6. CASE UNCHANGED <<todo, lost, jobs, ppc, job, latest, rows>>
  BY <1>6 DEF Settled, ShowsLastTick
<1>7. CASE QueueFreedRow
  BY <1>7 DEF QueueFreedRow
<1>8. CASE StrayWrite
  BY <1>8 DEF StrayWrite, Settled
<1>. QED
  BY <1>1, <1>2, <1>3, <1>4, <1>5, <1>6, <1>7, <1>8, FlushFrame
     DEF Next, Tick, Publish, TickDone, QueueRow, compute, tick, publisher, output,
        FlushDone

LEMMA StepSettledInv ==
  ASSUME CInv, JobInv, PipelineInv, OrderInv, CoverInv, CurrentInv, SettledInv, Next
  PROVE  SettledInv'
<1>1. (NoWrap' => NoWrap) /\ (ProcessTick \/ UNCHANGED <<seqno, priced>>)
  BY NoWrapBack DEF CInv
<1> SUFFICES ASSUME NoWrap', ~freed' PROVE (\A sc \in priced : OwnDate(sc[1]) => Settled(sc[1]))'
  <2>1. priced' \subseteq Priced
    BY <1>1 DEF ProcessTick, SettledInv
  <2>. QED
    BY <2>1 DEF SettledInv
<1>2. CASE ProcessTick
  BY <1>2 DEF ProcessTick, Settled, Priced
<1>3. CASE ~ProcessTick
  <2>1. ~freed
    BY FlushFrame
       DEF Next, Tick, Publish, ProcessTick, EnqueueJob, TickDone, PopJob, QueueRow,
          QueueFreedRow, HmsetThrows, Exec, Expire, StrayWrite, compute, tick, publisher,
          output, FlushDone
  <2> SUFFICES ASSUME NEW sc \in priced', OwnDate(sc[1]) PROVE Settled(sc[1])'
    BY DEF OwnDate
  <2>2. sc \in priced /\ UNCHANGED <<seqno, priced>>
    BY <1>1, <1>3
  <2>3. PICK s : s = sc[1]
    OBVIOUS
  <2>4. s \in Slices
    BY <2>2, <2>3 DEF SettledInv, Priced
  <2>. QED
    BY <1>1, <1>3, <2>1, <2>2, <2>3, <2>4, SettledStep DEF SettledInv
<1>. QED
  BY <1>2, <1>3

LEMMA InitLInv == Init => LInv
<1>. SUFFICES ASSUME Init PROVE LInv
  OBVIOUS
<1>1. CInv /\ JobInv /\ PipelineInv
  BY InitCInv, InitRInv DEF RInv
<1>2. OwnerInv /\ AppendInv /\ FreshInv
  BY EmptySeq DEF Init, OwnerInv, AppendInv, FreshInv
<1>3. OrderInv
  BY EmptySeq DEF Init, OrderInv
<1>4. CoverInv /\ CurrentInv /\ SettledInv
  BY EmptySeq DEF Init, CoverInv, CurrentInv, SettledInv
<1>. QED
  BY <1>1, <1>2, <1>3, <1>4 DEF LInv

LEMMA StepLInv ==
  ASSUME LInv, [Next]_vars
  PROVE  LInv'
<1>1. CInv'
  BY StepCInv DEF LInv
<1>2. CASE Next
  <2>1. JobInv' /\ PipelineInv'
    BY <1>2, StepJobInv DEF LInv, CInv
  <2>2. OwnerInv' /\ AppendInv' /\ FreshInv'
    BY <1>2, StepOwnerInv, StepAppendInv, StepFreshInv DEF LInv, CInv
  <2>4. OrderInv' /\ CoverInv'
    BY <1>2, StepOrderInv, StepCoverInv DEF LInv, CInv
  <2>3. CurrentInv' /\ SettledInv'
    BY <1>2, StepCurrentInv, StepSettledInv DEF LInv
  <2>. QED
    BY <1>1, <2>1, <2>2, <2>3, <2>4 DEF LInv
<1>3. CASE UNCHANGED vars
  <2>. USE <1>3 DEF vars, compute, publisher, output, registry, batches, tick, LInv
  <2>1. JobInv' /\ PipelineInv'
    BY DEF JobInv, PipelineInv
  <2>2. OwnerInv' /\ AppendInv'
    BY DEF OwnerInv, AppendInv
  <2>7. FreshInv'
    BY DEF FreshInv, Fresh, NoWrap
  <2>3. OrderInv'
    BY DEF OrderInv, NoWrap, Newer
  <2>4. CoverInv'
    BY DEF CoverInv, NoWrap, Covers
  <2>5. CurrentInv'
    BY DEF CurrentInv, RowInv, NoWrap
  <2>6. SettledInv'
    BY DEF SettledInv, NoWrap, Settled, ShowsLastTick
  <2>. QED
    BY <1>1, <2>1, <2>2, <2>3, <2>4, <2>5, <2>6, <2>7
<1>. QED
  BY <1>2, <1>3

(***************************************************************************)
(* When nothing is pending, the row of every contract priced at the last   *)
(* tick shows that tick, for any number of slices, contracts, batches,     *)
(* ticks and queued jobs, and any first value of the sequence number;      *)
(* unless the last job of its slice was dropped or not executed, the       *)
(* counter has wrapped around, the slice shares its date, a freed batch    *)
(* was read, or a flush since then gave it a second slot in its batch.     *)
(***************************************************************************)
THEOREM LastTickIsShownThm == Spec => []LastTickIsShown
<1>1. LInv => LastTickIsShown
  <2> SUFFICES ASSUME LInv, NothingPending, NoWrap, ~freed, NEW sc \in priced \ again,
                      sc[1] \notin lost, OwnDate(sc[1])
               PROVE  ShowsLastTick(sc[1], sc[2])
    BY DEF LastTickIsShown, NoWrap
  <2>1. todo = {} /\ jobs = <<>> /\ ppc = "idle" /\ 1 .. Len(jobs) = {}
    BY EmptySeq DEF NothingPending, LInv, CInv, IInv, PointerInv
  <2>2. Settled(sc[1])
    BY DEF LInv, SettledInv
  <2>3. \A c \in Contracts : <<sc[1], c>> \in priced \ again => ShowsLastTick(sc[1], c)
    BY <2>1, <2>2 DEF Settled
  <2>4. sc[2] \in Contracts /\ sc = <<sc[1], sc[2]>>
    BY DEF LInv, SettledInv, Priced
  <2>. QED
    BY <2>3, <2>4
<1>. QED
  BY <1>1, InitLInv, StepLInv, PTL DEF Spec
=============================================================================
