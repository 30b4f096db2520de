---------------------------- MODULE Orchestrator ----------------------------
(***************************************************************************)
(* core/registry and core/orchestrator: which contracts the engine prices. *)
(* A contract opened by the user goes through a bounded queue from the     *)
(* gRPC thread to the compute thread, whose flush retires expired slices,  *)
(* registers the new contracts and places each in the batch of its slice   *)
(* (a slice is a symbol and an expiry).                                    *)
(*                                                                         *)
(* The registry numbers the expiries of a symbol in order of arrival (from *)
(* 1 here).  All vanilla payoffs belong to one engine and one payoff       *)
(* group, so a slice has at most one batch and a batch one range: the      *)
(* sequence of its slots in use.  A contract appended past the end of the  *)
(* arrays (ExpiryBatch) takes no slot, and the process may end by it until *)
(* the batch is rebuilt; what else the stray writes may hit is left out.   *)
(* Definitions marked mutant are not part of the model.                    *)
(***************************************************************************)
EXTENDS Integers, SequencesExt

CONSTANTS
  Seeds,              \* the contracts run_core starts with, in order
  Orders,             \* the contracts a user may open: records with fields
                      \* symbol, expiry (a time or Malformed), strike, payoff
  LookupScaled,       \* a strike in the key the registry looks up: the double
                      \* times STRIKE_SCALE, truncated
  StoredScaled,       \* a strike in the key it stores, and prices: the float
                      \* times STRIKE_SCALE, truncated
  MinHeadroom,        \* 5
  Capacity,           \* of the queue of opened contracts (1024)
  Grace,              \* GRACE_PERIOD_NS
  MaxOrders,          \* bound: orders the gRPC server receives
  MaxTime             \* bound: the clock

ASSUME SeedsAssumption ==
  Seeds \in Seq(ToSet(Seeds)) /\ \A i \in DOMAIN Seeds : Seeds[i].expiry \in Nat
ASSUME OrdersAssumption == \A c \in Orders : c.expiry \in Nat \cup {-1}
ASSUME StrikesAssumption ==
  \A c \in Orders \cup ToSet(Seeds) : c.strike \in DOMAIN StoredScaled
ASSUME CapacityAssumption == Capacity \in Nat \ {0}
ASSUME HeadroomAssumption == MinHeadroom \in Nat \ {0}
ASSUME GraceAssumption == Grace \in Nat
ASSUME BoundsAssumption == MaxOrders \in Nat /\ MaxTime \in Nat

Malformed == -1       \* an expiry parse_time throws on

Symbols == {c.symbol : c \in Orders \cup ToSet(Seeds)}

VARIABLES
  now,                \* the clock
  seeds,              \* contracts of initialize_state not yet registered
  received,           \* the orders the gRPC server has received so far
  opened,             \* opened_contracts_
  reg,                \* the registry
  batches,            \* per symbol, the batch of each expiry that has one
  room,               \* per slice, the slots its batch has left, negative once
                      \* the range of the batch has left its arrays
  pc,                 \* where the compute thread is in flush_changes
  metas,              \* new_contract_metas not yet placed
  processed,          \* processed_batches
  \* history
  strayed,            \* symbols that a retirement hit through a stale pointer
  late                \* slices a contract was placed in after they retired

server == <<received, opened>>
flush == <<seeds, reg, batches, room, pc, metas, processed, strayed, late>>
vars == <<now, server, flush>>

-----------------------------------------------------------------------------
(* UniverseRegistry: a record of three functions of the symbol.             *)

EmptyRegistry ==
  [expiries  |-> [s \in Symbols |-> <<>>],    \* id_to_expiry_
   contracts |-> [s \in Symbols |-> <<>>],    \* id_to_contract_, per expiry
   queue     |-> [s \in Symbols |-> {}]]      \* expiry_queues_

HasExpiry(r, s, t) == t \in ToSet(r.expiries[s])

\* expiry_to_id_
IdOf(r, s, t) == CHOOSE e \in DOMAIN r.expiries[s] : r.expiries[s][e] = t

LookupKey(c) == [strike |-> LookupScaled[c.strike], payoff |-> c.payoff]
StoredKey(c) == [strike |-> StoredScaled[c.strike], payoff |-> c.payoff]

AlwaysNew(r, c) == FALSE                                           \* mutant
\* missing_level_of returns EXISTS
Exists(r, c) ==
  /\ HasExpiry(r, c.symbol, c.expiry)
  /\ LookupKey(c) \in ToSet(r.contracts[c.symbol][IdOf(r, c.symbol, c.expiry)])

AddExpiry(r, s, t) ==
  [expiries  |-> [r.expiries EXCEPT ![s] = Append(@, t)],
   contracts |-> [r.contracts EXCEPT ![s] = Append(@, <<>>)],
   queue     |-> [r.queue EXCEPT ![s] = @ \cup {t}]]

\* One iteration of the loops of add_contracts and flush_user_changes.
Register(r, c) ==
  IF Exists(r, c) THEN r
  ELSE LET s  == c.symbol
           r1 == IF HasExpiry(r, s, c.expiry) THEN r ELSE AddExpiry(r, s, c.expiry)
           e  == IdOf(r1, s, c.expiry)
       IN [r1 EXCEPT !.contracts[s][e] = Append(@, StoredKey(c))]

(***************************************************************************)
(* ns_to_meta_ keeps pointers into the vector expiry_metas_[symbol], which *)
(* moves when it grows past a power of two: with n expiries, the pointer   *)
(* of the e-th is stale if the vector has moved since it was taken.        *)
(***************************************************************************)
Stale(e, n) == \E k \in 0 .. n : e <= 2^k /\ 2^k < n

-----------------------------------------------------------------------------
Init ==
  /\ now = 0
  /\ received = 0
  /\ opened = <<>>
  /\ seeds = Seeds
  /\ reg = EmptyRegistry
  /\ batches = [s \in Symbols |-> <<>>]
  /\ room = <<>>
  /\ pc = "boot"
  /\ metas = <<>>
  /\ processed = {}
  /\ strayed = {}
  /\ late = {}

-----------------------------------------------------------------------------
(* initialize_state, before any thread starts.                              *)

\* add_contracts, one contract
AddSeed ==
  /\ pc = "boot"
  /\ seeds # <<>>
  /\ reg' = Register(reg, Head(seeds))
  /\ seeds' = Tail(seeds)
  /\ UNCHANGED <<now, server, batches, room, pc, metas, processed, strayed, late>>

\* the empty slots of a batch built with n contracts: max(0.2 n, 5)
Headroom(n) == IF n \div 5 > MinHeadroom THEN n \div 5 ELSE MinHeadroom

\* one batch per slice
BuildBatches ==
  /\ pc = "boot"
  /\ seeds = <<>>
  /\ batches' = reg.contracts
  /\ room' = [x \in UNION {{s} \X DOMAIN reg.contracts[s] : s \in Symbols} |->
                Headroom(Len(reg.contracts[x[1]][x[2]]))]
  /\ pc' = "idle"
  /\ UNCHANGED <<now, server, seeds, reg, metas, processed, strayed, late>>

-----------------------------------------------------------------------------
(* The clock, and enqueue_contract on the gRPC thread.                      *)

Running == pc \notin {"boot", "dead"}

Advance ==
  /\ Running
  /\ now < MaxTime
  /\ now' = now + 1
  /\ UNCHANGED <<server, flush>>

RoomForOneMore == Len(opened) <= Capacity                          \* mutant
WriteAvailable == Len(opened) < Capacity

Enqueue(c) ==
  /\ Running
  /\ received < MaxOrders
  /\ received' = received + 1
  /\ IF WriteAvailable
     THEN opened' = Append(opened, c)
     ELSE UNCHANGED opened
  /\ UNCHANGED <<now, flush>>

-----------------------------------------------------------------------------
(* StateOrchestrator::flush_changes, on the compute thread: retire.         *)

DueAtExpiry(s) == {t \in reg.queue[s] : now >= t}                  \* mutant
Due(s) == {t \in reg.queue[s] : now >= t + Grace}

\* ids from 1 taken for ids from 0
DueIdsShifted(s) ==                                                \* mutant
  {e \in DOMAIN reg.expiries[s] : e > 1 /\ reg.expiries[s][e - 1] \in Due(s)}
DueIds(s) == {e \in DOMAIN reg.expiries[s] : reg.expiries[s][e] \in Due(s)}
StaleDue(s) == {e \in DueIds(s) : Stale(e, Len(reg.expiries[s]))}

(***************************************************************************)
(* find_expired_slices pops what is due, then looks at the top of a queue  *)
(* that may now be empty: it finds the value it has just popped, and goes  *)
(* on for ever, or until the list of retired expiries exhausts memory.     *)
(***************************************************************************)
QueueRunsEmpty == \E s \in Symbols : Due(s) # {} /\ Due(s) = reg.queue[s]

HangInRetire ==
  /\ pc = "idle"
  /\ QueueRunsEmpty
  /\ pc' = "stuck"
  /\ UNCHANGED <<now, server, seeds, reg, batches, room, metas, processed, strayed,
                 late>>

OutOfMemory ==
  /\ pc = "stuck"
  /\ pc' = "dead"
  /\ UNCHANGED <<now, server, seeds, reg, batches, room, metas, processed, strayed,
                 late>>

(***************************************************************************)
(* retire_expiry_slices erases the batch of each due expiry.  The expiry   *)
(* id is read through the meta pointer; through a stale one any id may     *)
(* come out, that of some batch of the symbol or of none.                  *)
(***************************************************************************)
Retire ==
  /\ pc = "idle"
  /\ ~QueueRunsEmpty
  /\ \E stray \in [Symbols -> SUBSET UNION {DOMAIN batches[s] : s \in Symbols}] :
       /\ \A s \in Symbols :
            /\ stray[s] \subseteq DOMAIN batches[s]
            /\ Cardinality(stray[s]) <= Cardinality(StaleDue(s))
       /\ batches' = [s \in Symbols |->
            LET gone == (DueIds(s) \ StaleDue(s)) \cup stray[s]
            IN Restrict(batches[s], DOMAIN batches[s] \ gone)]
  /\ reg' = [reg EXCEPT !.queue = [s \in Symbols |-> @[s] \ Due(s)]]
  /\ strayed' = strayed \cup {s \in Symbols : StaleDue(s) # {}}
  /\ pc' = "drain"
  /\ UNCHANGED <<now, server, seeds, room, metas, processed, late>>

-----------------------------------------------------------------------------
(* flush_changes: register the opened contracts.                            *)

Meta(c, r) ==
  LET e == IdOf(r, c.symbol, c.expiry)
  IN [symbol |-> c.symbol, expiry |-> e, contract |-> Len(r.contracts[c.symbol][e])]

MetasOfAll(c, r) == Append(metas, Meta(c, r))                      \* mutant
MetasWith(c, r) == IF Exists(reg, c) THEN metas ELSE Append(metas, Meta(c, r))

PopContract ==
  /\ pc = "drain"
  /\ opened # <<>>
  /\ opened' = Tail(opened)
  /\ Head(opened).expiry # Malformed
  /\ reg' = Register(reg, Head(opened))
  /\ metas' = MetasWith(Head(opened), Register(reg, Head(opened)))
  /\ UNCHANGED <<now, received, seeds, batches, room, pc, processed, strayed, late>>

\* parse_time throws, and nothing on the compute thread catches it.
DieOnMalformed ==
  /\ pc = "drain"
  /\ opened # <<>>
  /\ Head(opened).expiry = Malformed
  /\ pc' = "dead"
  /\ UNCHANGED <<now, server, seeds, reg, batches, room, metas, processed, strayed,
                 late>>

\* open.pop(contract) returned false
Drained ==
  /\ pc = "drain"
  /\ opened = <<>>
  /\ pc' = "place"
  /\ UNCHANGED <<now, server, seeds, reg, batches, room, metas, processed, strayed,
                 late>>

-----------------------------------------------------------------------------
(* flush_changes: place the new contracts, m being contract_meta.           *)
(* check_batch_need asks has_headroom, which for the only range of a batch  *)
(* compares with a range past the end of the vector: either answer may come *)
(* out, whatever room there is.  Asked again by add_to_existing_batch, with *)
(* nothing in between, it gives the same answer.                            *)

m == Head(metas)
Slice == <<m.symbol, m.expiry>>
HasBatch == m.expiry \in DOMAIN batches[m.symbol]

NextMeta ==
  /\ pc = "place"
  /\ metas # <<>>
  /\ metas' = Tail(metas)
  /\ late' = IF reg.expiries[m.symbol][m.expiry] \in reg.queue[m.symbol]
             THEN late ELSE late \cup {Slice}
  /\ UNCHANGED <<now, server, seeds, reg, pc, strayed>>

ThisContract == reg.contracts[m.symbol][m.expiry][m.contract]

\* create_or_recreate_batch collects every registered contract of the slice
SliceContracts == reg.contracts[m.symbol][m.expiry]

Put(f, e, value) == [x \in DOMAIN f \cup {e} |-> IF x = e THEN value ELSE f[x]]

BuildBatch ==
  /\ Slice \notin processed
  /\ processed' = processed \cup {Slice}
  /\ batches' = [batches EXCEPT ![m.symbol] = Put(@, m.expiry, SliceContracts)]
  /\ room' = Put(room, Slice, Headroom(Len(SliceContracts)))

\* reason "new expiry"
CreateBatch == NextMeta /\ ~HasBatch /\ BuildBatch

\* reason "headroom ran out", because has_headroom said no
RecreateBatch == NextMeta /\ HasBatch /\ BuildBatch

\* has_headroom said no, but the batch was built in this flush
SkipContract ==
  /\ NextMeta
  /\ HasBatch
  /\ Slice \in processed
  /\ UNCHANGED <<batches, room, processed>>

\* add_to_existing_batch, because has_headroom said yes
GrowRange ==
  /\ NextMeta
  /\ HasBatch
  /\ room' = Put(room, Slice, room[Slice] - 1)
  /\ UNCHANGED processed

AppendContract ==
  /\ GrowRange
  /\ room[Slice] > 0
  /\ batches' = [batches EXCEPT ![m.symbol][m.expiry] = Append(@, ThisContract)]

\* ... of a batch without an empty slot: the range grows all the same, the
\* contract is written past the arrays, and nothing will price it
AppendPastEnds ==
  /\ GrowRange
  /\ room[Slice] <= 0
  /\ UNCHANGED batches

Overran == {x \in DOMAIN room : room[x] < 0}

\* What append_new_contract, or a tick over the range, wrote past the arrays
\* of a batch ends the process, at any time.
StrayWrite ==
  /\ Running
  /\ Overran # {}
  /\ pc' = "dead"
  /\ UNCHANGED <<now, server, seeds, reg, batches, room, metas, processed, strayed,
                 late>>

\* processed_batches outlives the flush
FlushDoneKeeping ==                                                \* mutant
  /\ pc = "place"
  /\ metas = <<>>
  /\ pc' = "idle"
  /\ UNCHANGED <<now, server, seeds, reg, batches, room, metas, processed, strayed,
                 late>>
FlushDone ==
  /\ pc = "place"
  /\ metas = <<>>
  /\ pc' = "idle"
  /\ processed' = {}
  /\ UNCHANGED <<now, server, seeds, reg, batches, room, metas, strayed, late>>

-----------------------------------------------------------------------------
Boot == AddSeed \/ BuildBatches
StartFlush == HangInRetire \/ Retire
Pop == PopContract \/ DieOnMalformed \/ Drained
Place ==
  \/ CreateBatch \/ RecreateBatch \/ SkipContract
  \/ AppendContract \/ AppendPastEnds
  \/ FlushDone
Compute == Boot \/ StartFlush \/ Pop \/ Place

Next ==
  \/ Advance
  \/ \E c \in Orders : Enqueue(c)
  \/ Compute
  \/ OutOfMemory
  \/ StrayWrite

(***************************************************************************)
(* compute_core flushes on every tick, and at least every 5 seconds; the   *)
(* clock advances.  Nothing obliges a user to open contracts.              *)
(***************************************************************************)
Fairness == WF_vars(Compute) /\ WF_vars(Advance)

Spec == Init /\ [][Next]_vars
FairSpec == Spec /\ Fairness

-----------------------------------------------------------------------------
Key == [strike : Range(StoredScaled), payoff : {c.payoff : c \in Orders \cup ToSet(Seeds)}]

TypeOK ==
  /\ now \in 0 .. MaxTime
  /\ received \in 0 .. MaxOrders
  /\ seeds \in Seq(ToSet(Seeds))
  /\ opened \in Seq(Orders)
  /\ Len(opened) <= Capacity
  /\ reg.expiries \in [Symbols -> Seq(Nat)]
  /\ reg.contracts \in [Symbols -> Seq(Seq(Key))]
  /\ reg.queue \in [Symbols -> SUBSET Nat]
  /\ \A s \in Symbols : \A e \in DOMAIN batches[s] :
       /\ e \in DOMAIN reg.expiries[s]
       /\ batches[s][e] \in Seq(Key)
       /\ <<s, e>> \in DOMAIN room
  /\ \A x \in DOMAIN room : x \in Symbols \X Nat /\ room[x] \in Int
  /\ pc \in {"boot", "idle", "drain", "place", "stuck", "dead"}
  /\ \A i \in DOMAIN metas :
       /\ metas[i].expiry \in DOMAIN reg.contracts[metas[i].symbol]
       /\ metas[i].contract \in
            DOMAIN reg.contracts[metas[i].symbol][metas[i].expiry]
  /\ processed \subseteq Symbols \X Nat
  /\ strayed \subseteq Symbols
  /\ late \subseteq Symbols \X Nat

(***************************************************************************)
(* Between flushes a batch holds nothing but contracts of its slice, and   *)
(* it holds all that are registered, in whatever order they arrived and    *)
(* whether one was appended, collected by a rebuild or skipped because a   *)
(* rebuild had collected it; unless has_headroom said yes of a full batch: *)
(* what was appended past its arrays is missing until the next rebuild.    *)
(***************************************************************************)
BatchHoldsItsSlice ==
  pc = "idle" =>
    \A s \in Symbols : \A e \in DOMAIN batches[s] :
      /\ ToSet(batches[s][e]) \subseteq ToSet(reg.contracts[s][e])
      /\ <<s, e>> \notin Overran =>
           ToSet(reg.contracts[s][e]) \subseteq ToSet(batches[s][e])

Count(seq, x) == Cardinality({i \in DOMAIN seq : seq[i] = x})

(***************************************************************************)
(* A contract collected by a rebuild may be appended once more in the same *)
(* flush, but the surplus never grows after that: no slot is taken more    *)
(* than twice for one registered contract.                                 *)
(***************************************************************************)
AtMostTwice ==
  \A s \in Symbols : \A e \in DOMAIN batches[s] :
    \A k \in ToSet(batches[s][e]) :
      Count(batches[s][e], k) <= 2 * Count(reg.contracts[s][e], k)

(***************************************************************************)
(* Ordering a contract again does not register it again, across flushes    *)
(* and within one: the only contracts registered twice are those whose     *)
(* strike the registry looks up under another key than it stores it.       *)
(***************************************************************************)
RegisteredOnce ==
  \A s \in Symbols : \A e \in DOMAIN reg.contracts[s] :
    \A k \in ToSet(reg.contracts[s][e]) :
      Count(reg.contracts[s][e], k) > 1 =>
        \E x \in DOMAIN StoredScaled :
          StoredScaled[x] = k.strike /\ LookupScaled[x] # k.strike

(***************************************************************************)
(* Between flushes every slice awaiting retirement has its batch, and a    *)
(* slice that has retired has none, unless a contract was opened in it     *)
(* after that; a symbol hit by a retirement through a stale pointer is     *)
(* excepted from both.                                                     *)
(***************************************************************************)
ServedUntilRetired ==
  pc = "idle" =>
    \A s \in Symbols \ strayed : \A e \in DOMAIN reg.expiries[s] :
      /\ reg.expiries[s][e] \in reg.queue[s] => e \in DOMAIN batches[s]
      /\ e \in DOMAIN batches[s] =>
           reg.expiries[s][e] \in reg.queue[s] \/ <<s, e>> \in late

(***************************************************************************)
(* No step drops the batch of a slice before its expiry is past by the     *)
(* grace period, except a retirement through a stale pointer in the same   *)
(* symbol.                                                                 *)
(***************************************************************************)
DroppedOnlyAfterGrace ==
  [][\A s \in Symbols : \A e \in DOMAIN batches[s] \ DOMAIN batches'[s] :
       now >= reg.expiries[s][e] + Grace \/ StaleDue(s) # {}]_vars

\* A slot holds the contract, under the key of its own strike or that of
\* another strike which the registry takes it for.
InBatch(c) ==
  /\ HasExpiry(reg, c.symbol, c.expiry)
  /\ LET e == IdOf(reg, c.symbol, c.expiry)
     IN /\ e \in DOMAIN batches[c.symbol]
        /\ {StoredKey(c), LookupKey(c)} \cap ToSet(batches[c.symbol][e]) # {}

Retired(c) ==
  HasExpiry(reg, c.symbol, c.expiry) /\ c.expiry \notin reg.queue[c.symbol]

\* The batch of its slice has overrun its arrays.
PastEnds(c) ==
  HasExpiry(reg, c.symbol, c.expiry)
    /\ <<c.symbol, IdOf(reg, c.symbol, c.expiry)>> \in Overran

(***************************************************************************)
(* A contract waiting in the queue eventually has a slot in the batch of   *)
(* its slice, unless the slice retires first, the symbol was hit by a      *)
(* stray retirement, the batch overran its arrays, or the compute thread   *)
(* no longer flushes.  When the slot is priced then depends on the ticks   *)
(* of its symbol, which ComputeLoop is about: a symbol without a feed, as  *)
(* any but the two of runtime.cpp, has none.                               *)
(***************************************************************************)
OpenedIsPlaced ==
  \A c \in Orders :
    c \in ToSet(opened) ~>
      \/ InBatch(c)
      \/ Retired(c) \/ c.symbol \in strayed \/ PastEnds(c)
      \/ pc \in {"stuck", "dead"}

-----------------------------------------------------------------------------
(* What a comment says, and the code does not keep.                         *)

(***************************************************************************)
(* "Flush changes every 5 seconds" (runtime.cpp:74): the compute thread    *)
(* comes back from every flush.                                            *)
(***************************************************************************)
FlushesForEver == []<>(pc = "idle")
=============================================================================
