----------------------------- MODULE ExpiryBatch -----------------------------
(***************************************************************************)
(* core/state and core/engine: the memory of one batch.  It is a structure *)
(* of arrays with empty slots at the end: contracts (strikes_ and          *)
(* payoff_types_), the sign of the payoff (vanilla_type_mask_), scratch    *)
(* numbers of the tick (d1_, d2_), and results (theo_, delta_ ...), double *)
(* buffered.  A contract is appended to the next empty slot; a tick fills  *)
(* the scratch, evaluates slot after slot into the write buffers and swaps *)
(* them with those that jobs are copied from; a rebuild starts again from  *)
(* the registry's list with new empty slots.                               *)
(*                                                                         *)
(* A number is represented by what it was computed from.  Vanilla payoffs  *)
(* are one group, so there is one range, 1 .. used (from 1 here).          *)
(*                                                                         *)
(* has_headroom compares the end of the range with the start of the next   *)
(* one, and for the only range it reads that past the end of the vector of *)
(* ranges.  So nothing keeps the range within the arrays.  Accesses past   *)
(* their ends are modelled as reaching no array of the batch, or ending    *)
(* the process; what else such a write may hit in memory is left out.      *)
(*                                                                         *)
(* Definitions marked mutant are not part of the model.                    *)
(***************************************************************************)
EXTENDS Integers, Sequences

CONSTANTS
  Strikes,
  Lists,              \* the lists of contracts the registry may hold
  NarrowedStrike,     \* a strike through the float of append_new_contract
  MinHeadroom,        \* 5
  PastVector,         \* what may be read past contract_ranges_; it bounds used
  MaxTicks            \* bound: ticks

Contracts == [strike : Strikes, payoff : {"VAN_CALL", "VAN_PUT"}]
Blank == [strike |-> 0, payoff |-> "PAYOFFTYPE_ERROR"]

ASSUME ListsAssumption == Lists \subseteq Seq(Contracts)
ASSUME NarrowAssumption == NarrowedStrike \in [Strikes -> Strikes]
ASSUME BoundsAssumption ==
  MinHeadroom \in Nat /\ MaxTicks \in Nat /\ PastVector \subseteq Nat

VARIABLES
  slots, mask,        \* per slot
  used,               \* the end of the range
  d,                  \* scratch: of which strike and tick
  buffers, write,     \* DoubleBuffer
  tick,               \* of the snapshot
  pc, i,              \* within process_tick
  priced              \* history: the slots of the last tick

batch == <<slots, mask, used>>
vars == <<batch, d, buffers, write, tick, pc, i, priced>>

\* max(0.2 n, 5)
Headroom(n) == IF n \div 5 > MinHeadroom THEN n \div 5 ELSE MinHeadroom
Cells == 1 .. Len(slots)

\* the range as far as the arrays go, which is where prepare_tick ends too
Filled == IF used < Len(slots) THEN used ELSE Len(slots)
InUse == 1 .. Filled

\* what follows an access past the ends of the arrays
Stray == pc' \in {pc, "dead"}

Sign(payoff) ==
  CASE payoff = "VAN_CALL" -> 1 [] payoff = "VAN_PUT" -> -1 [] OTHER -> 0

NoScratch == [strike |-> 0, tick |-> 0]
NoResult == [strike |-> 0, sign |-> 0, d |-> NoScratch, tick |-> 0]

Init ==
  /\ slots = <<>>
  /\ mask = <<>>
  /\ used = 0
  /\ d = <<>>
  /\ buffers = [b \in {0, 1} |-> <<>>]
  /\ write = 0
  /\ tick = 0
  /\ pc = "idle"
  /\ i = 1
  /\ priced = 0

-----------------------------------------------------------------------------
\* build_expiry_batch and the constructor: contracts first, then headroom
Built(cs) ==
  [n \in 1 .. Len(cs) + Headroom(Len(cs)) |-> IF n <= Len(cs) THEN cs[n] ELSE Blank]

\* an array of the length of strikes_
WithoutHeadroom(cs, x) == [n \in DOMAIN cs |-> x]                   \* mutant
Arrays(cs, x) == [n \in DOMAIN Built(cs) |-> x]

Build(cs) ==
  /\ pc = "idle"
  /\ slots' = Built(cs)
  /\ mask' = [n \in DOMAIN slots' |-> Sign(slots'[n].payoff)]
  /\ used' = Len(cs)
  /\ d' = Arrays(cs, NoScratch)
  /\ buffers' = [b \in {0, 1} |-> Arrays(cs, NoResult)]
  /\ write' = 0
  /\ priced' = 0
  /\ UNCHANGED <<tick, pc, i>>

Narrowed == [c \in Contracts |-> [c EXCEPT !.strike = NarrowedStrike[@]]]

\* has_headroom, which read past where the next range would start
HasHeadroom(past) == used < past

MaskAsItWas(c) == mask                                             \* mutant
MaskWith(c) == [mask EXCEPT ![used + 1] = Sign(c.payoff)]

\* append_new_contract, of BSBatch and of IExpiryBatch: the range grows
\* first, then the slot it grew over is written, if there is one
AppendContract(c) ==
  /\ pc = "idle"
  /\ \E past \in PastVector : HasHeadroom(past)
  /\ used' = used + 1
  /\ \/ /\ used < Len(slots)
        /\ slots' = [slots EXCEPT ![used + 1] = Narrowed[c]]
        /\ mask' = MaskWith(c)
        /\ UNCHANGED pc
     \/ /\ used >= Len(slots)
        /\ Stray
        /\ UNCHANGED <<slots, mask>>
  /\ UNCHANGED <<d, buffers, write, tick, i, priced>>

-----------------------------------------------------------------------------
(* IExpiryBatch::process_tick.                                              *)

BeginTick ==
  /\ pc = "idle"
  /\ tick < MaxTicks
  /\ tick' = tick + 1
  /\ pc' = "prepare"
  /\ UNCHANGED <<batch, d, buffers, write, i, priced>>

\* prepare_tick: d1_ and d2_ of every slot in the range
Prepare ==
  /\ pc = "prepare"
  /\ d' = [n \in Cells |->
             IF n \in InUse THEN [strike |-> slots[n].strike, tick |-> tick] ELSE d[n]]
  /\ pc' = "evaluate"
  /\ i' = 1
  /\ UNCHANGED <<batch, buffers, write, tick, priced>>

\* evaluate_vanilla, one slot
Result(n) ==
  [strike |-> slots[n].strike, sign |-> mask[n], d |-> d[n], tick |-> tick]

\* where the loop of evaluate_vanilla ends: unlike that of prepare_tick it
\* does not look at the length of the arrays
EverySlot == Len(slots)                                            \* mutant
RangeEnd == used

Evaluate ==
  /\ pc = "evaluate"
  /\ i <= RangeEnd
  /\ i' = i + 1
  /\ \/ /\ i \in Cells
        /\ buffers' = [buffers EXCEPT ![write][i] = Result(i)]
        /\ UNCHANGED pc
     \/ /\ i \notin Cells
        /\ Stray
        /\ UNCHANGED buffers
  /\ UNCHANGED <<batch, d, write, tick, priced>>

SwapBuffers ==
  /\ pc = "evaluate"
  /\ i > RangeEnd
  /\ write' = 1 - write
  /\ pc' = "idle"
  /\ i' = 1
  /\ priced' = Filled
  /\ UNCHANGED <<batch, d, buffers, tick>>

ProcessTick == BeginTick \/ Prepare \/ Evaluate \/ SwapBuffers

Next ==
  \/ \E cs \in Lists : Build(cs)
  \/ \E c \in Contracts : AppendContract(c)
  \/ ProcessTick

Spec == Init /\ [][Next]_vars

-----------------------------------------------------------------------------
Scratches == [strike : Strikes \cup {0}, tick : 0 .. MaxTicks]
ResultsOf == [strike : Strikes \cup {0}, sign : {-1, 0, 1}, d : Scratches, tick : 0 .. MaxTicks]

(***************************************************************************)
(* The arrays of a batch have the length of strikes_ from its construction *)
(* on, for all that appends and ticks do, and what is priced is within     *)
(* them; the range itself may have left them (used is any number).         *)
(***************************************************************************)
TypeOK ==
  /\ slots \in Seq(Contracts \cup {Blank})
  /\ mask \in [Cells -> {-1, 0, 1}]
  /\ used \in Nat
  /\ d \in [Cells -> Scratches]
  /\ buffers \in [{0, 1} -> [Cells -> ResultsOf]]
  /\ write \in {0, 1}
  /\ tick \in 0 .. MaxTicks
  /\ pc \in {"idle", "prepare", "evaluate", "dead"}
  /\ i \in Nat \ {0}
  /\ priced \in 0 .. Len(slots)

Read == buffers[1 - write]

(***************************************************************************)
(* A slot that was not priced at the last tick shows zeros, never numbers  *)
(* of an earlier occupant or of the tick before: it may be published, when *)
(* its contract was appended after the results were copied.                *)
(***************************************************************************)
UnpricedShowsZeros == \A n \in Cells : n > priced => Read[n] = NoResult

(***************************************************************************)
(* The batch is a PricedSlice: what jobs are copied from shows, at every   *)
(* moment and however contracts were added, a result for each contract     *)
(* priced at the last tick, computed from its own strike and payoff and    *)
(* from scratch of its own and of that tick, and never half of a tick.  A  *)
(* contract appended past the ends of the arrays is not one of the list:   *)
(* nothing prices it.                                                      *)
(***************************************************************************)
Payoff(sign) ==
  CASE sign = 1 -> "VAN_CALL" [] sign = -1 -> "VAN_PUT" [] OTHER -> "PAYOFFTYPE_ERROR"

\* which contract and tick a result is of, if all its parts agree
Meaning(r) ==
  [of   |-> [strike |-> r.strike, payoff |-> Payoff(r.sign)],
   tick |-> IF r.d = [strike |-> r.strike, tick |-> r.tick] THEN r.tick ELSE 0]

Slice == INSTANCE PricedSlice WITH
  contracts <- [n \in InUse |-> slots[n]],
  shown <- [n \in 1 .. priced |-> Meaning(Read[n])]

ImplementsPricedSlice == Slice!Spec
=============================================================================
