-------------------------- MODULE ExpiryBatchProofs --------------------------
(***************************************************************************)
(* Theorems of ExpiryBatch, for any contracts, any headroom and any number *)
(* of ticks, whatever has_headroom reads past its vector.  The invariant   *)
(* follows one tick through the arrays: scratch is of the tick in the part *)
(* of the range that they hold, results are right up to slot i, and no     *)
(* buffer holds anything past the range.                                   *)
(***************************************************************************)
EXTENDS ExpiryBatch, SequenceTheorems, TLAPS

MaskInv == \A n \in InUse : slots[n] \in Contracts /\ mask[n] = Sign(slots[n].payoff)

Right(n) == [strike |-> slots[n].strike, sign |-> Sign(slots[n].payoff),
             d |-> [strike |-> slots[n].strike, tick |-> tick], tick |-> tick]

TickInv ==
  /\ pc \notin {"evaluate", "dead"} => i = 1
  /\ i <= used + 1
  /\ pc \in {"prepare", "evaluate"} => tick > 0
  /\ pc = "evaluate" =>
       /\ \A n \in InUse : d[n] = [strike |-> slots[n].strike, tick |-> tick]
       /\ \A n \in Cells : n < i => buffers[write][n] = Right(n)

EmptyInv ==
  /\ priced <= used
  /\ \A n \in Cells : n > used => buffers[write][n] = NoResult
  /\ \A n \in Cells : n > priced => buffers[1 - write][n] = NoResult

Inv == TypeOK /\ MaskInv /\ TickInv /\ EmptyInv

-----------------------------------------------------------------------------
(* Payoffs and their signs.                                                 *)

LEMMA SignFacts ==
  /\ Sign("VAN_CALL") = 1 /\ Sign("VAN_PUT") = -1 /\ Sign("PAYOFFTYPE_ERROR") = 0
  /\ Payoff(1) = "VAN_CALL" /\ Payoff(-1) = "VAN_PUT"
  BY DEF Sign, Payoff

LEMMA CellFacts ==
  ASSUME NEW c \in Contracts \cup {Blank}
  PROVE  /\ Sign(c.payoff) \in {-1, 0, 1}
         /\ c.strike \in Strikes \cup {0}
         /\ c \in Contracts => c.payoff = Payoff(Sign(c.payoff))
  BY SignFacts DEF Contracts, Blank

LEMMA SlotFacts ==
  ASSUME TypeOK
  PROVE  /\ Len(slots) \in Nat
         /\ slots \in [Cells -> Contracts \cup {Blank}]
         /\ InUse \subseteq Cells
         /\ \A n \in Cells : n \in InUse <=> n <= used
         /\ used \in Nat /\ priced \in Nat
         /\ Filled \in 0 .. Len(slots)
  BY LenProperties DEF TypeOK, Cells, InUse, Filled

LEMMA ZeroTypes ==
  NoScratch \in Scratches /\ NoResult \in ResultsOf
  BY BoundsAssumption DEF NoScratch, NoResult, Scratches, ResultsOf

LEMMA NarrowedFacts == Narrowed \in [Contracts -> Contracts]
  BY NarrowAssumption DEF Narrowed, Contracts

LEMMA InitInv == Init => Inv
<1> SUFFICES ASSUME Init PROVE Inv
  OBVIOUS
<1>1. slots \in Seq(Contracts \cup {Blank}) /\ Len(slots) = 0 /\ Cells = 1 .. 0
  BY EmptySeq DEF Init, Cells
<1>2. TypeOK
  BY <1>1, BoundsAssumption DEF Init, TypeOK
<1>3. MaskInv /\ TickInv /\ EmptyInv
  BY <1>1 DEF Init, MaskInv, TickInv, EmptyInv, InUse, Filled
<1> QED BY <1>2, <1>3 DEF Inv

-----------------------------------------------------------------------------
\* What a batch is built with.
LEMMA BuiltFacts ==
  ASSUME NEW cs \in Lists
  PROVE  /\ Len(cs) \in Nat /\ cs \in [1 .. Len(cs) -> Contracts]
         /\ Built(cs) \in Seq(Contracts \cup {Blank})
         /\ Len(cs) <= Len(Built(cs)) /\ Len(Built(cs)) \in Nat
         /\ DOMAIN Built(cs) = 1 .. Len(Built(cs))
         /\ \A n \in 1 .. Len(cs) : Built(cs)[n] = cs[n]
<1>1. Len(cs) \in Nat /\ cs \in [1 .. Len(cs) -> Contracts]
  BY ListsAssumption, LenProperties
<1>2. Len(cs) + Headroom(Len(cs)) \in Nat /\ Headroom(Len(cs)) \in Nat
  BY <1>1, BoundsAssumption DEF Headroom
<1>3. Built(cs) \in [1 .. Len(cs) + Headroom(Len(cs)) -> Contracts \cup {Blank}]
  BY <1>1, <1>2 DEF Built
<1>4. Built(cs) \in Seq(Contracts \cup {Blank})
      /\ Len(Built(cs)) = Len(cs) + Headroom(Len(cs))
  BY <1>2, <1>3
<1>5. \A n \in 1 .. Len(cs) : Built(cs)[n] = cs[n]
  BY <1>1, <1>2 DEF Built
<1> QED BY <1>1, <1>2, <1>3, <1>4, <1>5

LEMMA BuildStep ==
  ASSUME Inv, NEW cs \in Lists, Build(cs)
  PROVE  Inv'
<1>1. Cells' = DOMAIN slots' /\ slots' \in Seq(Contracts \cup {Blank})
      /\ used' \in 0 .. Len(slots') /\ Len(slots') \in Nat /\ Cells' = 1 .. Len(slots')
      /\ slots' \in [Cells' -> Contracts \cup {Blank}]
  BY BuiltFacts, LenProperties DEF Build, Cells
<1>0. Filled' = used' /\ DOMAIN Built(cs) = Cells'
  BY <1>1 DEF Filled, Build
<1>2. mask' \in [Cells' -> {-1, 0, 1}] /\ \A n \in Cells' : mask'[n] = Sign(slots'[n].payoff)
  BY <1>1, CellFacts DEF Build
<1>3. \A n \in InUse' : n \in Cells' /\ slots'[n] \in Contracts
  BY <1>0, <1>1, BuiltFacts DEF Build, InUse
<1>4. d' \in [Cells' -> Scratches] /\ buffers' \in [{0, 1} -> [Cells' -> ResultsOf]]
      /\ \A b \in {0, 1}, n \in Cells' : buffers'[b][n] = NoResult
  BY <1>0, ZeroTypes DEF Build, Arrays
<1>5. pc' = "idle" /\ i' = 1 /\ priced' = 0 /\ write' = 0 /\ UNCHANGED tick
  BY DEF Build, Inv, TickInv
<1>6. TypeOK'
  BY <1>1, <1>2, <1>4, <1>5 DEF TypeOK, Inv
<1>7. MaskInv'
  BY <1>2, <1>3 DEF MaskInv
<1>8. TickInv'
  BY <1>1, <1>5 DEF TickInv
<1>9. EmptyInv'
  BY <1>1, <1>4, <1>5 DEF EmptyInv
<1> QED BY <1>6, <1>7, <1>8, <1>9 DEF Inv

\* An append within the arrays, and one past their ends.
LEMMA AppendStep ==
  ASSUME Inv, NEW c \in Contracts, AppendContract(c), used < Len(slots)
  PROVE  Inv'
<1>0. /\ slots' = [slots EXCEPT ![used + 1] = Narrowed[c]] /\ mask' = MaskWith(c)
      /\ used' = used + 1 /\ UNCHANGED <<d, buffers, write, tick, pc, i, priced>>
  BY SlotFacts DEF AppendContract, Inv
<1>1. used + 1 \in Cells /\ Narrowed[c] \in Contracts /\ used \in Nat
  BY SlotFacts, NarrowedFacts DEF Cells, Inv
<1>2. /\ slots' \in Seq(Contracts \cup {Blank}) /\ Len(slots') = Len(slots)
      /\ \A n \in Cells : slots'[n] = IF n = used + 1 THEN Narrowed[c] ELSE slots[n]
  BY <1>0, <1>1, ExceptSeq DEF Inv, TypeOK, Cells
<1>3. Cells' = Cells /\ InUse' = 1 .. used + 1 /\ InUse' \subseteq Cells /\ Len(slots) \in Nat
  BY <1>0, <1>1, <1>2, SlotFacts DEF Cells, InUse, Filled, Inv
<1>4. Sign(c.payoff) \in {-1, 0, 1} /\ Narrowed[c].payoff = c.payoff
  BY CellFacts DEF Narrowed, Contracts
<1>5. TypeOK'
  BY <1>0, <1>1, <1>2, <1>3, <1>4 DEF TypeOK, Inv, MaskWith, Cells
<1>6. MaskInv'
  <2> SUFFICES ASSUME NEW n \in 1 .. used + 1
               PROVE  slots'[n] \in Contracts /\ mask'[n] = Sign(slots'[n].payoff)
    BY <1>3 DEF MaskInv
  <2>1. n \in Cells /\ mask \in [Cells -> {-1, 0, 1}]
    BY <1>3 DEF Inv, TypeOK
  <2>2. mask'[n] = IF n = used + 1 THEN Sign(c.payoff) ELSE mask[n]
    BY <1>0, <2>1 DEF MaskWith
  <2>3. n # used + 1 => n \in InUse
    BY <1>1, <2>1, SlotFacts DEF Inv
  <2> QED BY <1>1, <1>2, <1>4, <2>1, <2>2, <2>3 DEF Inv, MaskInv
<1>7. TickInv' /\ EmptyInv'
  BY <1>0, <1>1, <1>3, SlotFacts DEF TickInv, EmptyInv, Inv, AppendContract, Cells
<1> QED BY <1>5, <1>6, <1>7 DEF Inv

LEMMA AppendPastEnds ==
  ASSUME Inv, NEW c \in Contracts, AppendContract(c), used >= Len(slots)
  PROVE  Inv' /\ UNCHANGED <<slots, mask, InUse, Filled, buffers, write, priced>>
<1>1. /\ UNCHANGED <<slots, mask, d, buffers, write, tick, i, priced>>
      /\ used' = used + 1 /\ pc = "idle" /\ pc' \in {"idle", "dead"}
  BY SlotFacts DEF AppendContract, Stray, Inv
<1>2. Cells' = Cells /\ Filled' = Filled /\ InUse' = InUse
  BY <1>1, SlotFacts DEF Cells, Filled, InUse, Inv
<1>3. TypeOK' /\ MaskInv'
  BY <1>1, <1>2, SlotFacts DEF Inv, TypeOK, MaskInv
<1>4. TickInv' /\ EmptyInv'
  BY <1>1, <1>2, SlotFacts DEF Inv, TickInv, EmptyInv
<1> QED BY <1>1, <1>2, <1>3, <1>4 DEF Inv

LEMMA PrepareStep == ASSUME Inv, Prepare PROVE Inv'
<1>1. \A n \in InUse : n \in Cells /\ d'[n] = [strike |-> slots[n].strike, tick |-> tick]
  BY SlotFacts DEF Prepare, Inv
<1>2. d' \in [Cells -> Scratches]
  <2> SUFFICES ASSUME NEW n \in Cells
               PROVE  [strike |-> slots[n].strike, tick |-> tick] \in Scratches
                      /\ d[n] \in Scratches
    BY DEF Prepare
  <2> QED BY SlotFacts, CellFacts DEF Scratches, Inv, TypeOK
<1>3. TypeOK'
  BY <1>2, SlotFacts DEF Prepare, batch, Inv, TypeOK, Cells
<1>4. TickInv'
  BY <1>1, SlotFacts DEF Prepare, batch, Inv, TickInv, InUse, Filled, Cells
<1>5. MaskInv' /\ EmptyInv'
  BY DEF Prepare, batch, Inv, MaskInv, EmptyInv, InUse, Filled, Cells
<1> QED BY <1>3, <1>4, <1>5 DEF Inv

LEMMA EvaluateStep == ASSUME Inv, Evaluate PROVE Inv' /\ Read' = Read
<1>1. /\ i \in 1 .. used /\ i' = i + 1 /\ pc = "evaluate"
      /\ UNCHANGED <<slots, mask, used, d, write, tick, priced>>
  BY DEF Evaluate, RangeEnd, batch, Inv, TypeOK
<1>2. Cells' = Cells /\ InUse' = InUse
  BY <1>1 DEF Cells, InUse, Filled
<1>3. CASE i \in Cells /\ buffers' = [buffers EXCEPT ![write][i] = Result(i)] /\ UNCHANGED pc
  <2>1. i \in InUse
    BY <1>1, <1>3, SlotFacts DEF Inv
  <2>2. Result(i) = Right(i)
    BY <1>1, <2>1 DEF Result, Right, Inv, MaskInv, TickInv
  <2>3. Result(i) \in ResultsOf
    BY <1>3, SlotFacts, CellFacts DEF Result, ResultsOf, Inv, TypeOK
  <2>4. /\ buffers' \in [{0, 1} -> [Cells -> ResultsOf]]
        /\ buffers'[1 - write] = buffers[1 - write]
        /\ \A n \in Cells : buffers'[write][n] = IF n = i THEN Right(n) ELSE buffers[write][n]
    BY <1>3, <2>2, <2>3 DEF Inv, TypeOK
  <2>5. TypeOK'
    BY <1>1, <1>2, <1>3, <2>4, SlotFacts DEF Inv, TypeOK
  <2>6. TickInv'
    <3>1. \A n \in Cells : n \in Int /\ (n < i' => n = i \/ n < i)
      BY <1>1, SlotFacts DEF Cells, Inv
    <3>2. \A n \in Cells : n < i' => buffers'[write][n] = Right(n)
      BY <1>1, <2>4, <3>1 DEF Inv, TickInv
    <3> QED BY <1>1, <1>2, <1>3, <3>2, SlotFacts DEF Inv, TickInv, Right
  <2>7. EmptyInv' /\ MaskInv'
    BY <1>1, <1>2, <2>4, SlotFacts DEF Inv, EmptyInv, MaskInv, Cells
  <2> QED BY <1>1, <2>4, <2>5, <2>6, <2>7 DEF Inv, Read
<1>4. CASE i \notin Cells /\ UNCHANGED buffers /\ pc' \in {pc, "dead"}
  <2>1. TypeOK' /\ MaskInv' /\ EmptyInv'
    BY <1>1, <1>2, <1>4, SlotFacts DEF Inv, TypeOK, MaskInv, EmptyInv
  <2>2. \A n \in Cells : n \in Int /\ (n < i' => n < i)
    BY <1>1, <1>4, SlotFacts DEF Cells, Inv
  <2>3. \A n \in Cells : n < i' => buffers'[write][n] = Right(n)
    BY <1>1, <1>4, <2>2 DEF Inv, TickInv
  <2>4. \A n \in InUse : d[n] = [strike |-> slots[n].strike, tick |-> tick]
    BY <1>1 DEF Inv, TickInv
  <2>5. i' <= used + 1 /\ tick > 0 /\ (pc' = "evaluate" \/ pc' = "dead")
    BY <1>1, <1>4, SlotFacts DEF Inv, TickInv
  <2>6. TickInv'
    BY <1>1, <1>2, <2>3, <2>4, <2>5 DEF TickInv, Right
  <2> QED BY <1>1, <1>4, <2>1, <2>6 DEF Inv, Read
<1> QED BY <1>3, <1>4 DEF Evaluate, Stray

LEMMA SwapStep == ASSUME Inv, SwapBuffers PROVE Inv'
<1>1. 1 - write \in {0, 1} /\ 1 - (1 - write) = write
  BY DEF Inv, TypeOK
<1>2. TypeOK' /\ TickInv' /\ MaskInv'
  BY <1>1, SlotFacts
     DEF SwapBuffers, batch, Inv, TypeOK, TickInv, MaskInv, Cells, InUse, Filled
<1>3. EmptyInv'
  <2>1. Filled <= used /\ \A n \in Cells : (n > Filled <=> n > used) /\ (n > used => n > priced)
    BY SlotFacts DEF Cells, Filled, Inv, EmptyInv
  <2>2. Cells' = Cells /\ used' = used /\ priced' = Filled /\ write' = 1 - write
        /\ buffers' = buffers
    BY DEF SwapBuffers, batch, Cells
  <2> QED BY <1>1, <2>1, <2>2 DEF Inv, EmptyInv
<1> QED BY <1>2, <1>3 DEF Inv

LEMMA StepInv == Inv /\ [Next]_vars => Inv'
<1> SUFFICES ASSUME Inv, [Next]_vars PROVE Inv'
  OBVIOUS
<1>1. CASE UNCHANGED vars
  BY <1>1 DEF vars, batch, Inv, TypeOK, MaskInv, TickInv, EmptyInv, InUse, Filled, Cells, Right
<1>2. CASE BeginTick
  BY <1>2, BoundsAssumption
     DEF BeginTick, batch, Inv, TypeOK, MaskInv, TickInv, EmptyInv, InUse, Filled, Cells
<1>3. ASSUME NEW c \in Contracts, AppendContract(c) PROVE Inv'
  BY <1>3, AppendStep, AppendPastEnds DEF AppendContract
<1> QED BY <1>1, <1>2, <1>3, BuildStep, PrepareStep, EvaluateStep, SwapStep
        DEF Next, ProcessTick

LEMMA Invariance == Spec => []Inv
  BY InitInv, StepInv, PTL DEF Spec

(***************************************************************************)
(* The arrays keep their lengths, and what is priced stays within them,    *)
(* also when the range does not.                                           *)
(***************************************************************************)
THEOREM TypeCorrect == Spec => []TypeOK
<1>1. Inv => TypeOK
  BY DEF Inv
<1> QED BY <1>1, Invariance, PTL

(***************************************************************************)
(* A slot that was not priced at the last tick shows zeros.                *)
(***************************************************************************)
THEOREM UnpricedShowsZerosThm == Spec => []UnpricedShowsZeros
<1>1. Inv => UnpricedShowsZeros
  BY DEF Inv, EmptyInv, UnpricedShowsZeros, Read
<1> QED BY <1>1, Invariance, PTL

-----------------------------------------------------------------------------
(* The refinement.  SlotsInUse and Shown are what contracts and shown of    *)
(* PricedSlice stand for.                                                   *)

SlotsInUse == [n \in InUse |-> slots[n]]
Shown == [n \in 1 .. priced |-> Meaning(Read[n])]

LEMMA BuildRefines ==
  ASSUME NEW cs \in Lists, Build(cs)
  PROVE  SlotsInUse' = cs /\ Shown' = <<>>
<1>0. Filled' = Len(cs) /\ Len(slots') \in Nat
  BY BuiltFacts DEF Filled, Build
<1>1. SlotsInUse' = [n \in 1 .. Len(cs) |-> Built(cs)[n]]
  BY <1>0 DEF Build, SlotsInUse, InUse
<1>2. SlotsInUse' = cs
  BY <1>1, BuiltFacts
<1>3. priced' = 0
  BY DEF Build
<1>4. Shown' = <<>>
  BY <1>3 DEF Shown
<1> QED BY <1>2, <1>4

LEMMA AppendRefines ==
  ASSUME Inv, NEW c \in Contracts, AppendContract(c), used < Len(slots)
  PROVE  SlotsInUse' = Append(SlotsInUse, Narrowed[c]) /\ Shown' = Shown
<1>1. used + 1 \in Cells /\ Narrowed[c] \in Contracts /\ used \in Nat /\ InUse \subseteq Cells
      /\ Filled = used
  BY SlotFacts, NarrowedFacts DEF Cells, Filled, Inv
<1>2. \A n \in Cells : slots'[n] = IF n = used + 1 THEN Narrowed[c] ELSE slots[n]
  BY <1>1, ExceptSeq DEF AppendContract, Inv, TypeOK, Cells
<1>3. SlotsInUse \in Seq(Contracts) /\ Len(SlotsInUse) = used
  <2>1. SlotsInUse \in [1 .. used -> Contracts]
    BY <1>1 DEF SlotsInUse, InUse, Inv, MaskInv
  <2> QED BY <1>1, <2>1
<1>4. SlotsInUse' = [n \in 1 .. used + 1 |-> slots'[n]]
  <2>1. Filled' = used + 1
    BY <1>1, <1>2, SlotFacts, ExceptSeq DEF Filled, AppendContract, Inv, TypeOK, Cells
  <2> QED BY <2>1 DEF SlotsInUse, InUse
<1>5. \A n \in 1 .. used + 1 :
         slots'[n] = IF n = used + 1 THEN Narrowed[c] ELSE SlotsInUse[n]
  <2> SUFFICES ASSUME NEW n \in 1 .. used + 1, n # used + 1
               PROVE  n \in Cells /\ n \in InUse
    BY <1>1, <1>2 DEF SlotsInUse
  <2> QED BY <1>1, SlotFacts DEF InUse, Cells, Inv
<1>6. SlotsInUse' \in Seq(Contracts) /\ Len(SlotsInUse') = used + 1
  <2>1. SlotsInUse' \in [1 .. used + 1 -> Contracts]
    BY <1>1, <1>3, <1>4, <1>5, LenProperties
  <2> QED BY <1>1, <2>1
<1>7. SlotsInUse' = Append(SlotsInUse, Narrowed[c])
  BY <1>1, <1>3, <1>4, <1>5, <1>6, AppendProperties, SeqEqual
<1>8. Shown' = Shown
  BY DEF AppendContract, Shown, Read
<1> QED BY <1>7, <1>8

LEMMA SwapRefines ==
  ASSUME Inv, SwapBuffers
  PROVE  /\ SlotsInUse' = SlotsInUse
         /\ tick \in 1 .. MaxTicks
         /\ Shown' = [n \in DOMAIN SlotsInUse |-> [of |-> SlotsInUse[n], tick |-> tick]]
<1>1. i = used + 1 /\ pc = "evaluate" /\ used \in Nat /\ tick \in 1 .. MaxTicks
  BY SlotFacts, BoundsAssumption DEF SwapBuffers, RangeEnd, Inv, TickInv, TypeOK
<1>2. Shown' = [n \in InUse |-> Meaning(buffers[write][n])]
  <2>1. Read' = buffers[write] /\ priced' = Filled
    BY DEF SwapBuffers, Read, Inv, TypeOK
  <2> QED BY <2>1 DEF Shown, InUse
<1>3. \A n \in InUse : Meaning(buffers[write][n]) = [of |-> slots[n], tick |-> tick]
  <2> SUFFICES ASSUME NEW n \in InUse
               PROVE  Meaning(Right(n)) = [of |-> slots[n], tick |-> tick]
    <3>1. \A n \in InUse : n \in Cells /\ n < i
      BY <1>1, SlotFacts DEF Cells, Inv
    <3> QED BY <1>1, <3>1 DEF Inv, TickInv
  <2>1. slots[n] \in Contracts /\ Payoff(Sign(slots[n].payoff)) = slots[n].payoff
    BY CellFacts DEF Inv, MaskInv
  <2>2. slots[n] = [strike |-> slots[n].strike, payoff |-> slots[n].payoff]
    BY <2>1 DEF Contracts
  <2> QED BY <2>1, <2>2 DEF Meaning, Right
<1>4. SlotsInUse' = SlotsInUse
  BY DEF SwapBuffers, batch, SlotsInUse, InUse, Filled
<1> QED BY <1>1, <1>2, <1>3, <1>4 DEF SlotsInUse

(***************************************************************************)
(* A batch is a PricedSlice: building, appending and swapping are its      *)
(* Build, Add and Tick, and everything in between is not to be seen.       *)
(***************************************************************************)
THEOREM Refinement == Spec => ImplementsPricedSlice
<1>1. Init => Slice!Init
  BY EmptySeq DEF Init, Slice!Init, InUse, Filled
<1>2. Inv /\ [Next]_vars => [Slice!Next]_<<SlotsInUse, Shown>>
  <2> SUFFICES ASSUME Inv, [Next]_vars
               PROVE  Slice!Next \/ UNCHANGED <<SlotsInUse, Shown>>
    BY DEF SlotsInUse, Shown
  <2>1. ASSUME NEW cs \in Lists, Build(cs) PROVE Slice!Next
    BY <2>1, BuildRefines DEF Slice!Next, Slice!Build, SlotsInUse, Shown
  <2>2. ASSUME NEW c \in Contracts, AppendContract(c), used < Len(slots) PROVE Slice!Next
    BY <2>2, AppendRefines DEF Slice!Next, Slice!Add, SlotsInUse, Shown
  <2>3. ASSUME NEW c \in Contracts, AppendContract(c), used >= Len(slots)
        PROVE  UNCHANGED <<SlotsInUse, Shown>>
    BY <2>3, AppendPastEnds DEF SlotsInUse, Shown, Read
  <2>4. CASE SwapBuffers
    BY <2>4, SwapRefines DEF Slice!Next, Slice!Tick, SlotsInUse, Shown
  <2>5. CASE Evaluate
    BY <2>5, EvaluateStep DEF Evaluate, batch, SlotsInUse, Shown, InUse, Filled
  <2>6. CASE BeginTick \/ Prepare \/ UNCHANGED vars
    BY <2>6 DEF BeginTick, Prepare, vars, batch, SlotsInUse, Shown, InUse, Filled, Read
  <2>7. \A c \in Contracts : AppendContract(c) => used < Len(slots) \/ used >= Len(slots)
    BY DEF AppendContract
  <2> QED BY <2>1, <2>2, <2>3, <2>4, <2>5, <2>6, <2>7 DEF Next, ProcessTick
<1>3. ImplementsPricedSlice <=> Slice!Init /\ [][Slice!Next]_<<SlotsInUse, Shown>>
  BY DEF ImplementsPricedSlice, Slice!Spec, SlotsInUse, Shown
<1> QED BY <1>1, <1>2, <1>3, Invariance, PTL DEF Spec

-----------------------------------------------------------------------------
\* Slice!ShowsOneTick, of any list and any results.
Shows(cs, sh) ==
  /\ \A n \in DOMAIN sh : n \in DOMAIN cs /\ sh[n].of = cs[n]
  /\ \A n, k \in DOMAIN sh : sh[n].tick = sh[k].tick

LEMMA ShowsSteps ==
  ASSUME NEW cs \in Seq(Contracts), NEW sh, Shows(cs, sh), NEW as, NEW ah,
         \/ as \in Lists /\ ah = <<>>
         \/ (\E c \in Contracts : as = Append(cs, Narrowed[c])) /\ ah = sh
         \/ as = cs /\ \E t : ah = [n \in DOMAIN cs |-> [of |-> cs[n], tick |-> t]]
         \/ as = cs /\ ah = sh
  PROVE  as \in Seq(Contracts) /\ Shows(as, ah)
<1>1. CASE as \in Lists /\ ah = <<>>
  <2>1. as \in Seq(Contracts)
    BY <1>1, ListsAssumption
  <2>2. \A n : n \notin DOMAIN <<>>
    OBVIOUS
  <2> QED BY <1>1, <2>1, <2>2 DEF Shows
<1>2. ASSUME NEW c \in Contracts, as = Append(cs, Narrowed[c]), ah = sh
      PROVE  as \in Seq(Contracts) /\ Shows(as, ah)
  <2>1. Narrowed[c] \in Contracts
    BY NarrowedFacts
  <2>2. /\ as \in Seq(Contracts) /\ DOMAIN cs \subseteq DOMAIN as
        /\ \A n \in DOMAIN cs : as[n] = cs[n]
    BY <1>2, <2>1
  <2> QED BY <1>2, <2>2 DEF Shows
<1>3. ASSUME as = cs, NEW t, ah = [n \in DOMAIN cs |-> [of |-> cs[n], tick |-> t]]
      PROVE  as \in Seq(Contracts) /\ Shows(as, ah)
  BY <1>3 DEF Shows
<1>4. CASE as = cs /\ ah = sh
  BY <1>4
<1> QED BY <1>1, <1>2, <1>3, <1>4

(***************************************************************************)
(* What jobs are copied from shows, of one tick, a result for each of the  *)
(* first contracts of the batch, and each is of its own contract.          *)
(***************************************************************************)
THEOREM ShowsOneTickThm == Spec => []Slice!ShowsOneTick
<1> DEFINE Listed == SlotsInUse \in Seq(Contracts) /\ Shows(SlotsInUse, Shown)
<1>1. Slice!Init => Listed
  BY DEF Slice!Init, SlotsInUse, Shown, Shows
<1>2. ASSUME Listed, [Slice!Next]_<<SlotsInUse, Shown>> PROVE Listed'
  <2>1. PICK cs, sh, as, ah : cs = SlotsInUse /\ sh = Shown /\ as = SlotsInUse' /\ ah = Shown'
    OBVIOUS
  <2>2. \/ as \in Lists /\ ah = <<>>
        \/ (\E c \in Contracts : as = Append(cs, Narrowed[c])) /\ ah = sh
        \/ as = cs /\ \E t : ah = [n \in DOMAIN cs |-> [of |-> cs[n], tick |-> t]]
        \/ as = cs /\ ah = sh
    BY <1>2, <2>1 DEF Slice!Next, Slice!Build, Slice!Add, Slice!Tick, SlotsInUse, Shown
  <2>3. cs \in Seq(Contracts) /\ Shows(cs, sh)
    BY <1>2, <2>1
  <2>4. as \in Seq(Contracts) /\ Shows(as, ah)
    BY <2>2, <2>3, ShowsSteps
  <2> QED BY <2>1, <2>4
<1>3. Listed => Slice!ShowsOneTick
  BY DEF Slice!ShowsOneTick, Shows, SlotsInUse, Shown
<1>4. ImplementsPricedSlice => Slice!Init /\ [][Slice!Next]_<<SlotsInUse, Shown>>
  BY DEF ImplementsPricedSlice, Slice!Spec, SlotsInUse, Shown
<1> HIDE DEF Listed
<1> QED BY <1>1, <1>2, <1>3, <1>4, Refinement, PTL
=============================================================================
