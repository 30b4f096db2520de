--------------------------- MODULE SpscQueueProofs ---------------------------
(***************************************************************************)
(* Theorems of SpscQueue, for any capacity and any number of producers     *)
(* that take turns.  Content is the refinement: the slots between the two  *)
(* indices hold what was accepted and not yet taken, in order.             *)
(***************************************************************************)
EXTENDS SpscQueue, TLAPS

N == Len(accepted) - Len(taken)
Wrap(x) == IF x >= Size THEN x - Size ELSE x

Content ==
  /\ N \in 0 .. Capacity
  /\ write = Wrap(read + N)
  /\ \A k \in 0 .. Capacity : k < N => ring[Wrap(read + k)] = accepted[Len(taken) + k + 1]

\* One producer is in a call; what it has seen is still so.
ProducerInv ==
  \A p \in Producers : pc[p] # "idle" =>
    /\ \A q \in Producers \ {p} : pc[q] = "idle"
    /\ N < Capacity
    /\ item[p] \in Items
    /\ pc[p] \in {"write", "store"} => at[p] = write
    /\ pc[p] = "store" => ring[write] = item[p]

ConsumerInv ==
  /\ cpc # "idle" => N > 0
  /\ cpc = "store" => out = accepted[Len(taken) + 1]

Inv == TypeOK /\ (~overlapped => Content /\ ProducerInv /\ ConsumerInv)

-----------------------------------------------------------------------------
LEMMA SizeFacts == Capacity \in Nat /\ Capacity >= 1 /\ Slots = 0 .. Capacity
  BY CapacityAssumption DEF Size, Slots

\* Arithmetic around the ring.
LEMMA WrapFacts ==
  ASSUME NEW x \in Slots, NEW n \in 0 .. Capacity
  PROVE  /\ Wrap(x + n) \in Slots
         /\ Wrap(x + n) = x => n = 0
         /\ n = 0 => Wrap(x + n) = x
         /\ Successor(x) \in Slots
         /\ Successor(Wrap(x + n)) = x <=> n = Capacity
         /\ n < Capacity => Successor(Wrap(x + n)) = Wrap(x + (n + 1))
         /\ n < Capacity => Wrap(Successor(x) + n) = Wrap(x + (n + 1))
         /\ \A k \in 0 .. Capacity : k < n => Wrap(x + k) # Wrap(x + n)
  BY SizeFacts DEF Size, Wrap, Successor

LEMMA InitInv == Init => Inv
<1> SUFFICES ASSUME Init PROVE Inv
  OBVIOUS
<1>1. TypeOK
  <2>1. 0 \in Slots /\ 0 \in 0 .. MaxItems
    BY SizeFacts, ItemsAssumption
  <2> QED BY <2>1 DEF Init, TypeOK
<1>2. Content
  BY SizeFacts, WrapFacts DEF Init, Content, N
<1>3. ProducerInv /\ ConsumerInv
  BY DEF Init, ProducerInv, ConsumerInv
<1> QED BY <1>1, <1>2, <1>3 DEF Inv

-----------------------------------------------------------------------------
LEMMA TypeStep == TypeOK /\ [Next]_vars => TypeOK'
<1> SUFFICES ASSUME TypeOK, [Next]_vars PROVE TypeOK'
  OBVIOUS
<1> USE DEF TypeOK, Goto
<1>1. CASE UNCHANGED vars
  BY <1>1 DEF vars, producer, consumer
<1>2. ASSUME NEW p \in Producers, Offer(p) PROVE TypeOK'
  <2>1. offered' \in 0 .. MaxItems
    BY <1>2, ItemsAssumption DEF Offer
  <2> QED BY <1>2, <2>1 DEF Offer, consumer
<1>3. ASSUME NEW p \in Producers, Load(p) PROVE TypeOK'
  BY <1>3 DEF Load, consumer
<1>4. ASSUME NEW p \in Producers, PushFails(p) PROVE TypeOK'
  BY <1>4 DEF PushFails, Answer, consumer
<1>5. ASSUME NEW p \in Producers, WriteSlot(p) PROVE TypeOK'
  BY <1>5 DEF WriteSlot, consumer
<1>6. ASSUME NEW p \in Producers, StoreWrite(p) PROVE TypeOK'
  <2>1. Successor(at[p]) \in Slots
    BY SizeFacts, WrapFacts
  <2> QED BY <1>6, <2>1 DEF StoreWrite, Answer, consumer
<1>7. CASE BeginPop
  BY <1>7 DEF BeginPop, producer
<1>8. CASE CopyOut
  BY <1>8 DEF CopyOut, producer
<1>9. CASE StoreRead
  <2>1. Successor(read) \in Slots
    BY SizeFacts, WrapFacts
  <2> QED BY <1>9, <2>1 DEF StoreRead, producer
<1> QED BY <1>1, <1>2, <1>3, <1>4, <1>5, <1>6, <1>7, <1>8, <1>9 DEF Next, Produce, Pop

-----------------------------------------------------------------------------
LEMMA StillInTurn == [Next]_vars /\ ~overlapped' => ~overlapped
  <1>1. ASSUME NEW p \in Producers, Produce(p), ~overlapped' PROVE ~overlapped
    BY <1>1 DEF Produce, Offer, Load, PushFails, WriteSlot, StoreWrite
  <1>2. ASSUME Pop, ~overlapped' PROVE ~overlapped
    BY <1>2 DEF Pop, BeginPop, CopyOut, StoreRead
  <1> QED BY <1>1, <1>2 DEF Next, vars

\* What the steps below use of the types.
LEMMA Types ==
  ASSUME TypeOK
  PROVE  /\ read \in Slots /\ write \in Slots
         /\ ring \in [Slots -> 0 .. MaxItems]
         /\ pc \in [Producers -> {"idle", "push", "write", "store"}]
         /\ item \in [Producers -> 0 .. MaxItems]
         /\ at \in [Producers -> Slots]
         /\ accepted \in Seq(0 .. MaxItems) /\ taken \in Seq(0 .. MaxItems)
         /\ Len(accepted) \in Nat /\ Len(taken) \in Nat
  BY DEF TypeOK

Turn == Content /\ ProducerInv /\ ConsumerInv

\* The ring has room exactly when fewer than Capacity items wait.
LEMMA RoomIsCounted == TypeOK /\ Content => (NotFull <=> N < Capacity)
<1> SUFFICES ASSUME TypeOK, Content PROVE NotFull <=> N < Capacity
  OBVIOUS
<1>1. read \in Slots /\ N \in 0 .. Capacity /\ write = Wrap(read + N)
  BY Types DEF Content
<1>2. Successor(Wrap(read + N)) = read <=> N = Capacity
  BY <1>1, WrapFacts
<1> QED BY <1>1, <1>2, SizeFacts DEF NotFull

LEMMA SomethingWaits == TypeOK /\ Content /\ NotEmpty => N > 0
  BY SizeFacts, WrapFacts, Types DEF Content, NotEmpty

LEMMA OfferStep ==
  ASSUME TypeOK, Turn, NEW p \in Producers, Offer(p), ~overlapped' PROVE Turn'
<1>1. Calling = {}
  BY DEF Offer
<1>2. offered' \in Items
  BY ItemsAssumption DEF Offer, Items, TypeOK
<1>3. Content' /\ ConsumerInv'
  BY DEF Offer, Turn, Content, ConsumerInv, consumer, N
<1>4. ProducerInv'
  BY <1>1, <1>2, RoomIsCounted, Types
  DEF Offer, Turn, ProducerInv, Calling, Goto, N
<1> QED BY <1>3, <1>4 DEF Turn

LEMMA LoadStep ==
  ASSUME TypeOK, Turn, NEW p \in Producers, Load(p) PROVE Turn'
  BY Types DEF Load, Turn, Content, ProducerInv, ConsumerInv, consumer, N, Goto

LEMMA NoPushFails ==
  ASSUME TypeOK, Turn, NEW p \in Producers, PushFails(p) PROVE FALSE
  BY RoomIsCounted DEF PushFails, Turn, ProducerInv, Goto

LEMMA WriteStep ==
  ASSUME TypeOK, Turn, NEW p \in Producers, WriteSlot(p) PROVE Turn'
<1>1. N < Capacity /\ at[p] = write /\ write = Wrap(read + N)
  BY DEF WriteSlot, Turn, ProducerInv, Content, Goto
<1>2. N \in 0 .. Capacity
  BY DEF Turn, Content
<1>3. \A k \in 0 .. Capacity : k < N => Wrap(read + k) # write
  <2>1. \A k \in 0 .. Capacity : k < N => Wrap(read + k) # Wrap(read + N)
    BY <1>2, WrapFacts, Types
  <2> QED BY <1>1, <2>1
<1>4. Content'
  BY <1>1, <1>2, <1>3, WrapFacts, Types DEF WriteSlot, Turn, Content, N
<1>5. ProducerInv' /\ ConsumerInv'
  BY <1>1, Types DEF WriteSlot, Turn, ProducerInv, ConsumerInv, consumer, N, Goto
<1> QED BY <1>4, <1>5 DEF Turn

LEMMA StoreStep ==
  ASSUME TypeOK, Turn, NEW p \in Producers, StoreWrite(p) PROVE Turn'
<1>1. /\ N < Capacity /\ at[p] = write /\ ring[write] = item[p]
      /\ N \in 0 .. Capacity /\ write = Wrap(read + N)
      /\ \A q \in Producers \ {p} : pc[q] = "idle"
  BY DEF StoreWrite, Turn, ProducerInv, Content, Goto
<1>2. /\ accepted' = Append(accepted, item[p])
      /\ UNCHANGED <<ring, read, item, at, cpc, out, taken>>
      /\ write' = Successor(write)
  BY <1>1 DEF StoreWrite, Answer, consumer
<1>3. N' = N + 1 /\ Len(accepted') = Len(accepted) + 1
  BY <1>2, Types DEF N
<1>4. write' = Wrap(read' + N')
  <2>1. Successor(Wrap(read + N)) = Wrap(read + (N + 1))
    BY <1>1, WrapFacts, Types
  <2> QED BY <1>1, <1>2, <1>3, <2>1
<1>5. ASSUME NEW k \in 0 .. Capacity, k < N'
      PROVE  ring'[Wrap(read' + k)] = accepted'[Len(taken') + k + 1]
  <2>1. CASE k < N
    <3>1. ring[Wrap(read + k)] = accepted[Len(taken) + k + 1]
      BY <2>1 DEF Turn, Content
    <3>2. Len(taken) + k + 1 \in 1 .. Len(accepted)
      BY <2>1, <1>1, Types, SizeFacts DEF N
    <3> QED BY <3>1, <3>2, <1>2, Types
  <2>2. CASE k = N
    <3>1. Len(taken) + k + 1 = Len(accepted) + 1
      BY <2>2, Types DEF N
    <3> QED BY <2>2, <3>1, <1>1, <1>2, Types
  <2> QED BY <1>5, <1>1, <1>3, <2>1, <2>2, SizeFacts
<1>6. Content'
  BY <1>1, <1>3, <1>4, <1>5, SizeFacts DEF Content
<1>7. ProducerInv'
  BY <1>1, Types DEF StoreWrite, ProducerInv, Goto
<1>8. ConsumerInv'
  <2>1. N > 0 => Len(taken) + 1 \in 1 .. Len(accepted)
    BY <1>1, Types DEF N
  <2> QED BY <1>1, <1>2, <1>3, <2>1, Types, SizeFacts DEF Turn, ConsumerInv
<1> QED BY <1>6, <1>7, <1>8 DEF Turn

LEMMA PopStep ==
  ASSUME TypeOK, Turn, BeginPop \/ CopyOut PROVE Turn'
<1>1. UNCHANGED <<ring, write, read, pc, item, at, accepted, taken>>
  BY DEF BeginPop, CopyOut, producer
<1>2. Content' /\ ProducerInv'
  BY <1>1 DEF Turn, Content, ProducerInv, N
<1>3. CASE BeginPop
  BY <1>1, <1>2, <1>3, SomethingWaits DEF Turn, BeginPop, ConsumerInv, N
<1>4. CASE CopyOut
  <2>1. N > 0
    BY <1>4 DEF CopyOut, Turn, ConsumerInv
  <2>2. ring[Wrap(read + 0)] = accepted[Len(taken) + 0 + 1] /\ 0 \in 0 .. Capacity
    BY <2>1, SizeFacts DEF Turn, Content
  <2>3. Wrap(read + 0) = read
    BY WrapFacts, Types, SizeFacts
  <2>4. ring[read] = accepted[Len(taken) + 1]
    BY <2>2, <2>3, Types
  <2> QED BY <1>1, <1>2, <1>4, <2>1, <2>4 DEF Turn, CopyOut, ConsumerInv, N
<1> QED BY <1>3, <1>4

LEMMA TakeStep ==
  ASSUME TypeOK, Turn, StoreRead PROVE Turn'
<1>1. /\ N > 0 /\ N \in 0 .. Capacity /\ write = Wrap(read + N)
  BY DEF StoreRead, Turn, ConsumerInv, Content
<1>2. /\ UNCHANGED <<ring, write, pc, item, at, accepted>>
      /\ read' = Successor(read) /\ cpc' = "idle" /\ taken' = Append(taken, out)
  BY DEF StoreRead, producer
<1>3. Len(taken') = Len(taken) + 1 /\ N' = N - 1 /\ N - 1 \in 0 .. Capacity
  BY <1>1, <1>2, Types, SizeFacts, TypeStep DEF N
<1>4. write' = Wrap(read' + N')
  <2>1. N - 1 < Capacity /\ N - 1 + 1 = N
    BY <1>1, SizeFacts
  <2>2. Wrap(Successor(read) + (N - 1)) = Wrap(read + (N - 1 + 1))
    BY <1>3, <2>1, WrapFacts, Types
  <2> QED BY <1>1, <1>2, <1>3, <2>1, <2>2
<1>5. ASSUME NEW k \in 0 .. Capacity, k < N'
      PROVE  ring'[Wrap(read' + k)] = accepted'[Len(taken') + k + 1]
  <2>1. k + 1 \in 0 .. Capacity /\ k + 1 < N /\ k < Capacity
    BY <1>5, <1>1, <1>3, SizeFacts
  <2>2. ring[Wrap(read + (k + 1))] = accepted[Len(taken) + (k + 1) + 1]
    BY <2>1 DEF Turn, Content
  <2>3. Wrap(read' + k) = Wrap(read + (k + 1))
    BY <2>1, <1>2, WrapFacts, Types
  <2>4. Len(taken') + k + 1 = Len(taken) + (k + 1) + 1
    BY <1>3, Types
  <2> QED BY <2>2, <2>3, <2>4, <1>2
<1>6. Content'
  BY <1>3, <1>4, <1>5 DEF Content
<1>7. ProducerInv'
  BY <1>1, <1>2, <1>3, SizeFacts DEF Turn, ProducerInv
<1>8. ConsumerInv'
  BY <1>2 DEF ConsumerInv
<1> QED BY <1>6, <1>7, <1>8 DEF Turn

LEMMA StepInv == Inv /\ [Next]_vars => Inv'
<1> SUFFICES ASSUME Inv, [Next]_vars, ~overlapped' PROVE Turn'
  BY TypeStep DEF Inv, Turn
<1>1. TypeOK /\ Turn
  BY StillInTurn DEF Inv, Turn
<1>2. CASE UNCHANGED vars
  BY <1>1, <1>2 DEF vars, producer, consumer, Turn, Content, ProducerInv, ConsumerInv, N
<1>3. ASSUME NEW p \in Producers, Produce(p) PROVE Turn'
  BY <1>1, <1>3, OfferStep, LoadStep, NoPushFails, WriteStep, StoreStep DEF Produce
<1>4. CASE Pop
  BY <1>1, <1>4, PopStep, TakeStep DEF Pop
<1> QED BY <1>2, <1>3, <1>4 DEF Next

LEMMA Invariance == Spec => []Inv
  BY InitInv, StepInv, PTL DEF Spec

(***************************************************************************)
(* Indices stay within the ring and everything in it was offered.          *)
(***************************************************************************)
THEOREM TypeCorrect == Spec => []TypeOK
<1>1. Inv => TypeOK
  BY DEF Inv
<1> QED BY <1>1, Invariance, PTL

(***************************************************************************)
(* No producer writes the slot the consumer reads.                         *)
(***************************************************************************)
THEOREM NoSlotSharedThm == Spec => []NoSlotShared
<1>1. Inv => NoSlotShared
  <2> SUFFICES ASSUME Inv, ~overlapped, cpc = "copy",
                      NEW p \in Producers, pc[p] = "write"
               PROVE  at[p] # read
    BY DEF NoSlotShared
  <2>1. at[p] = Wrap(read + N) /\ N > 0 /\ N \in 0 .. Capacity /\ read \in Slots
    BY Types DEF Inv, Content, ProducerInv, ConsumerInv
  <2> QED BY <2>1, WrapFacts
<1> QED BY <1>1, Invariance, PTL

(***************************************************************************)
(* The ring with its two indices implements the abstract queue: a push is  *)
(* an Accept when it stores the index, a pop a Take.                       *)
(***************************************************************************)
THEOREM Refinement == Spec => ImplementsFifo
<1>1. Init => Queue!Init
  BY DEF Init, Queue!Init
<1>2. Inv /\ [Next]_vars => [~overlapped' => Queue!Accept \/ Queue!Take]_<<accepted, taken>>
  <2> SUFFICES ASSUME Inv, [Next]_vars, ~overlapped', ~UNCHANGED <<accepted, taken>>
               PROVE  Queue!Accept \/ Queue!Take
    OBVIOUS
  <2>1. TypeOK /\ Turn
    BY StillInTurn DEF Inv, Turn
  <2>2. \/ \E p \in Producers : PushFails(p) \/ StoreWrite(p)
        \/ StoreRead
    BY DEF Next, Produce, Pop, Offer, Load, WriteSlot, BeginPop, CopyOut, vars
  <2>3. ASSUME NEW p \in Producers, StoreWrite(p) PROVE Queue!Accept
    <3>1. Len(accepted) < Len(taken) + Capacity /\ item[p] \in Items
      BY <2>1, <2>3, Types, SizeFacts DEF StoreWrite, Turn, ProducerInv, Goto, N
    <3> QED BY <2>3, <3>1 DEF StoreWrite, Answer, Queue!Accept
  <2>4. ASSUME StoreRead PROVE Queue!Take
    <3>1. Len(taken) < Len(accepted) /\ out = accepted[Len(taken) + 1]
      BY <2>1, <2>4, Types DEF StoreRead, Turn, ConsumerInv, N
    <3> QED BY <2>4, <3>1 DEF StoreRead, Queue!Take
  <2> QED BY <2>1, <2>2, <2>3, <2>4, NoPushFails
<1> QED BY <1>1, <1>2, Invariance, PTL DEF Spec, ImplementsFifo

-----------------------------------------------------------------------------
LEMMA AppendedItem ==
  ASSUME NEW S, NEW q \in Seq(S), NEW x
  PROVE  /\ Len(q) \in Nat /\ Len(Append(q, x)) = Len(q) + 1
         /\ Append(q, x)[Len(q) + 1] = x
         /\ \A n \in 1 .. Len(q) : Append(q, x)[n] = q[n]
OBVIOUS

LEMMA TakeKeepsOrder ==
  ASSUME TypeOK, taken' \in Seq(0 .. MaxItems), Queue!InOrder, Queue!Take
  PROVE  Queue!InOrder'
<1>1. /\ Len(taken) \in Nat /\ Len(accepted) \in Nat /\ Len(taken) < Len(accepted)
      /\ Len(accepted) <= Len(taken) + Capacity /\ accepted' = accepted
      /\ taken' = Append(taken, accepted[Len(taken) + 1])
  BY DEF TypeOK, Queue!InOrder, Queue!Take
<1>2. /\ Len(taken') = Len(taken) + 1 /\ taken'[Len(taken) + 1] = accepted[Len(taken) + 1]
      /\ \A n \in 1 .. Len(taken) : taken'[n] = taken[n]
  BY <1>1, AppendedItem DEF TypeOK
<1>3. \A n \in 1 .. Len(taken') : n \in 1 .. Len(taken) \/ n = Len(taken) + 1
  BY <1>1, <1>2
<1>4. \A n \in 1 .. Len(taken') : taken'[n] = accepted'[n]
  BY <1>1, <1>2, <1>3 DEF Queue!InOrder
<1>5. Len(taken') <= Len(accepted') /\ Len(accepted') <= Len(taken') + Capacity
  BY <1>1, <1>2, SizeFacts
<1> QED BY <1>4, <1>5 DEF Queue!InOrder

LEMMA AcceptKeepsOrder ==
  ASSUME TypeOK, Queue!InOrder, Queue!Accept
  PROVE  Queue!InOrder'
<1>1. PICK x \in Items : accepted' = Append(accepted, x)
  BY DEF Queue!Accept
<1>2. /\ Len(taken) \in Nat /\ Len(accepted) \in Nat /\ taken' = taken
      /\ Len(taken) <= Len(accepted) /\ Len(accepted) < Len(taken) + Capacity
      /\ \A n \in 1 .. Len(taken) : taken[n] = accepted[n]
  BY DEF TypeOK, Queue!InOrder, Queue!Accept
<1>3. /\ Len(accepted') = Len(accepted) + 1
      /\ \A n \in 1 .. Len(accepted) : accepted'[n] = accepted[n]
  BY <1>1, AppendedItem DEF TypeOK
<1>4. \A n \in 1 .. Len(taken) : n \in 1 .. Len(accepted)
  BY <1>2
<1>5. \A n \in 1 .. Len(taken') : taken'[n] = accepted'[n]
  BY <1>2, <1>3, <1>4
<1>6. Len(taken') <= Len(accepted') /\ Len(accepted') <= Len(taken') + Capacity
  BY <1>2, <1>3, SizeFacts
<1> QED BY <1>5, <1>6 DEF Queue!InOrder

(***************************************************************************)
(* As long as the producers take turns, what the consumer has popped is    *)
(* the beginning of what the producers were told is queued, item by item,  *)
(* and never more than Capacity items wait.                                *)
(***************************************************************************)
THEOREM InOrderThm == Spec => [](~overlapped => Queue!InOrder)
<1> DEFINE Ordered == ~overlapped => Queue!InOrder
<1>1. Init => Ordered
  BY SizeFacts DEF Init, Queue!InOrder
<1>2. ASSUME Inv, Inv', [Next]_vars, Ordered,
             [~overlapped' => Queue!Accept \/ Queue!Take]_<<accepted, taken>>
      PROVE  Ordered'
  <2> SUFFICES ASSUME ~overlapped' PROVE Queue!InOrder'
    OBVIOUS
  <2>1. TypeOK /\ Queue!InOrder /\ taken' \in Seq(0 .. MaxItems)
    BY <1>2, StillInTurn DEF Inv, TypeOK
  <2>2. CASE UNCHANGED <<accepted, taken>>
    BY <2>1, <2>2 DEF Queue!InOrder
  <2> QED BY <1>2, <2>1, <2>2, TakeKeepsOrder, AcceptKeepsOrder
<1> QED BY <1>1, <1>2, Invariance, Refinement, PTL DEF Spec, ImplementsFifo
=============================================================================
