---------------------------- MODULE MailboxProofs ----------------------------
(***************************************************************************)
(* Theorems about the market data mailbox, for every set of words and      *)
(* every number of ticks.                                                  *)
(***************************************************************************)
EXTENDS Mailbox, TLAPS

(***************************************************************************)
(* The writer: seq counts the ticks completely published; the slot being   *)
(* written is not the one idx designates; the designated slot holds the    *)
(* whole tick Indexed; and a word once written holds the tick under way,   *)
(* which no word of a slot exceeds, so that the words only ever grow.      *)
(***************************************************************************)
WriterInv ==
  /\ seq = IF wpc = "idle" THEN pub ELSE pub - 1
  /\ wpc # "idle" => pub > 0
  /\ wpc = "copy" => w = 1 - idx
  /\ \A x \in Words : slots[idx][x] = Indexed
  /\ \A i \in Slots : \A x \in Words : slots[i][x] <= pub
  /\ wpc = "copy" => \A x \in Words \ wtodo : slots[w][x] = pub

(***************************************************************************)
(* A call under way: it began with a new sequence number, each failed      *)
(* attempt saw the index move, and what it has copied lies between the     *)
(* tick indexed when the attempt began and what the slot holds now.        *)
(***************************************************************************)
CallInv ==
  rpc # "idle" =>
    /\ lastSeq < s1
    /\ s1 <= seq
    /\ Indexed >= s1 + tries
    /\ \A x \in Words : delivered[x] <= Indexed

CopyInv ==
  rpc = "copy" =>
    /\ rv <= Indexed
    /\ rv >= s1 + tries
    /\ \A x \in Words : delivered[x] <= rv
    /\ \A x \in Words : slots[r1][x] >= rv
    /\ Indexed = rv => idx = r1
    /\ Indexed = rv + 1 => idx = 1 - r1
    /\ \A x \in Words \ rtodo :
         /\ rv <= out[x]
         /\ out[x] <= slots[r1][x]
         /\ Indexed = rv => out[x] = rv

\* What a finished call leaves behind.
SampleInv ==
  /\ lastSeq <= seq
  /\ \A x \in Words : delivered[x] <= Indexed \/ delivered[x] <= lastSeq + 1
  /\ rpc = "idle" =>
       \A x \in Words : delivered[x] >= lastSeq \/ lastSeq >= s1 + 4

Inv == TypeOK /\ WriterInv /\ CallInv /\ CopyInv /\ SampleInv

USE WordsAssumption, PublishAssumption
    DEF Slots, Attempts, OtherSlot, Updated, Verified, Finish, NextAttempt

-----------------------------------------------------------------------------
(* Inductive step, by part of the invariant: one step per action.           *)

\* Init establishes every part of the invariant.
LEMMA InitInv == Init => Inv
BY DEF Init, Inv, TypeOK, WriterInv, CallInv, CopyInv, SampleInv, Indexed

\* Every step of publish or read_if_updated keeps each variable in its range.
LEMMA StepTypeOK ==
  ASSUME Inv, Next
  PROVE  TypeOK'
<1>. USE DEF Inv, TypeOK, shared, writer, reader
<1>1. CASE BeginPublish
  BY <1>1 DEF BeginPublish
<1>2. ASSUME NEW x \in Words, WriteWord(x)
      PROVE  TypeOK'
  BY <1>2 DEF WriteWord
<1>3. CASE StoreIndex
  BY <1>3 DEF StoreIndex
<1>4. CASE CountTick
  BY <1>4 DEF CountTick, WriterInv
<1>5. CASE Poll
  BY <1>5 DEF Poll
<1>6. CASE LoadIndex
  BY <1>6 DEF LoadIndex, Indexed, WriterInv
<1>7. ASSUME NEW x \in Words, ReadWord(x)
      PROVE  TypeOK'
  BY <1>7 DEF ReadWord
<1>8. CASE Accept
  BY <1>8 DEF Accept
<1>9. CASE Retry
  BY <1>9 DEF Retry
<1>10. CASE GiveUp
  BY <1>10 DEF GiveUp
<1>. QED
  BY <1>1, <1>2, <1>3, <1>4, <1>5, <1>6, <1>7, <1>8, <1>9, <1>10
     DEF Next, Writer, Reader

\* Every step keeps the designated slot whole and the words growing.
LEMMA StepWriterInv ==
  ASSUME Inv, Next
  PROVE  WriterInv'
<1>. USE DEF Inv, TypeOK, WriterInv, Indexed, shared, writer, reader
<1>1. CASE BeginPublish
  BY <1>1 DEF BeginPublish
<1>2. ASSUME NEW x \in Words, WriteWord(x)
      PROVE  WriterInv'
  BY <1>2 DEF WriteWord
<1>3. CASE StoreIndex
  BY <1>3 DEF StoreIndex
<1>4. CASE CountTick
  BY <1>4 DEF CountTick
<1>5. CASE Reader
  <2>1. UNCHANGED <<shared, writer>>
    BY <1>5 DEF Reader, Poll, LoadIndex, ReadWord, Accept, Retry, GiveUp
  <2>. QED
    BY <2>1
<1>. QED
  BY <1>1, <1>2, <1>3, <1>4, <1>5 DEF Next, Writer

\* Every step keeps what is known of a call under way.
LEMMA StepCallInv ==
  ASSUME Inv, Next
  PROVE  CallInv'
<1>. USE DEF Inv, TypeOK, WriterInv, CallInv, Indexed, shared, writer, reader
<1>1. CASE BeginPublish
  BY <1>1 DEF BeginPublish
<1>2. ASSUME NEW x \in Words, WriteWord(x)
      PROVE  CallInv'
  BY <1>2 DEF WriteWord
<1>3. CASE StoreIndex
  BY <1>3 DEF StoreIndex
<1>4. CASE CountTick
  BY <1>4 DEF CountTick
<1>5. CASE Poll
  BY <1>5 DEF Poll, SampleInv
<1>6. CASE LoadIndex
  BY <1>6 DEF LoadIndex
<1>7. ASSUME NEW x \in Words, ReadWord(x)
      PROVE  CallInv'
  BY <1>7 DEF ReadWord
<1>8. CASE Accept
  BY <1>8 DEF Accept
<1>9. CASE Retry
  BY <1>9 DEF Retry, CopyInv, Copied
<1>10. CASE GiveUp
  BY <1>10 DEF GiveUp
<1>. QED
  BY <1>1, <1>2, <1>3, <1>4, <1>5, <1>6, <1>7, <1>8, <1>9, <1>10
     DEF Next, Writer, Reader

\* Every step keeps what is known of the words copied so far.
LEMMA StepCopyInv ==
  ASSUME Inv, Next
  PROVE  CopyInv'
<1>. USE DEF Inv, TypeOK, WriterInv, CallInv, CopyInv, Indexed,
             shared, writer, reader
<1>1. CASE BeginPublish
  BY <1>1 DEF BeginPublish
<1>2. ASSUME NEW x \in Words, WriteWord(x)
      PROVE  CopyInv'
  BY <1>2 DEF WriteWord
<1>3. CASE StoreIndex
  BY <1>3 DEF StoreIndex
<1>4. CASE CountTick
  BY <1>4 DEF CountTick
<1>5. CASE Poll
  BY <1>5 DEF Poll
<1>6. CASE LoadIndex
  BY <1>6 DEF LoadIndex
<1>7. ASSUME NEW x \in Words, ReadWord(x)
      PROVE  CopyInv'
  BY <1>7 DEF ReadWord
<1>8. CASE Accept
  BY <1>8 DEF Accept
<1>9. CASE Retry
  BY <1>9 DEF Retry
<1>10. CASE GiveUp
  BY <1>10 DEF GiveUp
<1>. QED
  BY <1>1, <1>2, <1>3, <1>4, <1>5, <1>6, <1>7, <1>8, <1>9, <1>10
     DEF Next, Writer, Reader

\* Every step keeps what is known of the sample a finished call left behind.
LEMMA StepSampleInv ==
  ASSUME Inv, Next
  PROVE  SampleInv'
<1>. USE DEF Inv, TypeOK, WriterInv, SampleInv, Indexed, shared, writer, reader
<1>1. CASE BeginPublish
  BY <1>1 DEF BeginPublish
<1>2. ASSUME NEW x \in Words, WriteWord(x)
      PROVE  SampleInv'
  BY <1>2 DEF WriteWord
<1>3. CASE StoreIndex
  BY <1>3 DEF StoreIndex
<1>4. CASE CountTick
  BY <1>4 DEF CountTick
<1>5. CASE Poll
  BY <1>5 DEF Poll
<1>6. CASE LoadIndex
  BY <1>6 DEF LoadIndex
<1>7. ASSUME NEW x \in Words, ReadWord(x)
      PROVE  SampleInv'
  BY <1>7 DEF ReadWord
<1>8. CASE Accept
  BY <1>8 DEF Accept, CallInv, CopyInv, Copied
<1>9. CASE Retry
  BY <1>9 DEF Retry
<1>10. CASE GiveUp
  BY <1>10 DEF GiveUp, CallInv, CopyInv, Copied
<1>. QED
  BY <1>1, <1>2, <1>3, <1>4, <1>5, <1>6, <1>7, <1>8, <1>9, <1>10
     DEF Next, Writer, Reader

-----------------------------------------------------------------------------
\* A step that changes nothing keeps the invariant.
LEMMA StutterInv ==
  ASSUME Inv, UNCHANGED vars
  PROVE  Inv'
BY DEF Inv, TypeOK, WriterInv, CallInv, CopyInv, SampleInv, Indexed,
       vars, shared, writer, reader

LEMMA InductiveInv == Spec => []Inv
<1>1. Inv /\ Next => Inv'
  BY StepTypeOK, StepWriterInv, StepCallInv, StepCopyInv, StepSampleInv DEF Inv
<1>. QED
  BY InitInv, StutterInv, <1>1, PTL DEF Spec

(***************************************************************************)
(* Every word copied out of the mailbox is a tick that was published, and  *)
(* the reader's sequence numbers stay within those of the feed.            *)
(***************************************************************************)
THEOREM TypeCorrect == Spec => []TypeOK
BY InductiveInv, PTL DEF Inv

(***************************************************************************)
(* publish never leaves the index on a slot that is not one whole tick.    *)
(***************************************************************************)
THEOREM IndexedSlotIsWholeThm == Spec => []IndexedSlotIsWhole
<1>1. Inv => IndexedSlotIsWhole
  BY DEF Inv, WriterInv, IndexedSlotIsWhole
<1>. QED
  BY <1>1, InductiveInv, PTL

(***************************************************************************)
(* try_read accepts a mixture only if the index moved twice under it.      *)
(***************************************************************************)
THEOREM TornOnlyIfLappedThm == Spec => TornOnlyIfLapped
<1> DEFINE Whole ==
      rpc = "copy" /\ rpc' = "idle" /\ tries < Attempts /\ Indexed < rv + 2
        => delivered' = [x \in Words |-> rv]
<1>1. ASSUME Inv, Next
      PROVE  Whole
  <2>1. CASE Accept
    BY <1>1, <2>1 DEF Inv, TypeOK, CopyInv, Accept, Copied, Indexed
  <2>2. CASE GiveUp
    BY <2>2 DEF GiveUp
  <2>. QED
    BY <1>1, <2>1, <2>2 DEF Next, Writer, Reader, BeginPublish, WriteWord,
         StoreIndex, CountTick, Poll, LoadIndex, ReadWord, Retry, reader
<1>2. Inv /\ [Next]_vars => [Whole]_vars
  BY <1>1
<1>. QED
  BY <1>2, InductiveInv, PTL DEF Spec, TornOnlyIfLapped

(***************************************************************************)
(* read_if_updated steps over the newest tick only in a burst of four.     *)
(***************************************************************************)
THEOREM TickSkippedOnlyInBurstThm == Spec => []TickSkippedOnlyInBurst
<1>1. Inv => TickSkippedOnlyInBurst
  BY DEF Inv, TypeOK, SampleInv, TickSkippedOnlyInBurst
<1>. QED
  BY <1>1, InductiveInv, PTL

(***************************************************************************)
(* No word of the compute thread's sample ever goes back in time.          *)
(***************************************************************************)
THEOREM NeverBackInTimeThm == Spec => NeverBackInTime
<1>1. ASSUME Inv, Next, ~UNCHANGED delivered
      PROVE  \A x \in Words : delivered'[x] >= delivered[x]
  <2>1. CASE Accept \/ GiveUp
    BY <1>1, <2>1
       DEF Inv, TypeOK, CopyInv, Accept, GiveUp, Copied
  <2>. QED
    BY <1>1, <2>1 DEF Next, Writer, Reader, BeginPublish, WriteWord, StoreIndex,
         CountTick, Poll, LoadIndex, ReadWord, Retry, reader
<1>2. Inv /\ [Next]_vars
        => [\A x \in Words : delivered'[x] >= delivered[x]]_delivered
  BY <1>1 DEF vars, reader
<1>. QED
  BY <1>2, InductiveInv, PTL DEF Spec, NeverBackInTime

-----------------------------------------------------------------------------
(***************************************************************************)
(* The mailbox implements the tick feed: publish begins and completes one  *)
(* tick, a call of read_if_updated that returns true is one delivery, and  *)
(* every other access to shared memory is invisible.                       *)
(***************************************************************************)
THEOREM Refinement == Spec => ImplementsTickFeed
<1>1. Init => Feed!Init
  BY DEF Init, Feed!Init
<1>2. ASSUME Inv, [Next]_vars
      PROVE  [Feed!Next]_Feed!vars
  <2>. USE <1>2 DEF Inv, TypeOK, WriterInv, shared, writer, reader
  <2>1. CASE BeginPublish
    BY <2>1 DEF BeginPublish, Feed!Begin, Feed!Next
  <2>2. CASE CountTick
    BY <2>2 DEF CountTick, Feed!Complete, Feed!Next
  <2>3. CASE Accept \/ GiveUp
    <3>1. lastSeq' \in (lastSeq + 1) .. seq
      BY <2>3 DEF Accept, GiveUp, Copied, CallInv
    <3>2. \A x \in Words : out[x] \in 0 .. pub /\ out[x] >= delivered[x]
      BY <2>3 DEF Accept, GiveUp, Copied, CopyInv
    <3>3. delivered' = out /\ UNCHANGED <<pub, seq>>
      BY <2>3 DEF Accept, GiveUp
    <3>4. lastSeq' < lastSeq + 5 => \A x \in Words : out[x] >= lastSeq'
      BY <2>3 DEF Accept, GiveUp, Copied, CallInv, CopyInv, Indexed
    <3>. QED
      BY <3>1, <3>2, <3>3, <3>4 DEF Feed!Deliver, Feed!Next
  <2>4. ASSUME NEW x \in Words, WriteWord(x) \/ ReadWord(x)
        PROVE  UNCHANGED Feed!vars
    BY <2>4 DEF WriteWord, ReadWord, Feed!vars
  <2>5. CASE StoreIndex \/ Poll \/ LoadIndex \/ Retry
    BY <2>5 DEF StoreIndex, Poll, LoadIndex, Retry, Feed!vars
  <2>6. CASE UNCHANGED vars
    BY <2>6 DEF vars, Feed!vars
  <2>. QED
    BY <2>1, <2>2, <2>3, <2>4, <2>5, <2>6 DEF Next, Writer, Reader
<1>. QED
  BY <1>1, <1>2, InductiveInv, PTL DEF Spec, ImplementsTickFeed, Feed!Spec

(***************************************************************************)
(* Through the promise of a tick feed: what a call of read_if_updated      *)
(* acknowledges has been completely published, and not even the unverified *)
(* sample has a word of a tick that publish has not begun.                 *)
(***************************************************************************)
THEOREM KeepsPaceThm == Spec => []Feed!KeepsPace
<1> DEFINE Paced == /\ pub \in Nat /\ seq \in Nat /\ lastSeq \in Nat
                    /\ Feed!KeepsPace
<1>1. Feed!Init => Paced
  BY DEF Feed!Init, Feed!KeepsPace
<1>2. ASSUME Paced, [Feed!Next]_Feed!vars PROVE Paced'
  <2> USE <1>2 DEF Feed!KeepsPace
  <2>1. CASE Feed!Begin
    <3>1. pub' = pub + 1 /\ pub = seq /\ UNCHANGED <<seq, lastSeq, delivered>>
      BY <2>1 DEF Feed!Begin
    <3>2. 0 .. pub \subseteq 0 .. pub + 1
      OBVIOUS
    <3> QED BY <3>1, <3>2
  <2>2. CASE Feed!Complete
    BY <2>2 DEF Feed!Complete
  <2>3. CASE Feed!Deliver
    BY <2>3 DEF Feed!Deliver
  <2>4. CASE UNCHANGED Feed!vars
    BY <2>4 DEF Feed!vars
  <2> QED BY <2>1, <2>2, <2>3, <2>4 DEF Feed!Next
<1>3. Paced => Feed!KeepsPace
  OBVIOUS
<1>4. ImplementsTickFeed => Feed!Init /\ [][Feed!Next]_Feed!vars
  BY DEF ImplementsTickFeed, Feed!Spec
<1> HIDE DEF Paced
<1> QED BY <1>1, <1>2, <1>3, <1>4, Refinement, PTL
=============================================================================
