------------------------------- MODULE Mailbox -------------------------------
(***************************************************************************)
(* core/ingest: the MarketMailbox between the market feed thread, which    *)
(* publishes ticks, and the compute thread, which samples the newest one.  *)
(* Two slots, an atomic index of the slot to read and an atomic sequence   *)
(* number; no lock, and neither side ever waits for the other.             *)
(*                                                                         *)
(* Every access to shared memory is a step of its own.  The copy of a      *)
(* MarketData record is not atomic: it is made of Words, which either side *)
(* copies in any order, so a copy racing with a write may mix two ticks.   *)
(* A tick is represented by its number: the k-th publish writes k in every *)
(* word.                                                                   *)
(*                                                                         *)
(* Definitions marked mutant are not part of the model: each is a version  *)
(* of the definition below it with a plausible mistake, used to show that  *)
(* a property depends on that line of the code.                            *)
(***************************************************************************)
EXTENDS Integers

CONSTANTS
  Words,              \* the separately copied parts of a MarketData record
  MaxPublish          \* bound: the number of ticks the feed publishes

ASSUME WordsAssumption == Words # {}
ASSUME PublishAssumption == MaxPublish \in Nat

Slots == {0, 1}
TwoAttempts == 2                                                   \* mutant
Attempts == 3         \* verified read attempts of read_if_updated

VARIABLES
  \* shared memory
  slots, idx, seq,
  \* the feed thread, in publish
  wpc, w, wtodo, pub,
  \* the compute thread, in read_if_updated and the try_read it calls
  rpc, s1, tries, r1, rtodo, out, lastSeq,
  \* the sample the compute thread last went on with
  delivered,
  \* history: the ticks indexed by the time the reader loaded r1
  rv

shared == <<slots, idx, seq>>
writer == <<wpc, w, wtodo, pub>>
reader == <<rpc, s1, tries, r1, rtodo, out, lastSeq, delivered, rv>>
vars == <<shared, writer, reader>>

\* The last tick whose slot idx has designated.
Indexed == IF wpc = "copy" THEN pub - 1 ELSE pub

Init ==
  /\ slots = [i \in Slots |-> [x \in Words |-> 0]]
  /\ idx = 0
  /\ seq = 0
  /\ wpc = "idle"
  /\ w = 0
  /\ wtodo = {}
  /\ pub = 0
  /\ rpc = "idle"
  /\ s1 = 0
  /\ tries = 0
  /\ r1 = 0
  /\ rtodo = {}
  /\ out = [x \in Words |-> 0]
  /\ lastSeq = 0
  /\ delivered = [x \in Words |-> 0]
  /\ rv = 0

-----------------------------------------------------------------------------
(* MarketMailbox::publish, called by GbmSimulator::run with the next tick.  *)

\* w = 1 - idx_.load(relaxed)
SameSlot == idx                                                    \* mutant
OtherSlot == 1 - idx

BeginPublish ==
  /\ wpc = "idle"
  /\ pub < MaxPublish
  /\ pub' = pub + 1
  /\ w' = OtherSlot
  /\ wtodo' = Words
  /\ wpc' = "copy"
  /\ UNCHANGED <<shared, reader>>

\* slots_[w] = data, one word of it
WriteWord(x) ==
  /\ wpc = "copy"
  /\ x \in wtodo
  /\ slots' = [slots EXCEPT ![w][x] = pub]
  /\ wtodo' = wtodo \ {x}
  /\ UNCHANGED <<idx, seq, wpc, w, pub, reader>>

\* idx_.store(w, release)
StoreIndex ==
  /\ wpc = "copy"
  /\ wtodo = {}
  /\ idx' = w
  /\ wpc' = "count"
  /\ UNCHANGED <<slots, seq, w, wtodo, pub, reader>>

\* seq_.fetch_add(1, release)
CountTick ==
  /\ wpc = "count"
  /\ seq' = seq + 1
  /\ wpc' = "idle"
  /\ UNCHANGED <<slots, idx, w, wtodo, pub, reader>>

Writer == BeginPublish \/ (\E x \in Words : WriteWord(x)) \/ StoreIndex \/ CountTick

-----------------------------------------------------------------------------
(* MarketMailbox::read_if_updated, called by the compute loop.  A call that *)
(* finds seq_ unchanged returns false and changes nothing.                  *)

AlwaysUpdated == TRUE                                              \* mutant
Updated == seq # lastSeq

Poll ==
  /\ rpc = "idle"
  /\ Updated
  /\ s1' = seq
  /\ tries' = 0
  /\ rpc' = "load"
  /\ UNCHANGED <<shared, writer, r1, rtodo, out, lastSeq, delivered, rv>>

\* try_read: r1 = idx_.load(acquire)
LoadIndex ==
  /\ rpc = "load"
  /\ r1' = idx
  /\ rv' = Indexed
  /\ rtodo' = Words
  /\ rpc' = "copy"
  /\ UNCHANGED <<shared, writer, s1, tries, out, lastSeq, delivered>>

\* try_read: out = slots_[r1], one word of it
ReadWord(x) ==
  /\ rpc = "copy"
  /\ x \in rtodo
  /\ out' = [out EXCEPT ![x] = slots[r1][x]]
  /\ rtodo' = rtodo \ {x}
  /\ UNCHANGED <<shared, writer, rpc, s1, tries, r1, lastSeq, delivered, rv>>

Copied == rpc = "copy" /\ rtodo = {}

\* try_read: r2 = idx_.load(acquire); return r1 == r2
AlwaysVerified == TRUE                                             \* mutant
Verified == idx = r1

\* return true, with last_seq = n
Finish(n) ==
  /\ lastSeq' = n
  /\ delivered' = out
  /\ rpc' = "idle"
  /\ UNCHANGED <<shared, writer, s1, tries, r1, rtodo, out, rv>>

AcceptNewest == Copied /\ tries < Attempts /\ Verified /\ Finish(seq)  \* mutant
AcceptUnmarked == Copied /\ tries < Attempts /\ Verified /\ Finish(lastSeq)
                                                                   \* mutant
\* try_read returned true in the loop
Accept == Copied /\ tries < Attempts /\ Verified /\ Finish(s1)

NextAttempt ==
  /\ tries' = tries + 1
  /\ rpc' = "load"
  /\ UNCHANGED <<shared, writer, s1, r1, rtodo, out, lastSeq, delivered, rv>>

RetryUncounted == Copied /\ ~Verified /\ NextAttempt               \* mutant

\* try_read returned false in the loop
Retry == Copied /\ tries < Attempts /\ ~Verified /\ NextAttempt

\* after the loop: (void)try_read(out), then last_seq = seq_.load(acquire)
GiveUp == Copied /\ tries = Attempts /\ Finish(seq)

Reader ==
  \/ Poll
  \/ LoadIndex
  \/ \E x \in Words : ReadWord(x)
  \/ Accept
  \/ Retry
  \/ GiveUp

-----------------------------------------------------------------------------
Next == Writer \/ Reader

(***************************************************************************)
(* Both threads loop for ever (run_core), so a started call is finished.   *)
(* The mailbox is polled again and again: in run_core that holds of the    *)
(* first one; for the second see StarvedOnlyByEarlier in ComputeLoop.      *)
(* Nothing obliges the feed to publish another tick.                       *)
(***************************************************************************)
Fairness == WF_vars(Reader) /\ WF_vars(Writer /\ wpc # "idle")

Spec == Init /\ [][Next]_vars
FairSpec == Spec /\ Fairness

-----------------------------------------------------------------------------
TypeOK ==
  /\ slots \in [Slots -> [Words -> 0 .. MaxPublish]]
  /\ idx \in Slots
  /\ seq \in 0 .. MaxPublish
  /\ wpc \in {"idle", "copy", "count"}
  /\ w \in Slots
  /\ wtodo \in SUBSET Words
  /\ pub \in 0 .. MaxPublish
  /\ rpc \in {"idle", "load", "copy"}
  /\ s1 \in 0 .. MaxPublish
  /\ tries \in 0 .. Attempts
  /\ r1 \in Slots
  /\ rtodo \in SUBSET Words
  /\ out \in [Words -> 0 .. MaxPublish]
  /\ lastSeq \in 0 .. MaxPublish
  /\ delivered \in [Words -> 0 .. MaxPublish]
  /\ rv \in 0 .. MaxPublish

(***************************************************************************)
(* The slot the index designates always holds one whole tick, the last one *)
(* indexed: publish never writes the slot a new reader would be sent to.   *)
(***************************************************************************)
IndexedSlotIsWhole == \A x \in Words : slots[idx][x] = Indexed

(***************************************************************************)
(* The r1 == r2 test of try_read lets a mixture of ticks through only when *)
(* the feed stored the index at least twice during the copy (the index is  *)
(* back at r1): a copy that one publish overtakes is always rejected, and  *)
(* one that none overtakes is exactly the tick indexed when it began.      *)
(***************************************************************************)
TornOnlyIfLapped ==
  [][rpc = "copy" /\ rpc' = "idle" /\ tries < Attempts /\ Indexed < rv + 2
       => delivered' = [x \in Words |-> rv]]_vars

(***************************************************************************)
(* The sample the compute thread prices with never goes back in time, not  *)
(* in any word: neither a retry, nor a mixed copy, nor the unverified      *)
(* fourth read can hand out data older than what was handed out before.    *)
(***************************************************************************)
NeverBackInTime ==
  [][\A x \in Words : delivered'[x] >= delivered[x]]_delivered

(***************************************************************************)
(* lastSeq runs ahead of the data it stands for, so that the tick it names *)
(* will not be read unless another follows, only after the unverified      *)
(* fourth read and only if the feed completed at least four ticks during   *)
(* that one call of read_if_updated.                                       *)
(***************************************************************************)
TickSkippedOnlyInBurst ==
  rpc = "idle" /\ (\E x \in Words : delivered[x] < lastSeq) => lastSeq >= s1 + 4

(***************************************************************************)
(* A tick whose publication is complete is eventually acknowledged, however *)
(* often the feed makes the reader start again.                            *)
(***************************************************************************)
EveryTickAcknowledged ==
  \A k \in 1 .. MaxPublish : seq >= k ~> lastSeq >= k

(***************************************************************************)
(* The mailbox is a TickFeed: a tick has begun when publish is called, is  *)
(* done when seq counts it, and a call of read_if_updated that returns     *)
(* true is one delivery, in order unless all attempts failed.              *)
(***************************************************************************)
Feed == INSTANCE TickFeed WITH
  Burst <- Attempts + 2,
  begun <- pub, done <- seq, seen <- lastSeq, delivered <- delivered

ImplementsTickFeed == Feed!Spec
=============================================================================
