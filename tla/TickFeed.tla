------------------------------ MODULE TickFeed ------------------------------
(***************************************************************************)
(* What the ingest mailbox promises the compute thread, whatever the       *)
(* mailbox does inside: a stream of market ticks, numbered in the order    *)
(* the producer started to publish them, of which the consumer samples     *)
(* some.  A tick is made of Words copied one at a time, so a sample may    *)
(* mix ticks; the promise is about each word of it.                        *)
(***************************************************************************)
EXTENDS Integers

CONSTANTS
  Words,              \* the separately copied parts of a MarketData record
  Burst               \* how far behind a consumer may lose track of a tick

VARIABLES
  begun,              \* the last tick whose publication has begun
  done,               \* the last tick whose publication is complete
  seen,               \* the last tick the consumer believes to have taken
  delivered           \* the consumer's sample: for each word, its tick

vars == <<begun, done, seen, delivered>>

Init ==
  /\ begun = 0
  /\ done = 0
  /\ seen = 0
  /\ delivered = [x \in Words |-> 0]

\* The producer starts a tick only when the previous one is complete.
Begin ==
  /\ begun = done
  /\ begun' = begun + 1
  /\ UNCHANGED <<done, seen, delivered>>

Complete ==
  /\ done < begun
  /\ done' = begun
  /\ UNCHANGED <<begun, seen, delivered>>

(***************************************************************************)
(* A delivery acknowledges a complete tick newer than the last one         *)
(* acknowledged.  No word of it is older than the same word of the         *)
(* previous delivery or comes from a tick not yet begun; and none is older *)
(* than the tick acknowledged, unless the consumer had fallen at least     *)
(* Burst ticks behind.                                                     *)
(***************************************************************************)
Deliver ==
  /\ seen' \in (seen + 1) .. done
  /\ delivered' \in [Words -> 0 .. begun]
  /\ \A x \in Words : delivered'[x] >= delivered[x]
  /\ seen' < seen + Burst => \A x \in Words : delivered'[x] >= seen'
  /\ UNCHANGED <<begun, done>>

Next == Begin \/ Complete \/ Deliver

Spec == Init /\ [][Next]_vars

(***************************************************************************)
(* One tick at most is under way; what is acknowledged is complete, and no *)
(* word of the sample is of a tick that has not begun.                     *)
(***************************************************************************)
KeepsPace ==
  /\ done <= begun /\ begun <= done + 1
  /\ seen <= done
  /\ delivered \in [Words -> 0 .. begun]
=============================================================================
