-------------------------------- MODULE Fifo --------------------------------
(***************************************************************************)
(* What the queues between the threads of the core promise: what the       *)
(* producer was told is accepted, the consumer takes, all of it, once, in  *)
(* order; and no more than Capacity of it waits in between.                *)
(***************************************************************************)
EXTENDS Naturals, Sequences

CONSTANTS Items, Capacity

VARIABLES accepted, taken

Init == accepted = <<>> /\ taken = <<>>

Accept ==
  /\ Len(accepted) < Len(taken) + Capacity
  /\ \E x \in Items : accepted' = Append(accepted, x)
  /\ UNCHANGED taken

Take ==
  /\ Len(taken) < Len(accepted)
  /\ taken' = Append(taken, accepted[Len(taken) + 1])
  /\ UNCHANGED accepted

Spec == Init /\ [][Accept \/ Take]_<<accepted, taken>>

(***************************************************************************)
(* What has been taken is the beginning of what was accepted: nothing is   *)
(* lost, repeated or overtaken, and what waits fits in the queue.          *)
(***************************************************************************)
InOrder ==
  /\ Len(taken) <= Len(accepted)
  /\ Len(accepted) <= Len(taken) + Capacity
  /\ \A n \in 1 .. Len(taken) : taken[n] = accepted[n]
=============================================================================
