----------------------------- MODULE PricedSlice -----------------------------
(***************************************************************************)
(* What the batch of a slice promises to those who publish it: a list of   *)
(* contracts, and the results of the last tick, one for each contract that *)
(* was in the list then, every one of that tick and of its own contract.   *)
(* PublishPath takes batches to be like this.                              *)
(***************************************************************************)
EXTENDS Naturals, Sequences

CONSTANTS
  Contracts,
  Lists,              \* what a batch may be built with
  Narrowed,           \* a contract whose strike went through a float
  MaxTicks            \* bound: ticks

VARIABLES
  contracts, shown

Init == contracts = <<>> /\ shown = <<>>

Build(cs) == contracts' = cs /\ shown' = <<>>

Add(c) == contracts' = Append(contracts, Narrowed[c]) /\ UNCHANGED shown

Tick(t) ==
  /\ shown' = [n \in DOMAIN contracts |-> [of |-> contracts[n], tick |-> t]]
  /\ UNCHANGED contracts

Next ==
  \/ \E cs \in Lists : Build(cs)
  \/ \E c \in Contracts : Add(c)
  \/ \E t \in 1 .. MaxTicks : Tick(t)

Spec == Init /\ [][Next]_<<contracts, shown>>

(***************************************************************************)
(* What is shown is of one tick, and its n-th entry is of the n-th         *)
(* contract: contracts added since have none, and none has moved.          *)
(***************************************************************************)
ShowsOneTick ==
  /\ \A n \in DOMAIN shown : n \in DOMAIN contracts /\ shown[n].of = contracts[n]
  /\ \A n, k \in DOMAIN shown : shown[n].tick = shown[k].tick
=============================================================================
