----------------------------- MODULE MCPositions -----------------------------
(* Few contracts, small orders: enough to open, add to, sell out and race.  *)
EXTENDS Positions

O(k, d) == [key |-> k, delta |-> d]

\* Two requests open the same position, one of them twice; a third sells.
RacingOrders ==
  (1 :> <<O("call", 2), O("put", 1)>>) @@
  (2 :> <<O("call", 1), O("call", -1)>>) @@
  (3 :> <<O("call", -2), O("star", 1)>>)

\* An order, and the same order sent again.
RetriedOrders == (1 :> <<O("call", 1)>>) @@ (2 :> <<O("call", 1)>>) @@ (3 :> <<O("put", 1)>>)
=============================================================================
