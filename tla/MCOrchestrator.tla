--------------------------- MODULE MCOrchestrator ---------------------------
(* Contracts of two symbols.  Strikes are named by their value times 10000: *)
(* 1000000 is 100.0, converted alike by double and float; 10600 is 1.06,    *)
(* which the float truncates to 10599; and 10601 stands for 1.0600001,      *)
(* which both truncate to 10600.                                            *)
EXTENDS Orchestrator

C(s, t, k) == [symbol |-> s, expiry |-> t, strike |-> k, payoff |-> "VAN_CALL"]

DoubleScaled == (1000000 :> 1000000) @@ (10601 :> 10600) @@ (10600 :> 10600)
FloatScaled == (1000000 :> 1000000) @@ (10601 :> 10600) @@ (10600 :> 10599)

\* Two expiries of AAPL, the later first, and one of GOOGL that outlives them.
ThreeSeeds ==
  <<C("AAPL", 4, 1000000), C("AAPL", 1, 1000000), C("GOOGL", 9, 1000000)>>

MixedOrders ==
  {C("AAPL", 1, 10601),          \* new strike of a slice that soon retires
   C("AAPL", 6, 1000000),        \* new expiry, the third
   C("GOOGL", 9, 10601),         \* two new strikes of a slice that stays,
   C("GOOGL", 9, 10600),         \* one looked up under the key of the other
   C("TSLA", 2, 1000000),        \* new symbol with a single early expiry
   C("AAPL", Malformed, 1000000)}

\* A symbol with a single, early expiry.
NewExpiry == {C("TSLA", 2, 1000000)}
=============================================================================
