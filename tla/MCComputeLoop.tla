--------------------------- MODULE MCComputeLoop ---------------------------
(* Two feeds, and orders of new expiries: one that has just passed, and one *)
(* without which the last expiry of GOOGL retires.                          *)
EXTENDS ComputeLoop

C(s, t) == [symbol |-> s, expiry |-> t, strike |-> 100, payoff |-> "VAN_CALL"]

Scaled == (100 :> 1000000)

EarlyAndLate == <<C("AAPL", 9), C("AAPL", 1), C("GOOGL", 1)>>
NewExpiries == {C("AAPL", 0), C("GOOGL", 9)}
AppleGoogle == <<"AAPL", "GOOGL">>
=============================================================================
