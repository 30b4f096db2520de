--------------------------- MODULE MCExpiryBatch ---------------------------
(* Two strikes, one of which a float cannot hold.                           *)
EXTENDS ExpiryBatch

InFloat == [k \in Strikes |-> 1000]
OneOrTwo ==
  {<<[strike |-> 1001, payoff |-> "VAN_PUT"]>>,
   <<[strike |-> 1000, payoff |-> "VAN_CALL"], [strike |-> 1001, payoff |-> "VAN_PUT"]>>}
=============================================================================
