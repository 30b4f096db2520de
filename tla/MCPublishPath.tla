--------------------------- MODULE MCPublishPath ---------------------------
(* Two expiries of one symbol, of one two contracts and of the other one;   *)
(* or one contract of each.                                                 *)
EXTENDS PublishPath

OwnDates == ("far" :> "day2") @@ ("near" :> "day1")
NearFirst == ("far" :> 2) @@ ("near" :> 1)
CallAndPut == ("far" :> {"put"}) @@ ("near" :> {"call", "put"})
OneOfEach == ("far" :> {"put"}) @@ ("near" :> {"call"})
=============================================================================
