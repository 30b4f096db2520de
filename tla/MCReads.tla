------------------------------ MODULE MCReads ------------------------------
(* Two contracts, asked for together or one of them.                        *)
EXTENDS Reads

AllOrOne == {{"call", "put"}, {"call"}}
=============================================================================
