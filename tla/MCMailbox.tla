----------------------------- MODULE MCMailbox -----------------------------
(* A feed of a few ticks, each copied in two words: enough for a sample to  *)
(* mix two ticks.                                                           *)
EXTENDS Mailbox

TwoWords == {"spot", "ts"}
=============================================================================
