----------------------------- MODULE MCTimeZone -----------------------------
(* The two threads of the core that convert times.                          *)
EXTENDS TimeZone, TLC

OneEach == ("compute" :> "parse") @@ ("publisher" :> "format")
=============================================================================
