--------------------------- MODULE TimeZoneProofs ---------------------------
(***************************************************************************)
(* Theorems of TimeZone, for any number of threads calling either function *)
(* in any zone.  A call is safe while it is alone (AloneInv); a leak is    *)
(* for good because the zone and everything saved is then New York         *)
(* (Leaked), which needs that the C library agrees with the environment    *)
(* whenever no call is about to call tzset (AppliedInv).                   *)
(***************************************************************************)
EXTENDS TimeZone, TLAPS

Aloof(t) == pc[t] # "idle" /\ ~overlapped[t]

\* A call that nothing has overlapped is the only one, and sees its own zone.
AloneInv ==
  \A t \in Threads :
    /\ pc[t] = "idle" => used[t] = NoZone
    /\ Aloof(t) =>
         /\ \A u \in Threads \ {t} : pc[u] = "idle"
         /\ pc[t] \in {"apply", "reapply", "convert", "restore"} => tz = NewYork
         /\ pc[t] \in {"reapply", "convert"} => zone = NewYork
         /\ used[t] \in {NoZone, NewYork}

\* zone lags behind tz only while some call is about to call tzset.
AppliedInv == zone # tz => \E t \in Threads : pc[t] \in {"apply", "reset"}

Inv == TypeOK /\ AloneInv /\ AppliedInv

\* The environment after a leak.
Leaked ==
  /\ tz = NewYork
  /\ zone = NewYork
  /\ \A t \in Threads :
       /\ pc[t] \in {"set", "apply", "reapply", "convert", "restore"} =>
            saved[t] = NewYork
       /\ used[t] \in {NoZone, NewYork}

-----------------------------------------------------------------------------
LEMMA InitInv == Init => Inv
  BY FunctionAssumption, ZoneAssumption
  DEF Init, Inv, TypeOK, AloneInv, AppliedInv, Aloof, Zones

LEMMA StepInv == Inv /\ [Next]_vars => Inv'
<1> SUFFICES ASSUME Inv, [Next]_vars PROVE Inv'
  OBVIOUS
<1> USE ZoneAssumption DEF Inv, TypeOK, AloneInv, AppliedInv, Aloof, Zones, Goto
<1>1. CASE UNCHANGED vars
  BY <1>1 DEF vars
<1>2. ASSUME NEW t \in Threads, Call(t) PROVE Inv'
  BY <1>2 DEF Call, Busy
<1>3. ASSUME NEW t \in Threads, Save(t) PROVE Inv'
  BY <1>3 DEF Save
<1>4. ASSUME NEW t \in Threads, SetNewYork(t) PROVE Inv'
  BY <1>4 DEF SetNewYork
<1>5. ASSUME NEW t \in Threads, Apply(t) \/ Reapply(t) PROVE Inv'
  BY <1>5 DEF Apply, Reapply, ApplyTo
<1>6. ASSUME NEW t \in Threads, Reset(t) PROVE Inv'
  BY <1>6 DEF Reset, ApplyTo
<1>7. ASSUME NEW t \in Threads, Convert(t) PROVE Inv'
  BY <1>7 DEF Convert
<1>8. ASSUME NEW t \in Threads, Restore(t) PROVE Inv'
  BY <1>8 DEF Restore
<1>9. ASSUME NEW t \in Threads, Return(t) PROVE Inv'
  BY <1>9 DEF Return
<1> QED BY <1>1, <1>2, <1>3, <1>4, <1>5, <1>6, <1>7, <1>8, <1>9 DEF Next

LEMMA Invariance == Spec => []Inv
  BY InitInv, StepInv, PTL DEF Spec

(***************************************************************************)
(* The process environment, the C library and the calls keep their types,  *)
(* and what a call is about to restore is a zone it has saved.             *)
(***************************************************************************)
THEOREM TypeCorrect == Spec => []TypeOK
<1>1. Inv => TypeOK
  BY DEF Inv
<1> QED BY <1>1, Invariance, PTL

(***************************************************************************)
(* Only a call that another overlapped can convert outside New York.       *)
(***************************************************************************)
THEOREM WrongOnlyIfOverlappedThm == Spec => []WrongOnlyIfOverlapped
<1>1. Inv => WrongOnlyIfOverlapped
  BY DEF Inv, AloneInv, Aloof, WrongOnlyIfOverlapped
<1> QED BY <1>1, Invariance, PTL

-----------------------------------------------------------------------------
LEMMA QuietLeak == Inv /\ Quiet /\ tz = NewYork => Leaked
  BY DEF Inv, AloneInv, AppliedInv, Quiet, Busy, Leaked

LEMMA LeakStays == Inv /\ Leaked /\ [Next]_vars => Leaked'
<1> SUFFICES ASSUME Inv, Leaked, [Next]_vars PROVE Leaked'
  OBVIOUS
<1> USE DEF Inv, TypeOK, Leaked, Goto
<1>1. CASE UNCHANGED vars
  BY <1>1 DEF vars
<1>2. ASSUME NEW t \in Threads, Call(t) \/ Save(t) \/ SetNewYork(t) PROVE Leaked'
  BY <1>2 DEF Call, Save, SetNewYork
<1>3. ASSUME NEW t \in Threads, Apply(t) \/ Reapply(t) \/ Reset(t) PROVE Leaked'
  BY <1>3 DEF Apply, Reapply, Reset, ApplyTo
<1>4. ASSUME NEW t \in Threads, Convert(t) \/ Restore(t) \/ Return(t) PROVE Leaked'
  BY <1>4 DEF Convert, Restore, Return
<1> QED BY <1>1, <1>2, <1>3, <1>4 DEF Next

(***************************************************************************)
(* Once New York is left behind in the environment, no race between the    *)
(* two functions makes a conversion wrong any more.                        *)
(***************************************************************************)
THEOREM LeakIsHarmlessThm == Spec => LeakIsHarmless
<1>1. Leaked => ConvertsInNewYork
  BY DEF Leaked, ConvertsInNewYork
<1> QED BY <1>1, QuietLeak, LeakStays, Invariance, PTL DEF Spec, LeakIsHarmless
=============================================================================
