------------------------------ MODULE TimeZone ------------------------------
(***************************************************************************)
(* core/common: parse_time and ns_to_iso8601_ny convert between text and   *)
(* time in New York by changing the TZ variable of the whole process and   *)
(* changing it back.  Each holds a mutex meanwhile, but each one its own.  *)
(* The compute thread parses (the expiry of an opened contract), the       *)
(* publisher thread formats (as_of, and the date in the key of a row).     *)
(*                                                                         *)
(* The environment holds tz; zone is what the C library converts with,     *)
(* set from the environment by tzset.  Every access is a step.             *)
(* Definitions marked mutant are not part of the model.                    *)
(***************************************************************************)
EXTENDS Naturals

CONSTANTS
  Threads,
  FunctionOf,         \* the function a thread calls, "parse" or "format"
  NewYork, Original,  \* time zones; Original may be: TZ is not set
  NoZone

ASSUME FunctionAssumption == FunctionOf \in [Threads -> {"parse", "format"}]
ASSUME ZoneAssumption == NoZone \notin {NewYork, Original}

Zones == {NewYork, Original}

VARIABLES
  tz, zone,           \* of the process
  pc,                 \* where each thread is in its call
  saved,              \* old_tz_val of the call
  used,               \* the zone the call has converted in
  overlapped          \* history: a call of the other function overlapped it

vars == <<tz, zone, pc, saved, used, overlapped>>

Init ==
  /\ tz = Original
  /\ zone = Original
  /\ pc = [t \in Threads |-> "idle"]
  /\ saved = [t \in Threads |-> NoZone]
  /\ used = [t \in Threads |-> NoZone]
  /\ overlapped = [t \in Threads |-> FALSE]

Busy == {t \in Threads : pc[t] # "idle"}
Goto(t, p, q) == pc[t] = p /\ pc' = [pc EXCEPT ![t] = q]

\* lock_guard on the static mutex of the function
Call(t) ==
  /\ \A u \in Busy : FunctionOf[u] # FunctionOf[t]
  /\ Goto(t, "idle", "save")
  /\ overlapped' = [u \in Threads |->
       IF u = t THEN Busy # {} ELSE overlapped[u] \/ u \in Busy]
  /\ UNCHANGED <<tz, zone, saved, used>>

\* old_tz_val is static: it keeps what the first call found
SaveOnce(t) ==                                                     \* mutant
  /\ Goto(t, "save", "set")
  /\ saved' = [saved EXCEPT ![t] = IF @ = NoZone THEN tz ELSE @]
  /\ UNCHANGED <<tz, zone, used, overlapped>>

\* getenv("TZ") and its copy
Save(t) ==
  /\ Goto(t, "save", "set")
  /\ saved' = [saved EXCEPT ![t] = tz]
  /\ UNCHANGED <<tz, zone, used, overlapped>>

\* setenv("TZ", "America/New_York", 1)
SetNewYork(t) ==
  /\ Goto(t, "set", "apply")
  /\ tz' = NewYork
  /\ UNCHANGED <<zone, saved, used, overlapped>>

\* tzset(); mktime, not localtime_r, begins with another one
ApplyTo(t, p, q) ==
  /\ Goto(t, p, q)
  /\ zone' = tz
  /\ UNCHANGED <<tz, saved, used, overlapped>>

\* no tzset before the conversion
NotApplied(t) ==                                                   \* mutant
  /\ Goto(t, "apply", "convert")
  /\ UNCHANGED <<tz, zone, saved, used, overlapped>>
Apply(t) == ApplyTo(t, "apply", IF FunctionOf[t] = "parse" THEN "reapply" ELSE "convert")
Reapply(t) == ApplyTo(t, "reapply", "convert")

\* localtime_r or mktime
Convert(t) ==
  /\ Goto(t, "convert", "restore")
  /\ used' = [used EXCEPT ![t] = zone]
  /\ UNCHANGED <<tz, zone, saved, overlapped>>

\* setenv("TZ", old_tz_val.c_str(), 1) or unsetenv("TZ")
Restore(t) ==
  /\ Goto(t, "restore", "reset")
  /\ tz' = saved[t]
  /\ UNCHANGED <<zone, saved, used, overlapped>>

Reset(t) == ApplyTo(t, "reset", "return")
\* Return, which unlocks the mutex.
Return(t) ==
  /\ Goto(t, "return", "idle")
  /\ used' = [used EXCEPT ![t] = NoZone]
  /\ UNCHANGED <<tz, zone, saved, overlapped>>

Next == \E t \in Threads :
  \/ Call(t) \/ Save(t) \/ SetNewYork(t) \/ Apply(t) \/ Reapply(t)
  \/ Convert(t) \/ Restore(t) \/ Reset(t) \/ Return(t)

Spec == Init /\ [][Next]_vars

-----------------------------------------------------------------------------
TypeOK ==
  /\ tz \in Zones
  /\ zone \in Zones
  /\ pc \in [Threads -> {"idle", "save", "set", "apply", "reapply", "convert",
                         "restore", "reset", "return"}]
  /\ saved \in [Threads -> Zones \cup {NoZone}]
  /\ \A t \in Threads :
       pc[t] \in {"set", "apply", "reapply", "convert", "restore"} => saved[t] \in Zones
  /\ used \in [Threads -> Zones \cup {NoZone}]
  /\ overlapped \in [Threads -> BOOLEAN]

(***************************************************************************)
(* A call that no call of the other function overlaps converts in New      *)
(* York, whatever overlapping calls before it left in the environment.     *)
(***************************************************************************)
WrongOnlyIfOverlapped ==
  \A t \in Threads : used[t] = NoZone \/ used[t] = NewYork \/ overlapped[t]

\* What the comment at both mutexes asks for ("Thread safety: use a mutex to
\* protect TZ manipulation") and overlapping calls do not keep.
ConvertsInNewYork == \A t \in Threads : used[t] \in {NoZone, NewYork}

Quiet == Busy = {}

(***************************************************************************)
(* Two overlapping calls may leave New York in the environment of the      *)
(* process for good: the one that restored last had saved what the other   *)
(* had set.  From then on every call converts in New York, even one that   *)
(* another overlaps.                                                       *)
(***************************************************************************)
LeakIsHarmless == [](Quiet /\ tz = NewYork => []ConvertsInNewYork)
=============================================================================
