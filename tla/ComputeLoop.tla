----------------------------- MODULE ComputeLoop -----------------------------
(***************************************************************************)
(* core/runtime: the loop of the compute thread around StateOrchestrator.  *)
(* It polls the mailboxes of the feeds in a fixed order, the later ones    *)
(* only if the earlier ones have nothing new; flushes and prices on a      *)
(* tick; sleeps without one; and flushes in any case when the last flush   *)
(* is FlushEvery ago.  One thread publishes to all feeds in turn.          *)
(*                                                                         *)
(* A flush is that of Orchestrator, step by step.  A mailbox keeps its     *)
(* promise (TickFeed): what is read is its newest tick, and of that only   *)
(* the time matters.  The clock of a feed may fall behind the system's but *)
(* not run ahead of it: each tick adds dt and then sleeps for dt, a step   *)
(* below the resolution of this model.                                     *)
(* Definitions marked mutant are not part of the model.                    *)
(***************************************************************************)
EXTENDS Orchestrator

CONSTANTS
  Feeds,              \* the symbols with a mailbox, in the order of polling
  FlushEvery          \* 5 seconds of the steady clock

ASSUME FeedsAssumption == IsInjective(Feeds) /\ ToSet(Feeds) \subseteq Symbols
ASSUME FlushAssumption == FlushEvery \in Nat \ {0}

VARIABLES
  loop,               \* where the compute thread is in its loop
  data,               \* the tick in hand: a sequence of one or none
  elapsed,            \* of the steady clock since last_flush, up to FlushEvery
  fresh, asOf,        \* per feed: whether its newest tick is unread, its time
  turn,               \* the feed that publishes next
  \* history
  waiting,            \* the contracts queued when the tick was read
  known               \* per symbol, the expiries it had when the flush began

feeds == <<fresh, asOf, turn>>
loopVars == <<loop, data, elapsed, feeds, waiting, known>>

LoopInit ==
  /\ Init
  /\ loop = "boot"
  /\ data = <<>>
  /\ elapsed = 0
  /\ fresh = [n \in DOMAIN Feeds |-> FALSE]
  /\ asOf = [n \in DOMAIN Feeds |-> 0]
  /\ turn = 1
  /\ waiting = {}
  /\ known = [s \in Symbols |-> 0]

-----------------------------------------------------------------------------
(* The other threads and the clocks.                                        *)

Elapse ==
  /\ elapsed < FlushEvery
  /\ elapsed' = elapsed + 1
  /\ UNCHANGED <<vars, loop, data, feeds, waiting, known>>

AheadOfTime(n) == asOf[n] .. now + 1                               \* mutant
FeedTimes(n) == asOf[n] .. now

\* GbmSimulator::run of the feed whose turn it is
PublishTick ==
  /\ Running
  /\ fresh' = [fresh EXCEPT ![turn] = TRUE]
  /\ \E t \in FeedTimes(turn) : asOf' = [asOf EXCEPT ![turn] = t]
  /\ turn' = (turn % Len(Feeds)) + 1
  /\ UNCHANGED <<vars, loop, data, elapsed, waiting, known>>

Others ==
  \/ Advance /\ UNCHANGED loopVars
  \/ (\E c \in Orders : Enqueue(c)) /\ UNCHANGED loopVars
  \/ (OutOfMemory \/ StrayWrite) /\ UNCHANGED loopVars
  \/ Elapse
  \/ PublishTick

-----------------------------------------------------------------------------
(* The compute thread.                                                      *)

Goto(from, to) == pc # "dead" /\ loop = from /\ loop' = to

Boots ==
  /\ loop = "boot"
  /\ Boot
  /\ loop' = IF pc' = "idle" THEN "poll" ELSE "boot"
  /\ UNCHANGED <<data, elapsed, feeds, waiting, known>>

OnlyFirst(n) == n = 1 /\ fresh[n]                                  \* mutant
\* the operands of || up to the first that is true
Polled(n) == fresh[n] /\ \A k \in 1 .. n - 1 : ~fresh[k]

\* pricing what the last flush left
AfterRead == "tick"                                                \* mutant
Pending == "flush"

ReadTick(n) ==
  /\ Polled(n)
  /\ Goto("poll", Pending)
  /\ data' = <<[symbol |-> Feeds[n], asOf |-> asOf[n]]>>
  /\ fresh' = [fresh EXCEPT ![n] = FALSE]
  /\ waiting' = ToSet(opened)
  /\ UNCHANGED <<vars, elapsed, asOf, turn, known>>

\* this_thread::sleep_for
Sleep ==
  /\ \A n \in DOMAIN Feeds : ~Polled(n)
  /\ Goto("poll", "timer")
  /\ UNCHANGED <<vars, data, elapsed, feeds, waiting, known>>

\* last_flush is taken before the flush
Flush ==
  /\ Goto("flush", "flushing")
  /\ StartFlush
  /\ elapsed' = 0
  /\ known' = [s \in Symbols |-> Len(reg.expiries[s])]
  /\ UNCHANGED <<data, feeds, waiting>>

Flushing ==
  /\ loop = "flushing"
  /\ Pop \/ Place
  /\ loop' = CASE pc' # "idle" -> "flushing"
               [] pc' = "idle" /\ data # <<>> -> "tick"
               [] OTHER -> "poll"
  /\ UNCHANGED <<data, elapsed, feeds, waiting, known>>

\* StateOrchestrator::process_tick looks up the state of the tick's symbol and
\* prices every slot of its batches, and no other: these are the contracts.
Priced == data[1].symbol
PricedByTick ==
  UNION {{<<Priced, e, k>> : k \in ToSet(batches[Priced][e])} : e \in DOMAIN batches[Priced]}

ProcessTick ==
  /\ Goto("tick", "timer")
  /\ data' = <<>>
  /\ waiting' = {}
  /\ UNCHANGED <<vars, elapsed, feeds, known>>

NeverDue == FALSE                                                  \* mutant
FlushDue == elapsed >= FlushEvery

Timer ==
  /\ Goto("timer", IF FlushDue THEN "flush" ELSE "poll")
  /\ UNCHANGED <<vars, data, elapsed, feeds, waiting, known>>

Loop ==
  \/ Boots
  \/ \E n \in DOMAIN Feeds : ReadTick(n)
  \/ Sleep \/ Flush \/ Flushing \/ ProcessTick \/ Timer

LoopNext == Others \/ Loop

allVars == <<vars, loopVars>>

(***************************************************************************)
(* The compute thread is scheduled again and again, and the clocks         *)
(* advance.  Nothing is assumed of the feeds: they may fall silent.        *)
(***************************************************************************)
LoopFairness ==
  /\ WF_allVars(Loop)
  /\ WF_allVars(Elapse)
  /\ WF_allVars(Advance /\ UNCHANGED loopVars)

LoopSpec == LoopInit /\ [][LoopNext]_allVars /\ LoopFairness

-----------------------------------------------------------------------------
(***************************************************************************)
(* The loop is an Orchestrator, fairness included: ticks or no ticks, it   *)
(* flushes again and again, which is what OpenedIsPlaced rests on.         *)
(***************************************************************************)
ImplementsOrchestrator == FairSpec

(***************************************************************************)
(* IExpiryBatch::process_tick computes expiry - as_of in unsigned          *)
(* integers, which wraps around after the expiry.  A batch is never priced *)
(* that far out of its time: the feed's clock is behind the system's, and  *)
(* the flush between the read of the tick and its pricing has retired what *)
(* the tick finds past its grace period; except what a stale pointer left  *)
(* behind, and slices opened when it was too late: after they had retired, *)
(* or in this very flush.                                                  *)
(***************************************************************************)
WrapsOnlyInGrace ==
  loop = "tick" =>
    \A e \in DOMAIN batches[Priced] :
      \/ data[1].asOf < reg.expiries[Priced][e] + Grace
      \/ Priced \in strayed
      \/ <<Priced, e>> \in late \/ e > known[Priced]

(***************************************************************************)
(* A contract of the tick's symbol that was waiting in the queue when the  *)
(* tick was read is among those priced by it: the flush in between has     *)
(* drained the queue and placed all of it.  Excepted are a slice that has  *)
(* retired, a symbol hit by a stray retirement, and a batch that overran   *)
(* its arrays.  A contract of another symbol waits for a tick of its own.  *)
(***************************************************************************)
IsPriced(c) ==
  \E e \in DOMAIN reg.expiries[c.symbol] :
    /\ reg.expiries[c.symbol][e] = c.expiry
    /\ \E k \in {StoredKey(c), LookupKey(c)} : <<c.symbol, e, k>> \in PricedByTick

WaitingIsPriced ==
  loop = "tick" =>
    \A c \in waiting :
      c.symbol = Priced =>
        IsPriced(c) \/ Retired(c) \/ c.symbol \in strayed \/ PastEnds(c)

(***************************************************************************)
(* Only a feed polled before it can starve a feed: while the thread lives, *)
(* the newest tick of a feed stays unread for ever only if some feed       *)
(* before it publishes for ever.  So the first feed is never starved, and  *)
(* the second may be: with one thread publishing to both in turn, each     *)
(* flush and tick that lasts as long as its pause finds the first feed     *)
(* fresh again.                                                            *)
(***************************************************************************)
StarvedOnlyByEarlier ==
  \A n \in DOMAIN Feeds :
    \/ []<>(~fresh[n] \/ pc \in {"stuck", "dead"})
    \/ []<><<PublishTick /\ turn < n>>_allVars
=============================================================================
