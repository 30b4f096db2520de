------------------------------ MODULE Positions ------------------------------
(***************************************************************************)
(* The write path of the API: POST /positions, the hash "positions" in     *)
(* Redis, and the stream that tells the core of newly opened contracts.    *)
(* The handlers run on one event loop and interleave wherever they await   *)
(* Redis; Redis answers whatever the loop is doing.  The gRPC call is not  *)
(* awaited: while it lasts, no other handler runs.                         *)
(*                                                                         *)
(* A contract is named by its key.  Some keys are not exact (a field left  *)
(* empty becomes "*"), some have a type that the core's gRPC server does   *)
(* not parse, and some an expiry that its compute thread does not parse,   *)
(* which ends the core.                                                    *)
(* Definitions marked mutant are not part of the model.                    *)
(***************************************************************************)
EXTENDS Integers, SequencesExt

CONSTANTS
  Requests,           \* POST requests, retries included
  Keys,               \* contract keys
  OrdersOf,           \* per request, its orders: records with key and delta
  Wildcards,          \* the keys with an empty field
  Unparsable,         \* the keys whose type is neither VAN_CALL nor VAN_PUT
  Undated,            \* those whose expiry parse_time throws on
  MayHang,            \* whether expiries may pass the grace period
  Capacity,           \* of the core's queue of opened contracts (1024)
  MaxRestarts         \* bound: restarts of the core

ASSUME OrdersAssumption ==
  \A r \in Requests : OrdersOf[r] # <<>> /\ OrdersOf[r] \in Seq([key : Keys, delta : Int])
ASSUME KeysAssumption ==
  Wildcards \subseteq Keys /\ Unparsable \subseteq Keys /\ Undated \subseteq Keys
ASSUME HangAssumption == MayHang \in BOOLEAN
ASSUME CapacityAssumption == Capacity \in Nat \ {0}
ASSUME RestartsAssumption == MaxRestarts \in Nat

VARIABLES
  positions,          \* the hash in Redis: key -> units
  \* per request
  pc, n,              \* where it is, and at which order
  size,               \* what Redis answered for the order: no value or one
  pipe,               \* the commands of the pipeline
  new,                \* new_contracts not yet streamed
  failed,             \* the orders listed in failed_orders
  ok,                 \* no contract of the stream was refused
  reply,              \* positions_changed, and whether "success"
  \* the core
  thread,             \* its compute thread
  opened, tracked, restarts,
  \* history
  began,              \* per request, the positions open when it began
  saw,                \* per request and key, the last answer
  dropped             \* contracts the core was not told of, or has forgotten

request == <<pc, n, size, pipe, new, failed, ok, reply, began, saw>>
core == <<thread, opened, tracked, restarts>>
vars == <<positions, request, core, dropped>>

NoReply == [changed |-> -1, success |-> FALSE]

Init ==
  /\ positions = <<>>
  /\ pc = [r \in Requests |-> "idle"]
  /\ n = [r \in Requests |-> 1]
  /\ size = [r \in Requests |-> {}]
  /\ pipe = [r \in Requests |-> <<>>]
  /\ new = [r \in Requests |-> <<>>]
  /\ failed = [r \in Requests |-> {}]
  /\ ok = [r \in Requests |-> TRUE]
  /\ reply = [r \in Requests |-> NoReply]
  /\ thread = "up"
  /\ opened = <<>>
  /\ tracked = {}
  /\ restarts = 0
  /\ began = [r \in Requests |-> {}]
  /\ saw = [r \in Requests |-> [k \in Keys |-> {}]]
  /\ dropped = {}

\* The event loop waits inside a gRPC call.
Blocked == \E r \in Requests : pc[r] = "stream"

-----------------------------------------------------------------------------
(* update_positions_impl: the loop over the orders.                         *)

Begin(r) ==
  /\ ~Blocked
  /\ pc[r] = "idle"
  /\ pc' = [pc EXCEPT ![r] = "ask"]
  /\ began' = [began EXCEPT ![r] = DOMAIN positions]
  /\ UNCHANGED <<positions, n, size, pipe, new, failed, ok, reply, saw, core, dropped>>

Order(r) == OrdersOf[r][n[r]]

\* get_position_size: Redis answers HGET
Answer(r) ==
  /\ pc[r] = "ask"
  /\ LET k == Order(r).key
         v == IF k \in DOMAIN positions THEN {positions[k]} ELSE {}
     IN /\ size' = [size EXCEPT ![r] = v]
        /\ saw' = [saw EXCEPT ![r][k] = v]
  /\ pc' = [pc EXCEPT ![r] = "decide"]
  /\ UNCHANGED <<positions, n, pipe, new, failed, ok, reply, began, core, dropped>>

\* HGET raises: error 500, and nothing has been sent to Redis yet.
AnswerFails(r) ==
  /\ pc[r] = "ask"
  /\ pc' = [pc EXCEPT ![r] = "error"]
  /\ UNCHANGED <<positions, n, size, pipe, new, failed, ok, reply, began, saw, core, dropped>>

Malformed(r) == Order(r).key \in Wildcards \/ Order(r).delta = 0
IsNew(r) == size[r] = {}

ShortIfNew(r) == IsNew(r) /\ Order(r).delta < 0                    \* mutant
\* More units sold than there are.
Short(r) ==
  \/ IsNew(r) /\ Order(r).delta < 0
  \/ \E v \in size[r] : v + Order(r).delta < 0

AlwaysSet(r) == [set |-> TRUE, key |-> Order(r).key, delta |-> Order(r).delta]
                                                                   \* mutant
\* enqueue_position: HSET for a new position, HINCRBY for another
Command(r) == [set |-> IsNew(r), key |-> Order(r).key, delta |-> Order(r).delta]

NewForgotten(r) == new[r]                                          \* mutant
NewWith(r) == IF IsNew(r) THEN Append(new[r], Order(r).key) ELSE new[r]

\* A malformed order is listed as failed, and then processed all the same.
Decide(r) ==
  /\ ~Blocked
  /\ pc[r] = "decide"
  /\ failed' = [failed EXCEPT ![r] =
                  IF Malformed(r) \/ Short(r) THEN @ \cup {n[r]} ELSE @]
  /\ IF Short(r)
     THEN UNCHANGED <<pipe, new>>
     ELSE /\ pipe' = [pipe EXCEPT ![r] = Append(@, Command(r))]
          /\ new' = [new EXCEPT ![r] = NewWith(r)]
  /\ n' = [n EXCEPT ![r] = @ + 1]
  /\ pc' = [pc EXCEPT ![r] = IF n[r] = Len(OrdersOf[r]) THEN "execute" ELSE "ask"]
  /\ UNCHANGED <<positions, size, ok, reply, began, saw, core, dropped>>

-----------------------------------------------------------------------------
(* execute_pipeline: one transaction.                                       *)

Put(f, k, value) == [x \in DOMAIN f \cup {k} |-> IF x = k THEN value ELSE f[x]]

\* HSET, or HINCRBY, to which a field that is not there counts as 0
Applied(p, c) ==
  Put(p, c.key,
      IF c.set \/ c.key \notin DOMAIN p THEN c.delta ELSE p[c.key] + c.delta)

\* p after the commands of q, one after the other
AppliedAll(p, q) ==
  LET after[j \in 0 .. Len(q)] == IF j = 0 THEN p ELSE Applied(after[j - 1], q[j])
  IN after[Len(q)]

Executed(r) == AppliedAll(positions, pipe[r])

Execute(r) ==
  /\ pc[r] = "execute"
  /\ positions' = Executed(r)
  /\ pc' = [pc EXCEPT ![r] = "executed"]
  /\ UNCHANGED <<n, size, pipe, new, failed, ok, reply, began, saw, core, dropped>>

\* execute() raises, before or after Redis executed it: error 500, no stream.
ExecuteFails(r) ==
  /\ pc[r] = "execute"
  /\ positions' \in {positions, Executed(r)}
  /\ dropped' = dropped \cup ToSet(new[r])
  /\ pc' = [pc EXCEPT ![r] = "error"]
  /\ UNCHANGED <<n, size, pipe, new, failed, ok, reply, began, saw, core>>

-----------------------------------------------------------------------------
(* CoreGrpcService.enqueue_contracts, and the handler in the core.          *)

OpenStream(r) ==
  /\ ~Blocked
  /\ pc[r] = "executed"
  /\ pc' = [pc EXCEPT ![r] = "stream"]
  /\ UNCHANGED <<positions, n, size, pipe, new, failed, ok, reply, began, saw, core, dropped>>

RoomForOneMore == Len(opened) <= Capacity                          \* mutant
WriteAvailable == Len(opened) < Capacity

\* One Read of the handler: parse_grpc_contract, then enqueue_contract.  The
\* threads of the server go on while the compute thread hangs.
ReadContract(r) ==
  /\ thread # "dead"
  /\ pc[r] = "stream"
  /\ new[r] # <<>>
  /\ new' = [new EXCEPT ![r] = Tail(@)]
  /\ IF Head(new[r]) \notin Unparsable /\ WriteAvailable
     THEN /\ opened' = Append(opened, Head(new[r]))
          /\ UNCHANGED <<ok, dropped>>
     ELSE /\ ok' = [ok EXCEPT ![r] = FALSE]
          /\ dropped' = dropped \cup {Head(new[r])}
          /\ UNCHANGED opened
  /\ UNCHANGED <<positions, pc, n, size, pipe, failed, reply, began, saw, thread, tracked,
                 restarts>>

\* No result of HSET or HINCRBY "is True": both are integers.
Changed(r) == 0

Replied(r, res) ==
  /\ reply' = [reply EXCEPT ![r] =
                 [changed |-> Changed(r),
                  success |-> Changed(r) = Len(OrdersOf[r]) /\ res]]
  /\ pc' = [pc EXCEPT ![r] = "replied"]
  /\ UNCHANGED <<positions, n, size, pipe, new, failed, ok, began, saw, core>>

CloseStream(r) ==
  /\ thread # "dead"
  /\ pc[r] = "stream"
  /\ new[r] = <<>>
  /\ Replied(r, ok[r])
  /\ UNCHANGED dropped

\* RpcError: the core is down, or the connection broke
BreakStream(r) ==
  /\ pc[r] = "stream"
  /\ Replied(r, FALSE)
  /\ dropped' = dropped \cup ToSet(new[r])

\* The requests under way.
Active == {r \in Requests : pc[r] \notin {"idle", "replied", "error"}}

\* The API process ends with requests under way; nothing resumes them.
Crash ==
  /\ Active # {}
  /\ pc' = [r \in Requests |-> IF r \in Active THEN "error" ELSE pc[r]]
  /\ dropped' = dropped \cup UNION {ToSet(new[r]) : r \in Active}
  /\ UNCHANGED <<positions, n, size, pipe, new, failed, ok, reply, began, saw, core>>

-----------------------------------------------------------------------------
(* The core, as far as the API depends on it (Orchestrator has the rest).   *)

\* flush_user_changes, one contract
Track ==
  /\ thread = "up"
  /\ opened # <<>>
  /\ Head(opened) \notin Undated
  /\ tracked' = tracked \cup {Head(opened)}
  /\ opened' = Tail(opened)
  /\ UNCHANGED <<positions, request, thread, restarts, dropped>>

\* The core forgets the contracts it was told of.
Forget ==
  /\ opened' = <<>>
  /\ tracked' = {}
  /\ dropped' = dropped \cup ToSet(opened) \cup tracked
  /\ UNCHANGED <<positions, request>>

\* parse_time throws; there is no handler, so the process ends.
Throw ==
  /\ thread = "up"
  /\ opened # <<>>
  /\ Head(opened) \in Undated
  /\ thread' = "dead"
  /\ Forget
  /\ UNCHANGED restarts

\* find_expired_slices empties a queue and goes on (see Orchestrator) ...
Hang ==
  /\ MayHang
  /\ thread = "up"
  /\ thread' = "hung"
  /\ UNCHANGED <<positions, request, opened, tracked, restarts, dropped>>

\* ... for ever, or until what it collects or reads there ends the process.
HangEnds ==
  /\ thread = "hung"
  /\ thread' = "dead"
  /\ Forget
  /\ UNCHANGED restarts

\* A core that restarts knows the contracts it is compiled with, no others.
\* (A restart during a stream is BreakStream, then Restart.)
Restart ==
  /\ ~Blocked
  /\ restarts < MaxRestarts
  /\ restarts' = restarts + 1
  /\ thread' = "up"
  /\ Forget

-----------------------------------------------------------------------------
\* What goes on by itself: Redis answers or the call raises.
Work(r) ==
  \/ Answer(r)
  \/ AnswerFails(r)
  \/ Decide(r)
  \/ Execute(r)
  \/ ExecuteFails(r)
  \/ OpenStream(r)

\* The call has no deadline.
Stream(r) == ReadContract(r) \/ CloseStream(r) \/ BreakStream(r)

Core == Track \/ Throw \/ Hang \/ HangEnds \/ Restart

Next == (\E r \in Requests : Begin(r) \/ Work(r) \/ Stream(r)) \/ Crash \/ Core

(***************************************************************************)
(* A request that has begun is carried on up to its stream.  The compute   *)
(* thread flushes at every tick and whenever its timer runs out, as long   *)
(* as it neither hangs nor dies.  Nothing obliges a client to send a       *)
(* request, a stream to end, or a core that died to be started again.      *)
(***************************************************************************)
Fairness == WF_vars(Track \/ Throw) /\ \A r \in Requests : WF_vars(Work(r))

Spec == Init /\ [][Next]_vars
FairSpec == Spec /\ Fairness

\* ... when the core's server answers every stream, or the connection breaks
PromptSpec == FairSpec /\ \A r \in Requests : WF_vars(Stream(r))

-----------------------------------------------------------------------------
Commands == [set : BOOLEAN, key : Keys, delta : Int]

TypeOK ==
  /\ positions \in [DOMAIN positions -> Int]
  /\ DOMAIN positions \subseteq Keys
  /\ pc \in [Requests -> {"idle", "ask", "decide", "execute", "executed", "stream",
                          "replied", "error"}]
  /\ n \in [Requests -> Nat \ {0}]
  /\ size \in [Requests -> SUBSET Int]
  /\ pipe \in [Requests -> Seq(Commands)]
  /\ new \in [Requests -> Seq(Keys)]
  /\ failed \in [Requests -> SUBSET Nat]
  /\ ok \in [Requests -> BOOLEAN]
  /\ reply \in [Requests -> [changed : {-1, 0}, success : BOOLEAN]]
  /\ began \in [Requests -> SUBSET Keys]
  /\ saw \in [Requests -> [Keys -> SUBSET Int]]
  /\ \A r \in Requests : n[r] <= Len(OrdersOf[r]) + 1 /\ failed[r] \subseteq DOMAIN OrdersOf[r]
  /\ Cardinality({r \in Requests : pc[r] = "stream"}) <= 1
  /\ thread \in {"up", "hung", "dead"}
  /\ opened \in Seq(Keys)
  /\ Len(opened) <= Capacity
  /\ tracked \subseteq Keys
  /\ restarts \in 0 .. MaxRestarts
  /\ dropped \subseteq Keys

\* The units that the commands of q add to the position of k.
Units(q, k) ==
  LET sum[j \in 0 .. Len(q)] ==
        IF j = 0 THEN 0 ELSE sum[j - 1] + (IF q[j].key = k THEN q[j].delta ELSE 0)
  IN sum[Len(q)]

Executes(r) == pc[r] = "execute" /\ pc'[r] = "executed"

(***************************************************************************)
(* A request that began when a position was already open adds its units to *)
(* what is there when its pipeline executes, and overwrites nothing,       *)
(* however many requests changed the position in between.                  *)
(***************************************************************************)
UnitsAreAddedUp ==
  [][\A r \in Requests : Executes(r) =>
       \A k \in began[r] : positions'[k] = positions[k] + Units(pipe[r], k)]_vars

OrdersOn(r, k) == {j \in DOMAIN OrdersOf[r] : OrdersOf[r][j].key = k}

(***************************************************************************)
(* No request sells more units than there are, if it has one order for the *)
(* contract and no other request changed the position between the check    *)
(* and the execution: short positions come only from such a race, or from  *)
(* a request that sells the same contract twice.                           *)
(***************************************************************************)
CheckedSalesAreCovered ==
  [][\A r \in Requests : Executes(r) =>
       \A c \in ToSet(pipe[r]) :
         /\ Cardinality(OrdersOn(r, c.key)) = 1
         /\ saw[r][c.key] =
              (IF c.key \in DOMAIN positions THEN {positions[c.key]} ELSE {})
         => positions'[c.key] >= 0]_vars

\* A contract the core has, or is about to be told of.
OnItsWay(k) ==
  \/ k \in tracked \cup ToSet(opened)
  \/ \E r \in Requests : pc[r] \in {"executed", "stream"} /\ k \in ToSet(new[r])

(***************************************************************************)
(* Every open position's contract is with the core or on its way there,    *)
(* unless the core refused it, restarted, or the request failed after its  *)
(* check: also when several requests opened the position at the same time, *)
(* and when the order was listed as failed.                                *)
(***************************************************************************)
NoPositionForgotten == \A k \in DOMAIN positions : OnItsWay(k) \/ k \in dropped

(***************************************************************************)
(* Every open position's contract is eventually tracked, or was dropped;   *)
(* unless the compute thread of the core hangs for good, or a stream never *)
(* ends: it has no deadline, and all other requests wait for it.           *)
(***************************************************************************)
TrackedOrDropped ==
  \A k \in Keys :
    \/ k \in DOMAIN positions ~> k \in tracked \cup dropped
    \/ <>[](thread = "hung")
    \/ <>[]Blocked

-----------------------------------------------------------------------------
(* What the docs say, and the code does not keep.                           *)

\* An order for a position that was open already has gone through.
SentAgain(k) ==
  \E r \in Requests : pc[r] = "replied" /\ k \in began[r] /\ OrdersOn(r, k) # {}

(***************************************************************************)
(* "It also serves Option Greeks of entire portfolios" (docs/API.md:10):   *)
(* the contract of an open position is eventually tracked, at least once   *)
(* the client has sent an order for it again.                              *)
(***************************************************************************)
PortfolioIsServed == \A k \in Keys : SentAgain(k) ~> k \in tracked
=============================================================================
