------------------------------ MODULE SpscQueue ------------------------------
(***************************************************************************)
(* The two queues between threads of the core: opened_contracts_, filled   *)
(* by enqueue_contract on a gRPC thread and emptied by flush_user_changes, *)
(* and jobs_queue_, filled by enqueue_job and emptied by the publisher.    *)
(* Both are boost::lockfree::spsc_queue: a ring of slots, an index that    *)
(* the producer moves and one that the consumer moves.  Both callers ask   *)
(* write_available first and then ignore the result of push.               *)
(*                                                                         *)
(* The compute thread is the only producer of jobs.  enqueue_contract runs *)
(* on any gRPC thread, for as many streams as there are: the handler of a  *)
(* stream that broke may still be reading when the next stream begins.     *)
(* Items are numbered as they come.                                        *)
(* Definitions marked mutant are not part of the model.                    *)
(***************************************************************************)
EXTENDS Integers, Sequences

CONSTANTS
  Producers,
  Capacity,           \* what the queue was built with
  MaxItems            \* bound: items offered

ASSUME CapacityAssumption == Capacity \in Nat \ {0}
ASSUME ItemsAssumption == MaxItems \in Nat

Size == Capacity + 1                \* one slot stays free
Slots == 0 .. Size - 1
Unwrapped(k) == IF k = Size THEN 0 ELSE k + 1                      \* mutant
Successor(k) == IF k = Size - 1 THEN 0 ELSE k + 1
Items == 1 .. MaxItems

VARIABLES
  ring, write, read,  \* the slots and the two indices
  offered,            \* items offered so far
  pc, item, at,       \* per producer: where it is, its item, the index it loaded
  cpc, out,           \* the consumer: where it is, the item it has copied
  \* history: what the producers were told is queued, what was popped, and
  \* whether two producers were ever in a call at once
  accepted, taken, overlapped

producer == <<offered, pc, item, at>>
consumer == <<cpc, out>>
vars == <<ring, write, read, producer, consumer, accepted, taken, overlapped>>

Init ==
  /\ ring = [k \in Slots |-> 0]
  /\ write = 0
  /\ read = 0
  /\ offered = 0
  /\ pc = [p \in Producers |-> "idle"]
  /\ item = [p \in Producers |-> 0]
  /\ at = [p \in Producers |-> 0]
  /\ cpc = "idle"
  /\ out = 0
  /\ accepted = <<>>
  /\ taken = <<>>
  /\ overlapped = FALSE

-----------------------------------------------------------------------------
Goto(p, from, to) == pc[p] = from /\ pc' = [pc EXCEPT ![p] = to]

Calling == {p \in Producers : pc[p] # "idle"}

AlwaysRoom == TRUE                                                 \* mutant
\* of write_available, and once more of push
NotFull == Successor(write) # read

\* if (write_available()); otherwise the caller refuses the item
Offer(p) ==
  /\ offered < MaxItems
  /\ offered' = offered + 1
  /\ item' = [item EXCEPT ![p] = offered']
  /\ IF NotFull THEN Goto(p, "idle", "push")
                ELSE pc[p] = "idle" /\ UNCHANGED pc
  /\ overlapped' = (overlapped \/ Calling # {})
  /\ UNCHANGED <<ring, write, read, at, consumer, accepted, taken>>

Answer(p) == accepted' = Append(accepted, item[p])

\* push loads the indices
Load(p) ==
  /\ NotFull
  /\ Goto(p, "push", "write")
  /\ at' = [at EXCEPT ![p] = write]
  /\ UNCHANGED <<ring, write, read, offered, item, consumer, accepted, taken, overlapped>>

\* push returns false, and its caller true
PushFails(p) ==
  /\ ~NotFull
  /\ Goto(p, "push", "idle")
  /\ Answer(p)
  /\ UNCHANGED <<ring, write, read, offered, item, at, consumer, taken, overlapped>>

WriteSlot(p) ==
  /\ Goto(p, "write", "store")
  /\ ring' = [ring EXCEPT ![at[p]] = item[p]]
  /\ UNCHANGED <<write, read, offered, item, at, consumer, accepted, taken, overlapped>>

StoreWrite(p) ==
  /\ Goto(p, "store", "idle")
  /\ write' = Successor(at[p])
  /\ Answer(p)
  /\ UNCHANGED <<ring, read, offered, item, at, consumer, taken, overlapped>>

-----------------------------------------------------------------------------
(* while (open.pop(contract)), or if (jobs_queue_.pop(cur_job)).            *)

NotEmpty == read # write

BeginPop ==
  /\ cpc = "idle"
  /\ NotEmpty
  /\ cpc' = "copy"
  /\ UNCHANGED <<ring, write, read, producer, out, accepted, taken, overlapped>>

CopyOut ==
  /\ cpc = "copy"
  /\ out' = ring[read]
  /\ cpc' = "store"
  /\ UNCHANGED <<ring, write, read, producer, accepted, taken, overlapped>>

StoreRead ==
  /\ cpc = "store"
  /\ read' = Successor(read)
  /\ taken' = Append(taken, out)
  /\ cpc' = "idle"
  /\ UNCHANGED <<ring, write, producer, out, accepted, overlapped>>

Produce(p) == Offer(p) \/ Load(p) \/ PushFails(p) \/ WriteSlot(p) \/ StoreWrite(p)
Pop == BeginPop \/ CopyOut \/ StoreRead

Next == (\E p \in Producers : Produce(p)) \/ Pop

Spec == Init /\ [][Next]_vars

-----------------------------------------------------------------------------
TypeOK ==
  /\ ring \in [Slots -> 0 .. MaxItems]
  /\ write \in Slots
  /\ read \in Slots
  /\ offered \in 0 .. MaxItems
  /\ pc \in [Producers -> {"idle", "push", "write", "store"}]
  /\ item \in [Producers -> 0 .. MaxItems]
  /\ at \in [Producers -> Slots]
  /\ cpc \in {"idle", "copy", "store"}
  /\ out \in 0 .. MaxItems
  /\ accepted \in Seq(0 .. MaxItems)
  /\ taken \in Seq(0 .. MaxItems)
  /\ overlapped \in BOOLEAN

(***************************************************************************)
(* As long as the producers take turns, no slot is written while the       *)
(* consumer reads it: an item is a struct with strings, and a race on it   *)
(* is undefined behaviour.                                                 *)
(***************************************************************************)
NoSlotShared ==
  ~overlapped /\ cpc = "copy" =>
    \A p \in Producers : pc[p] = "write" => at[p] # read

(***************************************************************************)
(* As long as the producers take turns, the queue is a Fifo: what was      *)
(* answered with true is popped, once and in order.                        *)
(***************************************************************************)
Queue == INSTANCE Fifo
ImplementsFifo ==
  Queue!Init /\ [][~overlapped' => Queue!Accept \/ Queue!Take]_<<accepted, taken>>
=============================================================================
