-------------------------------- MODULE Reads --------------------------------
(***************************************************************************)
(* The GET routes of the API (greeks, contracts, surface, positions) and   *)
(* cache_reader: a request scans the keys of the rows page by page, reads  *)
(* the rows of each page in one transaction, and for positions scans the   *)
(* hash of positions too; while the publisher writes rows, rows expire and *)
(* POST /positions opens positions.                                        *)
(*                                                                         *)
(* Of a row only the sequence number is kept.  A client sends one request  *)
(* after another; reads do not disturb each other.                         *)
(* Definitions marked mutant are not part of the model.                    *)
(***************************************************************************)
EXTENDS Integers, FiniteSets, Functions, FiniteSetsExt

CONSTANTS
  Keys,               \* contracts
  Patterns,           \* the sets of keys that contracts in requests match
  MaxWrites,          \* bound: rows ever written
  MaxPages            \* bound: pages of a scan

ASSUME KeysAssumption == IsFiniteSet(Keys)
ASSUME PatternsAssumption == Patterns \subseteq SUBSET Keys
ASSUME BoundsAssumption == MaxWrites \in Nat /\ MaxPages \in Nat \ {0}

Routes == {"greeks", "contracts", "surface", "positions"}

VARIABLES
  rows, seqno,        \* key -> sequence number of its row; the last one used
  positions,          \* the keys with a position
  \* the request
  pc, route, match,
  due,                \* keys the scan under way must still return
  pages, ended,       \* pages returned so far; whether the cursor is 0
  page,               \* the keys of the page in hand
  found, count,       \* what the list holds, and its length
  units,              \* the keys of units_dict
  status,             \* of the last reply
  \* history, since the request began: rows that were there all the time;
  \* whether one went away or Redis failed, and whether the rows were ever
  \* others than those of the positions
  stayed, trouble, uneven,
  seen                \* per key, the newest row a reply has shown

redis == <<rows, seqno, positions>>
result == <<found, count, units>>
vars == <<redis, pc, route, match, due, pages, ended, page, result, status,
          stayed, trouble, uneven, seen>>

Init ==
  /\ rows = <<>>
  /\ seqno = 0
  /\ positions = {}
  /\ pc = "idle"
  /\ route = "greeks"
  /\ match = {}
  /\ due = {}
  /\ pages = 0
  /\ ended = FALSE
  /\ page = {}
  /\ found = {}
  /\ count = 0
  /\ units = {}
  /\ status = 0
  /\ stayed = {}
  /\ trouble = FALSE
  /\ uneven = FALSE
  /\ seen = [k \in Keys |-> 0]

-----------------------------------------------------------------------------
(* Redis, under the request.                                                *)

Present == DOMAIN rows

Watch ==
  /\ stayed' = stayed \cap DOMAIN rows'
  /\ trouble' = (trouble \/ ~(Present \cap match \subseteq DOMAIN rows'))
  /\ uneven' = (uneven \/ DOMAIN rows' \cap match # positions' \cap match)
  /\ UNCHANGED <<pc, route, match, pages, ended, page, result, status, seen>>

Write(k) ==
  /\ seqno < MaxWrites
  /\ seqno' = seqno + 1
  /\ rows' = [j \in Present \cup {k} |-> IF j = k THEN seqno' ELSE rows[j]]
  /\ UNCHANGED <<positions, due>> /\ Watch

Expire(k) ==
  /\ rows' = Restrict(rows, Present \ {k})
  /\ due' = IF pc = "hscan" THEN due ELSE due \ {k}
  /\ UNCHANGED <<seqno, positions>> /\ Watch

OpenPosition(k) ==
  /\ positions' = positions \cup {k}
  /\ UNCHANGED <<rows, seqno, due>> /\ Watch

-----------------------------------------------------------------------------
(* A request.                                                               *)

Goto(p, q) == pc = p /\ pc' = q

BeginScan(keys) ==
  /\ due' = keys
  /\ pages' = 0
  /\ ended' = FALSE
  /\ page' = {}

KeepCount(n) == count                                              \* mutant
FreshCount(n) == n

\* greeks wants all fields of a contract, so it matches one key; the others
\* match an empty field with anything
Complete(r, keys) == r = "greeks" => Cardinality(keys) = 1

Begin(r, keys) ==
  /\ Complete(r, keys)
  /\ Goto("idle", "scan")
  /\ route' = r
  /\ match' = keys
  /\ BeginScan(Present \cap keys)
  /\ found' = {}
  /\ count' = FreshCount(0)
  /\ units' = {}
  /\ status' = 0
  /\ stayed' = Present \cap keys
  /\ trouble' = FALSE
  /\ uneven' = (Present \cap keys # positions \cap keys)
  /\ UNCHANGED <<redis, seen>>

\* INVALID_ARGUMENT before Redis is asked: a field is empty, surface's symbol
Refuse(r) ==
  /\ pc = "idle"
  /\ r \in {"greeks", "surface"}
  /\ route' = r
  /\ match' = {}
  /\ status' = 400
  /\ BeginScan({})
  /\ found' = {}
  /\ count' = 0
  /\ units' = {}
  /\ stayed' = {}
  /\ UNCHANGED <<redis, pc, trouble, uneven, seen>>

EndsAtEmptyPage(keys) == due \ keys = {} \/ keys = {}              \* mutant
MayEnd(keys) == due \ keys = {}

(***************************************************************************)
(* One call of SCAN or HSCAN: any of what is there now.  The cursor comes  *)
(* back to 0 only when everything that was there all along has been        *)
(* returned; the rest may be returned too, and anything more than once.    *)
(***************************************************************************)
ReturnPage(there) ==
  /\ ~ended
  /\ pages < MaxPages
  /\ pages' = pages + 1
  /\ page' \in SUBSET there
  /\ due' = due \ page'
  /\ \/ ended' = TRUE /\ MayEnd(page')
     \/ ended' = FALSE /\ pages' < MaxPages
  /\ UNCHANGED <<redis, route, match, status, stayed, trouble, uneven, seen>>

Extend(keys, value) ==
  /\ found' = found \cup {[key |-> k, seqno |-> value[k]] : k \in keys}
  /\ count' = count + Cardinality(keys)

\* find_greeks: scan; if the page has keys, they are read next
ScanRows ==
  /\ route # "contracts"
  /\ pc = "scan"
  /\ ReturnPage(Present \cap match)
  /\ pc' = IF page' = {} THEN "scan" ELSE "fetch"
  /\ UNCHANGED result

\* find_contracts: only the keys
ScanKeys ==
  /\ route = "contracts"
  /\ Goto("scan", "scan")
  /\ ReturnPage(Present \cap match)
  /\ Extend(page', rows)
  /\ UNCHANGED units

Request == UNCHANGED <<redis, route, match, stayed, trouble, uneven>>

Reply(s) ==
  /\ pc' = "idle"
  /\ status' = s
  /\ seen' = [k \in Keys |->
       Max({seen[k]} \cup {f.seqno : f \in {x \in found : x.key = k /\ s = 200}})]
  /\ UNCHANGED <<redis, route, match, due, pages, ended, page, result, stayed, uneven>>

Answer(s) == Reply(s) /\ UNCHANGED trouble

\* a call to Redis raises
RedisFails == pc # "idle" /\ Reply(500) /\ trouble' = TRUE

\* the replies paired with the keys in another order
FetchShuffled ==                                                   \* mutant
  /\ pc = "fetch"
  /\ page \subseteq Present
  /\ pc' = "scan"
  /\ \E p \in Bijection(page, page) : Extend(page, [k \in page |-> rows[p[k]]])
  /\ Request
  /\ UNCHANGED <<due, pages, ended, page, units, status, seen>>

\* find_greeks: HGETALL of every key of the page, in one transaction
Fetch ==
  /\ Goto("fetch", "scan")
  /\ page \subseteq Present
  /\ Extend(page, rows)
  /\ Request
  /\ UNCHANGED <<due, pages, ended, page, units, status, seen>>

\* RedisContract(**{}) raises for a row that is gone
FetchFails == pc = "fetch" /\ ~(page \subseteq Present) /\ Answer(500)

Scanned == pc = "scan" /\ ended

NotFound == Scanned /\ count = 0 /\ Answer(400)
Found == Scanned /\ count > 0 /\ route # "positions" /\ Answer(200)

\* get_position_sizes, after find_greeks
BeginUnits ==
  /\ Scanned
  /\ count > 0
  /\ route = "positions"
  /\ pc' = "hscan"
  /\ BeginScan(positions \cap match)
  /\ Request
  /\ UNCHANGED <<result, status, seen>>

OnlyThisPage(keys) == keys                                         \* mutant
Update(keys) == units \cup keys

ScanUnits ==
  /\ Goto("hscan", "hscan")
  /\ ReturnPage(positions \cap match)
  /\ units' = Update(page')
  /\ UNCHANGED <<found, count>>

FoundKeys == {f.key : f \in found}

EnoughUnits == count <= Cardinality(units)                         \* mutant
CountsAgree == count = Cardinality(units)

\* len(contract_list) != len(units_dict), or a KeyError of format_positions
UnitsMissing ==
  pc = "hscan" /\ ended /\ ~(CountsAgree /\ FoundKeys \subseteq units) /\ Answer(500)
Portfolio ==
  pc = "hscan" /\ ended /\ CountsAgree /\ FoundKeys \subseteq units /\ Answer(200)

-----------------------------------------------------------------------------
Environment == \E k \in Keys : Write(k) \/ Expire(k) \/ OpenPosition(k)
Handle ==
  \/ \E r \in Routes : Refuse(r) \/ (\E keys \in Patterns : Begin(r, keys))
  \/ RedisFails \/ ScanRows \/ ScanKeys \/ Fetch \/ FetchFails
  \/ NotFound \/ Found \/ BeginUnits \/ ScanUnits \/ UnitsMissing \/ Portfolio

Next == Environment \/ Handle

Spec == Init /\ [][Next]_vars

-----------------------------------------------------------------------------
TypeOK ==
  /\ rows \in [Present -> 1 .. MaxWrites] /\ Present \subseteq Keys
  /\ seqno \in 0 .. MaxWrites
  /\ positions \subseteq Keys
  /\ pc \in {"idle", "scan", "fetch", "hscan"}
  /\ route \in Routes
  /\ match \in Patterns \cup {{}}
  /\ due \subseteq match /\ page \subseteq match /\ units \subseteq match
  /\ stayed \subseteq match
  /\ pages \in 0 .. MaxPages
  /\ ended \in BOOLEAN /\ trouble \in BOOLEAN /\ uneven \in BOOLEAN
  /\ found \subseteq [key : match, seqno : 1 .. MaxWrites]
  /\ count \in 0 .. MaxPages * Cardinality(match)
  /\ status \in {0, 200, 400, 500}
  /\ seen \in [Keys -> 0 .. MaxWrites]

Replied(s) == pc = "idle" /\ status = s

(***************************************************************************)
(* A row that is in Redis from the beginning of a request to its end is in *)
(* the reply, on whatever page it came and whatever came and went around   *)
(* it; "no contract with specified terms found" means that there was no    *)
(* such row.                                                               *)
(***************************************************************************)
NothingMissed ==
  /\ Replied(200) => stayed \subseteq FoundKeys
  /\ Replied(400) => stayed = {}

\* SCAN has returned a key again.
Repeated == count > Cardinality(FoundKeys)

(***************************************************************************)
(* GET /positions answers with the whole portfolio or not at all: comparing *)
(* the number of rows with the number of positions, which are read at      *)
(* different times, excludes that a position is missing from the reply,    *)
(* as long as SCAN returns no key twice.                                   *)
(***************************************************************************)
PortfolioIsWhole ==
  Replied(200) /\ route = "positions" /\ ~Repeated => FoundKeys = units

(***************************************************************************)
(* A request fails only because a row expired under it or Redis failed; or,*)
(* for positions, because at some moment the rows were not those of the    *)
(* positions, or SCAN returned a key twice.                                *)
(***************************************************************************)
FailsOnlyForCause ==
  Replied(500) => trouble \/ (route = "positions" /\ (uneven \/ Repeated))

(***************************************************************************)
(* The row of a contract in a reply is never older than the row of it that *)
(* an earlier reply showed.                                                *)
(***************************************************************************)
MonotonicReads ==
  [][pc # "idle" /\ Replied(200)' /\ route # "contracts" =>
       \A f \in found : f.seqno >= seen[f.key]]_vars
=============================================================================
