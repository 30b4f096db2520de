----------------------------- MODULE ReadsProofs -----------------------------
(***************************************************************************)
(* Theorems of Reads, for any contracts, patterns and bounds.              *)
(***************************************************************************)
EXTENDS Reads, FiniteSetTheorems, TLAPS

Busy == pc # "idle"

\* A page adds at most as many entries as there are keys to match.
CountInv ==
  /\ count \in Nat
  /\ Cardinality(FoundKeys) <= count
  /\ pc = "scan" => count <= pages * Cardinality(match)
  /\ pc = "fetch" => count + Cardinality(match) <= pages * Cardinality(match)
  /\ count <= MaxPages * Cardinality(match)

\* What stayed is in the list, in the page in hand or still to come.
CoverInv ==
  /\ stayed \subseteq Present
  /\ Busy /\ ended => due = {}
  /\ pc = "scan" => stayed \subseteq FoundKeys \cup due
  /\ pc = "fetch" => stayed \subseteq FoundKeys \cup due \cup page
  /\ pc = "hscan" => stayed \subseteq FoundKeys
  /\ NothingMissed

\* As long as rows and positions agree neither has changed for the request.
EvenInv ==
  /\ Busy /\ ~uneven =>
       /\ stayed = Present \cap match
       /\ stayed = positions \cap match
       /\ FoundKeys \subseteq stayed
       /\ pc = "fetch" => page \subseteq stayed
       /\ pc = "hscan" => units \subseteq stayed /\ stayed \subseteq units \cup due
  /\ pc = "fetch" /\ ~trouble => page \subseteq Present
  /\ pc = "hscan" => route = "positions"
  /\ FailsOnlyForCause

WholeInv ==
  Replied(200) /\ route = "positions" =>
    FoundKeys \subseteq units /\ count = Cardinality(units)

\* Sequence numbers only grow, and replies show what rows have held.
SeenInv ==
  /\ \A k \in Present : rows[k] <= seqno /\ seen[k] <= rows[k]
  /\ \A k \in Keys : seen[k] <= seqno
  /\ Busy => \A f \in found :
       /\ seen[f.key] <= f.seqno
       /\ f.seqno <= seqno
       /\ f.key \in Present => f.seqno <= rows[f.key]

NoUnitsYet == pc \in {"scan", "fetch"} => units = {}

Inv == TypeOK /\ CountInv /\ CoverInv /\ EvenInv /\ WholeInv /\ SeenInv /\ NoUnitsYet

-----------------------------------------------------------------------------
\* A finite set of integers has a greatest element: take a smallest subset
\* without one, and put back what was removed from it.
LEMMA MaxExists ==
  ASSUME NEW S \in SUBSET Int, IsFiniteSet(S), S # {}
  PROVE  Max(S) \in S
<1> DEFINE HasMax(T) == \E x \in T : \A y \in T : x >= y
           Bad == {T \in FiniteSubsetsOf(S) : T # {} /\ ~HasMax(T)}
<1>1. Bad = {}
  <2> SUFFICES ASSUME Bad # {} PROVE FALSE
    OBVIOUS
  <2>1. IsWellFoundedOn(StrictSubsetOrdering(S), FiniteSubsetsOf(S))
    BY FS_StrictSubsetOrderingWellFounded
  <2>2. PICK T \in Bad : \A U \in Bad : ~(<<U, T>> \in StrictSubsetOrdering(S))
    <3> Bad \subseteq FiniteSubsetsOf(S)
      OBVIOUS
    <3> HIDE DEF Bad
    <3> QED  BY <2>1, WFMin
  <2>3. T \subseteq S /\ IsFiniteSet(T) /\ T # {} /\ ~HasMax(T)
    BY DEF FiniteSubsetsOf
  <2>4. PICK x : x \in T
    BY <2>3
  <2> DEFINE U == T \ {x}
  <2>5. IsFiniteSet(U) /\ U \subseteq S
    BY <2>3, FS_RemoveElement
  <2>6. <<U, T>> \in StrictSubsetOrdering(S)
    BY <2>3, <2>4 DEF StrictSubsetOrdering
  <2>7. U = {} \/ HasMax(U)
    BY <2>2, <2>5, <2>6 DEF FiniteSubsetsOf
  <2>8. HasMax(T)
    <3>1. CASE U = {}
      <4>1. \A y \in T : y = x
        BY <3>1
      <4> QED  BY <4>1, <2>3, <2>4
    <3>2. CASE HasMax(U)
      <4>1. PICK m \in U : \A y \in U : m >= y
        BY <3>2
      <4>2. \A y \in T : y = x \/ m >= y
        BY <4>1
      <4>3. m \in Int /\ x \in Int /\ T \subseteq Int
        BY <4>1, <2>3, <2>4
      <4>4. CASE m >= x
        BY <4>1, <4>2, <4>3, <4>4
      <4>5. CASE x >= m
        BY <4>2, <4>3, <4>5, <2>4
      <4> QED  BY <4>3, <4>4, <4>5
    <3> QED  BY <2>7, <3>1, <3>2
  <2> QED  BY <2>3, <2>8
<1>2. S \in FiniteSubsetsOf(S)
  BY DEF FiniteSubsetsOf
<1>3. HasMax(S)
  BY <1>1, <1>2
<1> QED  BY <1>3 DEF Max

\* What a request asks for is finite, and so is all it collects.
LEMMA MatchFinite ==
  ASSUME TypeOK
  PROVE  /\ match \subseteq Keys
         /\ IsFiniteSet(match)
         /\ Cardinality(match) \in Nat
         /\ FoundKeys \subseteq match
         /\ IsFiniteSet(FoundKeys)
         /\ Cardinality(FoundKeys) \in Nat
<1>1. match \subseteq Keys
  BY PatternsAssumption DEF TypeOK
<1>2. IsFiniteSet(match)
  BY <1>1, KeysAssumption, FS_Subset
<1>3. FoundKeys \subseteq match
  BY DEF TypeOK, FoundKeys
<1>4. IsFiniteSet(FoundKeys)
  BY <1>2, <1>3, FS_Subset
<1> QED  BY <1>1, <1>2, <1>3, <1>4, FS_CardinalityType

\* A list extended by a page, and its length.
LEMMA Extended ==
  ASSUME TypeOK, CountInv, NEW keys, keys \subseteq Present \cap match,
         Extend(keys, rows)
  PROVE  /\ FoundKeys' = FoundKeys \cup keys
         /\ found' \subseteq [key : match, seqno : 1 .. MaxWrites]
         /\ \A f \in found' : f \in found \/ (f.key \in Present /\ f.seqno = rows[f.key])
         /\ Cardinality(keys) \in Nat
         /\ Cardinality(keys) <= Cardinality(match)
         /\ count' = count + Cardinality(keys)
         /\ Cardinality(FoundKeys') <= count'
<1>1. FoundKeys' = FoundKeys \cup keys
  <2>1. \A k \in FoundKeys' : k \in FoundKeys \cup keys
    BY DEF FoundKeys, Extend
  <2>2. \A k \in FoundKeys : k \in FoundKeys'
    BY DEF FoundKeys, Extend
  <2>3. \A k \in keys : [key |-> k, seqno |-> rows[k]] \in found'
    BY DEF Extend
  <2>4. \A k \in keys : k \in FoundKeys'
    <3> SUFFICES ASSUME NEW k \in keys PROVE k \in FoundKeys'
      OBVIOUS
    <3> DEFINE f == [key |-> k, seqno |-> rows[k]]
    <3>1. f \in found' /\ f.key = k
      BY <2>3
    <3> HIDE DEF f
    <3> QED  BY <3>1 DEF FoundKeys
  <2> QED  BY <2>1, <2>2, <2>4
<1>2. found' \subseteq [key : match, seqno : 1 .. MaxWrites]
  BY DEF Extend, TypeOK
<1>3. \A f \in found' : f \in found \/ (f.key \in Present /\ f.seqno = rows[f.key])
  BY DEF Extend
<1>4. IsFiniteSet(keys) /\ Cardinality(keys) <= Cardinality(match)
  BY MatchFinite, FS_Subset
<1>5. Cardinality(keys) \in Nat
  BY <1>4, FS_CardinalityType
<1>6. count' = count + Cardinality(keys)
  BY DEF Extend
<1>7. Cardinality(FoundKeys \cup keys) <= Cardinality(FoundKeys) + Cardinality(keys)
  <2>1. IsFiniteSet(FoundKeys \cap keys)
    BY <1>4, FS_Subset
  <2>2. Cardinality(FoundKeys \cap keys) \in Nat
    BY <2>1, FS_CardinalityType
  <2>3. Cardinality(FoundKeys \cup keys)
        = Cardinality(FoundKeys) + Cardinality(keys) - Cardinality(FoundKeys \cap keys)
    BY <1>4, MatchFinite, FS_Union
  <2> QED  BY <1>5, <2>2, <2>3, MatchFinite
<1>8. Cardinality(FoundKeys') <= count'
  <2>1. Cardinality(FoundKeys) \in Nat /\ Cardinality(FoundKeys) <= count /\ count \in Nat
    BY MatchFinite DEF CountInv
  <2>2. Cardinality(FoundKeys \cup keys) \in Nat
    BY <1>4, MatchFinite, FS_Union, FS_CardinalityType
  <2> QED  BY <1>1, <1>5, <1>6, <1>7, <2>1, <2>2
<1> QED  BY <1>1, <1>2, <1>3, <1>4, <1>5, <1>6, <1>8

\* After a reply the newest row shown of a contract is the one of before, or
\* one that the list holds.
LEMMA Shown ==
  ASSUME TypeOK, NEW s, Reply(s)
  PROVE  /\ seen' \in [Keys -> 0 .. MaxWrites]
         /\ \A k \in Keys : \/ seen'[k] = seen[k]
                            \/ \E f \in found : f.key = k /\ seen'[k] = f.seqno
<1> DEFINE S(k) == {seen[k]} \cup {f.seqno : f \in {x \in found : x.key = k /\ s = 200}}
<1>1. seen' = [k \in Keys |-> Max(S(k))]
  BY DEF Reply
<1>2. ASSUME NEW k \in Keys
      PROVE  S(k) \subseteq 0 .. MaxWrites /\ Max(S(k)) \in S(k)
  <2>1. S(k) \subseteq 0 .. MaxWrites
    BY BoundsAssumption DEF TypeOK
  <2>2. IsFiniteSet(0 .. MaxWrites)
    BY BoundsAssumption, FS_Interval
  <2>3. S(k) # {}
    OBVIOUS
  <2>4. IsFiniteSet(S(k)) /\ S(k) \in SUBSET Int
    <3> HIDE DEF S
    <3>1. S(k) \in SUBSET (0 .. MaxWrites) /\ S(k) \in SUBSET Int
      BY <2>1
    <3> QED  BY <3>1, <2>2, FS_Subset
  <2> HIDE DEF S
  <2> QED  BY <2>1, <2>3, <2>4, MaxExists
<1>3. seen' \in [Keys -> 0 .. MaxWrites]
  <2> HIDE DEF S
  <2> QED  BY <1>1, <1>2
<1>4. ASSUME NEW k \in Keys
      PROVE  seen'[k] = seen[k] \/ \E f \in found : f.key = k /\ seen'[k] = f.seqno
  <2>1. seen'[k] \in S(k)
    <3> HIDE DEF S
    <3> QED  BY <1>1, <1>2
  <2> QED  BY <2>1
<1> QED  BY <1>3, <1>4

\* One call of SCAN or HSCAN.
LEMMA Returned ==
  ASSUME TypeOK, NEW there, there \subseteq match, ReturnPage(there)
  PROVE  /\ page' \subseteq there
         /\ pages \in Nat /\ pages' = pages + 1 /\ pages' <= MaxPages
         /\ due' = due \ page'
         /\ ~ended /\ ended' \in BOOLEAN
         /\ ended' => due' = {}
<1>1. page' \subseteq there /\ due' = due \ page'
  BY DEF ReturnPage
<1>2. pages \in Nat /\ pages' = pages + 1 /\ pages' <= MaxPages
  <2>1. pages \in Nat /\ pages < MaxPages /\ MaxPages \in Nat
    BY BoundsAssumption DEF ReturnPage, TypeOK
  <2>2. pages' = pages + 1
    BY DEF ReturnPage
  <2> QED  BY <2>1, <2>2
<1>3. ~ended /\ ended' \in BOOLEAN
  BY Zenon DEF ReturnPage
<1>4. ended' => due' = {}
  BY Zenon DEF ReturnPage, MayEnd
<1> QED  BY <1>1, <1>2, <1>3, <1>4

\* The bound on the length of the list, one page on.
LEMMA OnePageMore ==
  ASSUME NEW c \in Nat, NEW n \in Nat, NEW m \in Nat, n + 1 <= m
  PROVE  /\ (n + 1) * c = n * c + c
         /\ (n + 1) * c <= m * c
         /\ n * c \in Nat /\ m * c \in Nat
<1>1. (n + 1) * c = n * c + c
  OBVIOUS
<1>2. PICK d \in Nat : m = (n + 1) + d
  <2>1. m - (n + 1) \in Nat /\ m = (n + 1) + (m - (n + 1))
    OBVIOUS
  <2> QED  BY <2>1
<1>3. m * c = (n + 1) * c + d * c
  BY <1>2
<1>4. d * c \in Nat /\ n * c \in Nat /\ m * c \in Nat
  OBVIOUS
<1> QED  BY <1>1, <1>3, <1>4

LEMMA AtMostAllPages ==
  ASSUME NEW c \in Nat, NEW n \in Nat, NEW m \in Nat, n <= m
  PROVE  n * c <= m * c /\ n * c \in Nat /\ m * c \in Nat
<1>1. CASE n = m
  BY <1>1
<1>2. CASE n + 1 <= m
  <2>1. (n + 1) * c = n * c + c /\ (n + 1) * c <= m * c /\ n * c \in Nat /\ m * c \in Nat
    BY <1>2, OnePageMore
  <2> DEFINE A == n * c
             B == m * c
  <2> HIDE DEF A, B
  <2>2. A + c <= B /\ A \in Nat /\ B \in Nat
    BY <2>1 DEF A, B
  <2>3. A <= B
    BY <2>2
  <2> QED  BY <2>2, <2>3 DEF A, B
<1> QED  BY <1>1, <1>2

-----------------------------------------------------------------------------
LEMMA InitInv == Init => Inv
<1> SUFFICES ASSUME Init PROVE Inv
  OBVIOUS
<1>1. FoundKeys = {} /\ Present = {}
  BY DEF Init, FoundKeys, Present
<1>2. Cardinality({}) = 0 /\ Cardinality(match) = 0
  BY FS_EmptySet DEF Init
<1>3. TypeOK
  <2>1. rows \in [Present -> 1 .. MaxWrites]
    BY <1>1 DEF Init
  <2>2. count \in 0 .. MaxPages * Cardinality(match)
    BY <1>2, BoundsAssumption DEF Init
  <2>3. seen \in [Keys -> 0 .. MaxWrites]
    BY BoundsAssumption DEF Init
  <2>4. pages \in 0 .. MaxPages /\ seqno \in 0 .. MaxWrites /\ status \in {0, 200, 400, 500}
    BY BoundsAssumption DEF Init
  <2>5. ended \in BOOLEAN /\ trouble \in BOOLEAN /\ uneven \in BOOLEAN
    BY DEF Init
  <2>6. found \subseteq [key : match, seqno : 1 .. MaxWrites]
    BY DEF Init
  <2> QED  BY <1>1, <2>1, <2>2, <2>3, <2>4, <2>5, <2>6 DEF Init, TypeOK, Routes
<1>4. CountInv
  BY <1>1, <1>2, BoundsAssumption DEF Init, CountInv
<1>5. CoverInv /\ EvenInv /\ WholeInv /\ NoUnitsYet
  BY <1>1 DEF Init, NoUnitsYet, CoverInv, EvenInv, WholeInv, Busy, Replied, NothingMissed, FailsOnlyForCause
<1>6. SeenInv
  BY <1>1 DEF Init, SeenInv, Busy
<1> QED  BY <1>3, <1>4, <1>5, <1>6 DEF Inv

\* What the request holds, under which Redis changes.
LEMMA WatchFacts ==
  ASSUME Watch
  PROVE  /\ stayed' = stayed \cap DOMAIN rows'
         /\ UNCHANGED <<pc, route, match, pages, ended, page, found, count, units, status, seen>>
         /\ FoundKeys' = FoundKeys
         /\ trouble' \in BOOLEAN /\ uneven' \in BOOLEAN
         /\ ~trouble' => ~trouble /\ Present \cap match \subseteq DOMAIN rows'
         /\ ~uneven' => ~uneven /\ DOMAIN rows' \cap match = positions' \cap match
<1>1. UNCHANGED <<pc, route, match, pages, ended, page, found, count, units, status, seen>>
  BY DEF Watch, result
<1>2. FoundKeys' = FoundKeys
  BY <1>1 DEF FoundKeys
<1> QED  BY <1>1, <1>2, Zenon DEF Watch

\* What a change of Redis must do to keep the invariant.
LEMMA EnvironmentStep ==
  ASSUME Inv, Watch,
         rows' \in [Present' -> 1 .. MaxWrites], Present' \subseteq Keys,
         seqno' \in 0 .. MaxWrites, seqno <= seqno', positions' \subseteq Keys,
         \A k \in Present' : \/ k \in Present /\ rows'[k] = rows[k]
                             \/ rows'[k] = seqno' /\ seqno < seqno',
         due' \subseteq due, stayed' \cap due \subseteq due',
         pc = "hscan" => due' = due,
         Present' \cap match = Present \cap match \/ positions' = positions,
         positions' \cap match # positions \cap match => Present' = Present
  PROVE  Inv'
<1> USE WatchFacts
<1>1. TypeOK'
  BY DEF Inv, TypeOK
<1>2. CountInv'
  BY DEF Inv, CountInv
<1>3. CoverInv'
  BY DEF Inv, CoverInv, NothingMissed, Replied, Busy, Present
<1>4. EvenInv'
  <2>1. pc = "fetch" /\ ~trouble' => page \subseteq Present'
    BY DEF Inv, EvenInv, TypeOK, Present
  <2>2. FailsOnlyForCause'
    BY DEF Inv, EvenInv, FailsOnlyForCause, Replied, Repeated
  <2>3. ASSUME Busy, ~uneven'
        PROVE  /\ stayed' = Present' \cap match
               /\ stayed' = positions' \cap match
               /\ stayed' = stayed
    BY <2>3 DEF Inv, EvenInv, Present
  <2> QED  BY <2>1, <2>2, <2>3 DEF Inv, EvenInv, Busy
<1>5. WholeInv'
  BY DEF Inv, WholeInv, Replied
<1>6. SeenInv'
  BY BoundsAssumption DEF Inv, SeenInv, TypeOK, Busy, Present
<1>7. NoUnitsYet'
  BY DEF Inv, NoUnitsYet
<1> QED  BY <1>1, <1>2, <1>3, <1>4, <1>5, <1>6, <1>7 DEF Inv

LEMMA WriteStep == ASSUME Inv, NEW k \in Keys, Write(k) PROVE Inv'
<1>1. Present' = Present \cup {k} /\ seqno' = seqno + 1 /\ seqno < MaxWrites
  BY DEF Write, Present
<1>2. \A j \in Present' : rows'[j] = IF j = k THEN seqno' ELSE rows[j]
  BY <1>1 DEF Write
<1>3. rows' \in [Present' -> 1 .. MaxWrites] /\ seqno' \in 0 .. MaxWrites
  BY <1>1, BoundsAssumption DEF Write, Inv, TypeOK
<1>4. seqno < seqno' /\ positions' = positions /\ due' = due /\ Watch
  BY <1>1 DEF Write, Inv, TypeOK
<1> QED  BY <1>1, <1>2, <1>3, <1>4, EnvironmentStep DEF Inv, TypeOK

LEMMA ExpireStep == ASSUME Inv, NEW k \in Keys, Expire(k) PROVE Inv'
<1>1. Present' = Present \ {k} /\ rows' = [j \in Present \ {k} |-> rows[j]]
  BY DEF Expire, Restrict, Present
<1>2. seqno' = seqno /\ positions' = positions /\ Watch
  BY DEF Expire
<1>3. due' \subseteq due /\ (pc = "hscan" => due' = due) /\ due \ {k} \subseteq due'
  BY DEF Expire
<1>4. stayed' \cap due \subseteq due'
  BY <1>1, <1>2, <1>3, WatchFacts DEF Present
<1> QED  BY <1>1, <1>2, <1>3, <1>4, EnvironmentStep DEF Inv, TypeOK

LEMMA OpenPositionStep == ASSUME Inv, NEW k \in Keys, OpenPosition(k) PROVE Inv'
<1>1. Present' = Present /\ rows' = rows /\ seqno' = seqno /\ due' = due /\ Watch
  BY DEF OpenPosition, Present
<1>2. positions' \subseteq Keys
  BY DEF OpenPosition, Inv, TypeOK
<1> QED  BY <1>1, <1>2, EnvironmentStep DEF Inv, TypeOK

-----------------------------------------------------------------------------
LEMMA BeginStep ==
  ASSUME Inv, NEW r \in Routes, NEW keys \in Patterns, Begin(r, keys)
  PROVE  Inv'
<1>1. /\ pc = "idle" /\ pc' = "scan" /\ route' = r /\ match' = keys
      /\ due' = Present \cap keys /\ stayed' = Present \cap keys
      /\ pages' = 0 /\ ended' = FALSE /\ page' = {}
      /\ found' = {} /\ units' = {} /\ status' = 0 /\ trouble' = FALSE
      /\ count' = 0
      /\ rows' = rows /\ seqno' = seqno /\ positions' = positions /\ seen' = seen
  BY DEF Begin, Goto, BeginScan, FreshCount, redis
<1>2. FoundKeys' = {} /\ Present' = Present
  BY <1>1 DEF FoundKeys, Present
<1>3. IsFiniteSet(keys) /\ Cardinality(keys) \in Nat
  BY PatternsAssumption, KeysAssumption, FS_Subset, FS_CardinalityType
<1>4. 0 * Cardinality(keys) = 0 /\ MaxPages * Cardinality(keys) \in Nat
  BY <1>3, BoundsAssumption
<1>5. uneven' \in BOOLEAN /\ (~uneven' => Present \cap keys = positions \cap keys)
  BY Zenon DEF Begin
<1>6. TypeOK'
  <2>1. count' \in 0 .. MaxPages * Cardinality(match')
    BY <1>1, <1>4
  <2>2. pages' \in 0 .. MaxPages
    BY <1>1, BoundsAssumption
  <2>4. ended' \in BOOLEAN /\ trouble' \in BOOLEAN
    BY <1>1
  <2>3. /\ rows' \in [Present' -> 1 .. MaxWrites] /\ Present' \subseteq Keys
        /\ seqno' \in 0 .. MaxWrites /\ positions' \subseteq Keys
        /\ seen' \in [Keys -> 0 .. MaxWrites]
    BY <1>1, <1>2 DEF Inv, TypeOK
  <2> QED  BY <1>1, <1>5, <2>1, <2>2, <2>3, <2>4 DEF TypeOK
<1>7. CountInv'
  BY <1>1, <1>2, <1>4, FS_EmptySet DEF CountInv
<1>8. CoverInv' /\ EvenInv' /\ WholeInv'
  BY <1>1, <1>2, <1>5
     DEF CoverInv, EvenInv, WholeInv, Busy, Replied, NothingMissed, FailsOnlyForCause
<1>9. SeenInv'
  BY <1>1, <1>2 DEF Inv, SeenInv, Busy
<1>10. NoUnitsYet'
  BY <1>1 DEF Inv, NoUnitsYet
<1> QED  BY <1>6, <1>7, <1>8, <1>9, <1>10 DEF Inv

LEMMA RefuseStep == ASSUME Inv, NEW r, Refuse(r) PROVE Inv'
<1>1. /\ pc = "idle" /\ pc' = "idle" /\ route' \in {"greeks", "surface"} /\ match' = {}
      /\ due' = {} /\ stayed' = {} /\ pages' = 0 /\ ended' = FALSE /\ page' = {}
      /\ found' = {} /\ units' = {} /\ status' = 400 /\ count' = 0
      /\ rows' = rows /\ seqno' = seqno /\ positions' = positions
      /\ seen' = seen /\ trouble' = trouble /\ uneven' = uneven
  BY DEF Refuse, BeginScan, redis
<1>2. FoundKeys' = {} /\ Present' = Present
  BY <1>1 DEF FoundKeys, Present
<1>3. MaxPages * Cardinality({}) = 0 /\ Cardinality({}) = 0
  BY FS_EmptySet, BoundsAssumption
<1>4. TypeOK'
  <2>1. count' \in 0 .. MaxPages * Cardinality(match')
    BY <1>1, <1>3
  <2>2. pages' \in 0 .. MaxPages
    BY <1>1, BoundsAssumption
  <2>4. ended' \in BOOLEAN
    BY <1>1
  <2>3. /\ rows' \in [Present' -> 1 .. MaxWrites] /\ Present' \subseteq Keys
        /\ seqno' \in 0 .. MaxWrites /\ positions' \subseteq Keys
        /\ seen' \in [Keys -> 0 .. MaxWrites]
        /\ trouble' \in BOOLEAN /\ uneven' \in BOOLEAN
    BY <1>1, <1>2 DEF Inv, TypeOK
  <2> QED  BY <1>1, <2>1, <2>2, <2>3, <2>4 DEF TypeOK, Routes
<1>5. CountInv'
  BY <1>1, <1>2, <1>3 DEF CountInv
<1>6. CoverInv' /\ EvenInv' /\ WholeInv'
  BY <1>1, <1>2
     DEF CoverInv, EvenInv, WholeInv, Busy, Replied, NothingMissed, FailsOnlyForCause
<1>7. SeenInv'
  BY <1>1, <1>2 DEF Inv, SeenInv, Busy
<1>8. NoUnitsYet'
  BY <1>1 DEF Inv, NoUnitsYet
<1> QED  BY <1>4, <1>5, <1>6, <1>7, <1>8 DEF Inv

\* A page of rows, none of which is read yet.
LEMMA ScanRowsStep == ASSUME Inv, ScanRows PROVE Inv'
<1>1. /\ pc = "scan" /\ pc' = IF page' = {} THEN "scan" ELSE "fetch"
      /\ found' = found /\ count' = count /\ units' = units
      /\ rows' = rows /\ seqno' = seqno /\ positions' = positions
      /\ UNCHANGED <<route, match, status, stayed, trouble, uneven, seen>>
  BY DEF ScanRows, ReturnPage, result, redis
<1>2. FoundKeys' = FoundKeys /\ Present' = Present
  BY <1>1 DEF FoundKeys, Present
<1>3. /\ page' \subseteq Present \cap match
      /\ pages \in Nat /\ pages' = pages + 1 /\ pages' <= MaxPages
      /\ due' = due \ page'
      /\ ended' \in BOOLEAN /\ (ended' => due' = {})
  BY Returned DEF Inv, ScanRows
<1>4. TypeOK'
  BY <1>1, <1>2, <1>3, BoundsAssumption DEF Inv, TypeOK
<1>5. CountInv'
  <2>1. count <= pages * Cardinality(match)
    BY <1>1 DEF Inv, CountInv
  <2>2. /\ pages' * Cardinality(match) = pages * Cardinality(match) + Cardinality(match)
        /\ pages' * Cardinality(match) <= MaxPages * Cardinality(match)
        /\ pages * Cardinality(match) \in Nat
    BY <1>3, OnePageMore, MatchFinite, BoundsAssumption DEF Inv
  <2>3. Cardinality(match) \in Nat
    BY MatchFinite DEF Inv
  <2> DEFINE A == pages * Cardinality(match)
             B == pages' * Cardinality(match)
  <2>4. count + Cardinality(match) <= B /\ count <= B
    <3> HIDE DEF A, B
    <3>1. A \in Nat /\ B = A + Cardinality(match) /\ count <= A /\ count \in Nat
      BY <2>1, <2>2 DEF A, B, Inv, CountInv
    <3> QED  BY <3>1, <2>3
  <2> QED  BY <1>1, <1>2, <2>4 DEF Inv, CountInv
<1>6. CoverInv'
  BY <1>1, <1>2, <1>3 DEF Inv, CoverInv, Busy, NothingMissed, Replied
<1>7. EvenInv'
  BY <1>1, <1>2, <1>3 DEF Inv, EvenInv, Busy, FailsOnlyForCause, Replied
<1>8. WholeInv' /\ SeenInv'
  BY <1>1, <1>2 DEF Inv, WholeInv, SeenInv, Busy, Replied
<1>9. NoUnitsYet'
  BY <1>1 DEF Inv, NoUnitsYet
<1> QED  BY <1>4, <1>5, <1>6, <1>7, <1>8, <1>9 DEF Inv

\* A page of keys, which are listed at once.
LEMMA ScanKeysStep == ASSUME Inv, ScanKeys PROVE Inv'
<1>1. /\ pc = "scan" /\ pc' = "scan" /\ units' = units
      /\ rows' = rows /\ seqno' = seqno /\ positions' = positions
      /\ UNCHANGED <<route, match, status, stayed, trouble, uneven, seen>>
      /\ ReturnPage(Present \cap match) /\ Extend(page', rows)
  BY DEF ScanKeys, ReturnPage, Goto, redis
<1>2. Present' = Present
  BY <1>1 DEF Present
<1>3. /\ page' \subseteq Present \cap match
      /\ pages \in Nat /\ pages' = pages + 1 /\ pages' <= MaxPages
      /\ due' = due \ page'
      /\ ended' \in BOOLEAN /\ (ended' => due' = {})
  BY <1>1, Returned DEF Inv
<1>4. /\ FoundKeys' = FoundKeys \cup page'
      /\ found' \subseteq [key : match, seqno : 1 .. MaxWrites]
      /\ \A f \in found' : f \in found \/ (f.key \in Present /\ f.seqno = rows[f.key])
      /\ Cardinality(page') \in Nat
      /\ Cardinality(page') <= Cardinality(match)
      /\ count' = count + Cardinality(page')
      /\ Cardinality(FoundKeys') <= count'
  BY <1>1, <1>3, Extended DEF Inv
<1>5. CountInv' /\ count' \in 0 .. MaxPages * Cardinality(match)
  <2>1. count <= pages * Cardinality(match) /\ count \in Nat
    BY <1>1 DEF Inv, CountInv
  <2>2. /\ pages' * Cardinality(match) = pages * Cardinality(match) + Cardinality(match)
        /\ pages' * Cardinality(match) <= MaxPages * Cardinality(match)
        /\ pages * Cardinality(match) \in Nat /\ MaxPages * Cardinality(match) \in Nat
    BY <1>3, OnePageMore, MatchFinite, BoundsAssumption DEF Inv
  <2>3. Cardinality(match) \in Nat
    BY MatchFinite DEF Inv
  <2> DEFINE A == pages * Cardinality(match)
             B == pages' * Cardinality(match)
             C == MaxPages * Cardinality(match)
  <2>4. count' <= B /\ count' \in 0 .. C
    <3> HIDE DEF A, B, C
    <3>1. A \in Nat /\ B = A + Cardinality(match) /\ B <= C /\ C \in Nat /\ count <= A
      BY <2>1, <2>2 DEF A, B, C
    <3> QED  BY <1>4, <2>1, <2>3, <3>1
  <2>5. count' \in Nat /\ count' <= C
    <3> HIDE DEF C
    <3>1. C \in Nat
      BY <2>2 DEF C
    <3> QED  BY <2>4, <3>1
  <2> QED  BY <1>1, <1>4, <2>4, <2>5 DEF CountInv
<1>6. TypeOK'
  BY <1>1, <1>2, <1>3, <1>4, <1>5, BoundsAssumption DEF Inv, TypeOK
<1>7. CoverInv'
  BY <1>1, <1>2, <1>3, <1>4 DEF Inv, CoverInv, Busy, NothingMissed, Replied
<1>8. EvenInv'
  BY <1>1, <1>2, <1>3, <1>4 DEF Inv, EvenInv, Busy, FailsOnlyForCause, Replied
<1>9. SeenInv'
  BY <1>1, <1>2, <1>4 DEF Inv, SeenInv, TypeOK, Busy
<1>10. WholeInv'
  BY <1>1 DEF WholeInv, Replied
<1>11. NoUnitsYet'
  BY <1>1 DEF Inv, NoUnitsYet
<1> QED  BY <1>5, <1>6, <1>7, <1>8, <1>9, <1>10, <1>11 DEF Inv

\* The rows of the page in hand.
LEMMA FetchStep == ASSUME Inv, Fetch PROVE Inv'
<1>1. /\ pc = "fetch" /\ pc' = "scan" /\ page \subseteq Present /\ Extend(page, rows)
      /\ rows' = rows /\ seqno' = seqno /\ positions' = positions
      /\ UNCHANGED <<route, match, status, stayed, trouble, uneven, seen>>
      /\ UNCHANGED <<due, pages, ended, page, units>>
  BY DEF Fetch, Goto, Request, redis
<1>2. Present' = Present
  BY <1>1 DEF Present
<1>3. /\ FoundKeys' = FoundKeys \cup page
      /\ found' \subseteq [key : match, seqno : 1 .. MaxWrites]
      /\ \A f \in found' : f \in found \/ (f.key \in Present /\ f.seqno = rows[f.key])
      /\ Cardinality(page) \in Nat
      /\ Cardinality(page) <= Cardinality(match)
      /\ count' = count + Cardinality(page)
      /\ Cardinality(FoundKeys') <= count'
  <2>1. page \subseteq Present \cap match
    BY <1>1 DEF Inv, TypeOK
  <2> QED  BY <1>1, <2>1, Extended DEF Inv
<1>4. CountInv' /\ count' \in 0 .. MaxPages * Cardinality(match)
  <2>1. /\ count + Cardinality(match) <= pages * Cardinality(match)
        /\ count \in Nat
    BY <1>1 DEF Inv, CountInv
  <2>2. Cardinality(match) \in Nat
    BY MatchFinite DEF Inv
  <2>3. /\ pages * Cardinality(match) <= MaxPages * Cardinality(match)
        /\ pages * Cardinality(match) \in Nat /\ MaxPages * Cardinality(match) \in Nat
    BY <2>2, AtMostAllPages, BoundsAssumption DEF Inv, TypeOK
  <2> DEFINE B == pages * Cardinality(match)
             C == MaxPages * Cardinality(match)
  <2>4. count' <= B /\ count' \in 0 .. C /\ count' \in Nat /\ count' <= C
    <3> HIDE DEF B, C
    <3>1. B \in Nat /\ B <= C /\ C \in Nat /\ count + Cardinality(match) <= B
      BY <2>1, <2>3 DEF B, C
    <3> QED  BY <1>3, <2>1, <2>2, <3>1
  <2> QED  BY <1>1, <1>3, <2>4 DEF CountInv
<1>5. TypeOK'
  BY <1>1, <1>2, <1>3, <1>4 DEF Inv, TypeOK
<1>6. CoverInv'
  BY <1>1, <1>2, <1>3 DEF Inv, CoverInv, Busy, NothingMissed, Replied
<1>7. EvenInv'
  BY <1>1, <1>2, <1>3 DEF Inv, EvenInv, Busy, FailsOnlyForCause, Replied
<1>8. SeenInv'
  BY <1>1, <1>2, <1>3 DEF Inv, SeenInv, TypeOK, Busy
<1>9. WholeInv'
  BY <1>1 DEF WholeInv, Replied
<1>10. NoUnitsYet'
  BY <1>1 DEF Inv, NoUnitsYet
<1> QED  BY <1>4, <1>5, <1>6, <1>7, <1>8, <1>9, <1>10 DEF Inv

\* The rows are read; the positions are next.
LEMMA BeginUnitsStep == ASSUME Inv, BeginUnits PROVE Inv'
<1>1. /\ pc = "scan" /\ ended /\ route = "positions" /\ pc' = "hscan"
      /\ due' = positions \cap match /\ pages' = 0 /\ ended' = FALSE /\ page' = {}
      /\ rows' = rows /\ seqno' = seqno /\ positions' = positions
      /\ UNCHANGED <<route, match, stayed, trouble, uneven>>
      /\ UNCHANGED <<found, count, units, status, seen>>
  BY DEF BeginUnits, Scanned, BeginScan, Request, result, redis
<1>2. FoundKeys' = FoundKeys /\ Present' = Present
  BY <1>1 DEF FoundKeys, Present
<1>3. due = {} /\ stayed \subseteq FoundKeys
  BY <1>1 DEF Inv, CoverInv, Busy
<1>4. units' \subseteq match /\ (~uneven => units' \subseteq stayed)
  BY <1>1 DEF Inv, NoUnitsYet, TypeOK
<1>5. TypeOK'
  <2>1. pages' \in 0 .. MaxPages
    BY <1>1, BoundsAssumption
  <2>2. ended' \in BOOLEAN
    BY <1>1
  <2> QED  BY <1>1, <1>2, <2>1, <2>2 DEF Inv, TypeOK
<1>6. CountInv'
  BY <1>1, <1>2 DEF Inv, CountInv
<1>7. CoverInv'
  BY <1>1, <1>2, <1>3 DEF Inv, CoverInv, Busy, NothingMissed, Replied
<1>8. EvenInv'
  BY <1>1, <1>2, <1>3, <1>4 DEF Inv, EvenInv, Busy, FailsOnlyForCause, Replied
<1>9. WholeInv' /\ SeenInv'
  BY <1>1, <1>2 DEF Inv, WholeInv, SeenInv, Busy, Replied
<1>10. NoUnitsYet'
  BY <1>1 DEF NoUnitsYet
<1> QED  BY <1>5, <1>6, <1>7, <1>8, <1>9, <1>10 DEF Inv

\* A page of positions.
LEMMA ScanUnitsStep == ASSUME Inv, ScanUnits PROVE Inv'
<1>1. /\ pc = "hscan" /\ pc' = "hscan" /\ units' = units \cup page'
      /\ rows' = rows /\ seqno' = seqno /\ positions' = positions
      /\ UNCHANGED <<route, match, status, stayed, trouble, uneven, seen, found, count>>
      /\ ReturnPage(positions \cap match)
  BY DEF ScanUnits, ReturnPage, Goto, Update, redis
<1>2. FoundKeys' = FoundKeys /\ Present' = Present
  BY <1>1 DEF FoundKeys, Present
<1>3. /\ page' \subseteq positions \cap match
      /\ pages \in Nat /\ pages' = pages + 1 /\ pages' <= MaxPages
      /\ due' = due \ page'
      /\ ended' \in BOOLEAN /\ (ended' => due' = {})
  BY <1>1, Returned DEF Inv
<1>4. TypeOK'
  BY <1>1, <1>2, <1>3, BoundsAssumption DEF Inv, TypeOK
<1>5. CountInv'
  BY <1>1, <1>2 DEF Inv, CountInv
<1>6. CoverInv'
  BY <1>1, <1>2, <1>3 DEF Inv, CoverInv, Busy, NothingMissed, Replied
<1>7. EvenInv'
  BY <1>1, <1>2, <1>3 DEF Inv, EvenInv, Busy, FailsOnlyForCause, Replied
<1>8. WholeInv' /\ SeenInv' /\ NoUnitsYet'
  BY <1>1, <1>2 DEF Inv, WholeInv, SeenInv, NoUnitsYet, Busy, Replied
<1> QED  BY <1>4, <1>5, <1>6, <1>7, <1>8 DEF Inv

\* A reply keeps the invariant if it is one the request may end with.
LEMMA ReplyStep ==
  ASSUME Inv, NEW s \in {200, 400, 500}, Busy, Reply(s),
         trouble' \in BOOLEAN,
         s = 200 => stayed \subseteq FoundKeys,
         s = 400 => stayed = {},
         s = 200 /\ route = "positions" =>
           FoundKeys \subseteq units /\ count = Cardinality(units),
         s = 500 => trouble' \/ (route = "positions" /\ (uneven \/ Repeated))
  PROVE  Inv'
<1>1. /\ pc' = "idle" /\ status' = s
      /\ rows' = rows /\ seqno' = seqno /\ positions' = positions
      /\ UNCHANGED <<route, match, due, pages, ended, page, found, count, units>>
      /\ UNCHANGED <<stayed, uneven>>
  BY DEF Reply, redis, result
<1>2. FoundKeys' = FoundKeys /\ Present' = Present
  BY <1>1 DEF FoundKeys, Present
<1>3. /\ seen' \in [Keys -> 0 .. MaxWrites]
      /\ \A k \in Keys : \/ seen'[k] = seen[k]
                         \/ \E f \in found : f.key = k /\ seen'[k] = f.seqno
  BY Shown DEF Inv
<1>4. TypeOK'
  BY <1>1, <1>2, <1>3 DEF Inv, TypeOK
<1>5. CountInv' /\ NoUnitsYet'
  BY <1>1, <1>2 DEF Inv, CountInv, NoUnitsYet
<1>6. CoverInv'
  BY <1>1, <1>2 DEF Inv, CoverInv, Busy, NothingMissed, Replied
<1>7. EvenInv'
  BY <1>1, <1>2 DEF EvenInv, Busy, FailsOnlyForCause, Replied, Repeated
<1>8. WholeInv'
  BY <1>1, <1>2 DEF WholeInv, Replied
<1>9. SeenInv'
  <2>1. ASSUME NEW k \in Keys PROVE seen'[k] <= seqno
    BY <1>3 DEF Inv, SeenInv
  <2>2. ASSUME NEW k \in Present PROVE seen'[k] <= rows[k]
    BY <1>3 DEF Inv, SeenInv, TypeOK
  <2>3. \A k \in Present : rows[k] <= seqno
    BY DEF Inv, SeenInv
  <2> QED  BY <1>1, <1>2, <2>1, <2>2, <2>3 DEF SeenInv, Busy
<1> QED  BY <1>4, <1>5, <1>6, <1>7, <1>8, <1>9 DEF Inv

\* The replies of the model are such.
LEMMA Replies ==
  ASSUME Inv, RedisFails \/ FetchFails \/ NotFound \/ Found \/ UnitsMissing \/ Portfolio
  PROVE  Inv'
<1>1. CASE RedisFails
  BY <1>1, ReplyStep DEF RedisFails, Busy
<1>2. trouble \in BOOLEAN
  BY DEF Inv, TypeOK
<1>3. CASE FetchFails
  <2>1. trouble
    BY <1>3 DEF FetchFails, Inv, EvenInv
  <2> QED  BY <1>2, <1>3, <2>1, ReplyStep DEF FetchFails, Answer, Busy
<1>4. CASE NotFound
  <2>1. stayed \subseteq FoundKeys
    BY <1>4 DEF NotFound, Scanned, Inv, CoverInv, Busy
  <2>2. Cardinality(FoundKeys) = 0
    BY <1>4, MatchFinite DEF NotFound, Inv, CountInv
  <2>3. FoundKeys = {}
    BY <2>2, MatchFinite, FS_EmptySet DEF Inv
  <2> QED  BY <1>2, <1>4, <2>1, <2>3, ReplyStep DEF NotFound, Scanned, Answer, Busy
<1>5. CASE Found
  <2>1. stayed \subseteq FoundKeys
    BY <1>5 DEF Found, Scanned, Inv, CoverInv, Busy
  <2> QED  BY <1>2, <1>5, <2>1, ReplyStep DEF Found, Scanned, Answer, Busy
<1>6. CASE UnitsMissing
  <2>1. route = "positions" /\ due = {}
    BY <1>6 DEF UnitsMissing, Inv, CoverInv, EvenInv, Busy
  <2>2. uneven \/ Repeated
    <3> SUFFICES ASSUME ~uneven, ~Repeated PROVE FALSE
      OBVIOUS
    <3>1. units = stayed /\ FoundKeys = stayed
      BY <1>6, <2>1 DEF UnitsMissing, Inv, EvenInv, CoverInv, Busy
    <3>2. count = Cardinality(FoundKeys)
      BY MatchFinite DEF Repeated, Inv, CountInv
    <3> QED  BY <1>6, <3>1, <3>2 DEF UnitsMissing, CountsAgree
  <2> QED  BY <1>2, <1>6, <2>1, <2>2, ReplyStep DEF UnitsMissing, Answer, Busy
<1>7. CASE Portfolio
  <2>1. stayed \subseteq FoundKeys
    BY <1>7 DEF Portfolio, Inv, CoverInv
  <2> QED  BY <1>2, <1>7, <2>1, ReplyStep DEF Portfolio, CountsAgree, Answer, Busy
<1> QED  BY <1>1, <1>3, <1>4, <1>5, <1>6, <1>7

-----------------------------------------------------------------------------
LEMMA StepInv == Inv /\ [Next]_vars => Inv'
<1> SUFFICES ASSUME Inv, [Next]_vars PROVE Inv'
  OBVIOUS
<1>1. CASE Environment
  BY <1>1, WriteStep, ExpireStep, OpenPositionStep DEF Environment
<1>2. CASE Handle
  BY <1>2, BeginStep, RefuseStep, ScanRowsStep, ScanKeysStep, FetchStep,
     BeginUnitsStep, ScanUnitsStep, Replies DEF Handle
<1>3. CASE UNCHANGED vars
  <2>1. UNCHANGED <<rows, seqno, positions, pc, route, match, due, pages, ended, page,
                    found, count, units, status, stayed, trouble, uneven, seen>>
    BY <1>3 DEF vars, redis, result
  <2>2. FoundKeys' = FoundKeys /\ Present' = Present
    BY <2>1 DEF FoundKeys, Present
  <2>3. TypeOK' /\ CountInv' /\ NoUnitsYet'
    BY <2>1, <2>2 DEF Inv, TypeOK, CountInv, NoUnitsYet
  <2>4. CoverInv' /\ EvenInv' /\ WholeInv' /\ SeenInv'
    BY <2>1, <2>2 DEF Inv, CoverInv, EvenInv, WholeInv, SeenInv, Busy, Replied,
                      NothingMissed, FailsOnlyForCause, Repeated
  <2> QED  BY <2>3, <2>4 DEF Inv
<1> QED  BY <1>1, <1>2, <1>3 DEF Next

LEMMA Invariance == Spec => []Inv
  BY InitInv, StepInv, PTL DEF Spec

(***************************************************************************)
(* Request, rows and list stay within their types; a list is never longer  *)
(* than the pages of a scan times the contracts asked for.                 *)
(***************************************************************************)
THEOREM TypeCorrect == Spec => []TypeOK
<1>1. Inv => TypeOK
  BY DEF Inv
<1> QED  BY <1>1, Invariance, PTL

(***************************************************************************)
(* What was in Redis for the whole of a request is in the reply, however   *)
(* the pages fall and whatever comes and goes meanwhile.                   *)
(***************************************************************************)
THEOREM NothingMissedThm == Spec => []NothingMissed
<1>1. Inv => NothingMissed
  BY DEF Inv, CoverInv
<1> QED  BY <1>1, Invariance, PTL

(***************************************************************************)
(* A portfolio is answered whole: the contracts found are among the        *)
(* positions and as many, so they are the positions.                       *)
(***************************************************************************)
THEOREM PortfolioIsWholeThm == Spec => []PortfolioIsWhole
<1>1. ASSUME Inv PROVE PortfolioIsWhole
  <2> SUFFICES ASSUME Replied(200), route = "positions", ~Repeated
               PROVE  FoundKeys = units
    BY DEF PortfolioIsWhole
  <2>1. FoundKeys \subseteq units /\ count = Cardinality(units)
    BY <1>1 DEF Inv, WholeInv
  <2>2. IsFiniteSet(units)
    BY <1>1, MatchFinite, FS_Subset DEF Inv, TypeOK
  <2>3. /\ Cardinality(FoundKeys) <= Cardinality(units)
        /\ Cardinality(units) = Cardinality(FoundKeys) => units = FoundKeys
    BY <2>1, <2>2, FS_Subset
  <2>4. Cardinality(units) <= Cardinality(FoundKeys)
    BY <1>1, <2>1, MatchFinite DEF Repeated, Inv, CountInv
  <2>5. Cardinality(units) \in Nat /\ Cardinality(FoundKeys) \in Nat
    BY <1>1, <2>2, MatchFinite, FS_CardinalityType DEF Inv
  <2> QED  BY <2>3, <2>4, <2>5
<1> QED  BY <1>1, Invariance, PTL

(***************************************************************************)
(* No request fails without one of the causes the model names.             *)
(***************************************************************************)
THEOREM FailsOnlyForCauseThm == Spec => []FailsOnlyForCause
<1>1. Inv => FailsOnlyForCause
  BY DEF Inv, EvenInv
<1> QED  BY <1>1, Invariance, PTL

(***************************************************************************)
(* Replies do not go back in time.                                         *)
(***************************************************************************)
THEOREM MonotonicReadsThm == Spec => MonotonicReads
<1>1. Inv => (pc # "idle" /\ Replied(200)' /\ route # "contracts" =>
                \A f \in found : f.seqno >= seen[f.key])
  BY BoundsAssumption DEF Inv, SeenInv, Busy, TypeOK
<1> QED  BY <1>1, Invariance, PTL DEF MonotonicReads
=============================================================================
