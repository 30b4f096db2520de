------------------------- MODULE OrchestratorProofs -------------------------
(***************************************************************************)
(* Theorems of Orchestrator, for any contracts, conversions of strikes,    *)
(* capacity, grace period and clock; and, at the end, of the loop around   *)
(* it, ComputeLoop, for any feeds as well.                                 *)
(***************************************************************************)
EXTENDS ComputeLoop, FiniteSetTheorems, SequenceTheorems, TLAPS

Contracts == Orders \cup ToSet(Seeds)

RegistryType ==
  [expiries  : [Symbols -> Seq(Nat)],
   contracts : [Symbols -> Seq(Seq(Key))],
   queue     : [Symbols -> SUBSET Nat]]

\* Each expiry has its list of contracts.
WellFormed(r) ==
  /\ r \in RegistryType
  /\ \A s \in Symbols : Len(r.contracts[s]) = Len(r.expiries[s])

\* The meta of a contract of the registry.
MetaType == [symbol : Symbols, expiry : Nat, contract : Nat]
Names(x, r) ==
  /\ x.expiry \in DOMAIN r.contracts[x.symbol]
  /\ x.contract \in DOMAIN r.contracts[x.symbol][x.expiry]

HasMeta(x) == \E j \in DOMAIN metas : metas[j] = x
At(s, e, i) == [symbol |-> s, expiry |-> e, contract |-> i]

TypeInv ==
  /\ TypeOK
  /\ WellFormed(reg)
  /\ DOMAIN batches = Symbols
  /\ metas \in Seq(MetaType) /\ \A j \in DOMAIN metas : Names(metas[j], reg)
  /\ pc \in {"boot", "idle", "stuck"} => metas = <<>>
  /\ pc \notin {"place", "dead"} => processed = {}

\* While contracts are placed, what a batch still lacks has a pending meta, and a
\* batch built in this flush lacks nothing; unless it has overrun its arrays.
Whole(s, e) ==
  /\ \A i \in DOMAIN reg.contracts[s][e] :
       reg.contracts[s][e][i] \in ToSet(batches[s][e]) \/ HasMeta(At(s, e, i))
  /\ <<s, e>> \in processed => ToSet(reg.contracts[s][e]) \subseteq ToSet(batches[s][e])

SliceInv ==
  \A s \in Symbols : \A e \in DOMAIN batches[s] :
    /\ ToSet(batches[s][e]) \subseteq ToSet(reg.contracts[s][e])
    /\ <<s, e>> \in Overran \/ Whole(s, e)

\* A slice that awaits retirement has a batch, or a pending meta will build it.
PendingSlice(s, e) == \E j \in DOMAIN metas : metas[j].symbol = s /\ metas[j].expiry = e

Served(s, e) ==
  /\ reg.expiries[s][e] \in reg.queue[s] => e \in DOMAIN batches[s] \/ PendingSlice(s, e)
  /\ e \in DOMAIN batches[s] => reg.expiries[s][e] \in reg.queue[s] \/ <<s, e>> \in late

ServeInv ==
  /\ pc = "boot" => \A s \in Symbols :
       batches[s] = <<>> /\ reg.queue[s] = ToSet(reg.expiries[s])
  /\ pc # "boot" => \A s \in Symbols \ strayed : \A e \in DOMAIN reg.expiries[s] : Served(s, e)

Inv == TypeInv /\ SliceInv /\ ServeInv

-----------------------------------------------------------------------------
LEMMA ContractType ==
  ASSUME NEW c \in Contracts, c.expiry # Malformed
  PROVE  c.symbol \in Symbols /\ c.expiry \in Nat /\ StoredKey(c) \in Key
<1>1. c.symbol \in Symbols
  BY DEF Contracts, Symbols
<1>2. c.expiry \in Nat
  BY SeedsAssumption, OrdersAssumption DEF Contracts, Malformed, ToSet
<1>3. c.strike \in DOMAIN StoredScaled
  BY StrikesAssumption DEF Contracts
<1>4. StoredKey(c) \in Key
  BY <1>3 DEF StoredKey, Key, Range, Contracts
<1> QED  BY <1>1, <1>2, <1>4

\* expiry_to_id_ is well defined.
LEMMA IdFacts ==
  ASSUME NEW r, NEW s, NEW t, HasExpiry(r, s, t)
  PROVE  IdOf(r, s, t) \in DOMAIN r.expiries[s] /\ r.expiries[s][IdOf(r, s, t)] = t
BY DEF IdOf, HasExpiry, ToSet

LEMMA RecordOfMaps ==
  ASSUME NEW r, NEW s, NEW e, NEW v,
         r = [expiries |-> r.expiries, contracts |-> r.contracts, queue |-> r.queue]
  PROVE  [r EXCEPT !.contracts[s][e] = v] =
           [expiries  |-> r.expiries,
            contracts |-> [r.contracts EXCEPT ![s] = [r.contracts[s] EXCEPT ![e] = v]],
            queue     |-> r.queue]
<1> SUFFICES ASSUME NEW x, NEW a, NEW q,
                    r = [expiries |-> x, contracts |-> a, queue |-> q]
             PROVE  [r EXCEPT !.contracts[s][e] = v] =
                      [expiries  |-> r.expiries,
                       contracts |-> [r.contracts EXCEPT ![s] = [r.contracts[s] EXCEPT ![e] = v]],
                       queue     |-> r.queue]
  OBVIOUS
<1> QED  OBVIOUS

LEMMA Replaced ==
  ASSUME NEW S, NEW q \in Seq(S), NEW e \in DOMAIN q, NEW v \in S,
         NEW p, p = [q EXCEPT ![e] = v]
  PROVE  /\ p \in Seq(S) /\ Len(p) = Len(q) /\ DOMAIN p = DOMAIN q /\ p[e] = v
         /\ \A i \in DOMAIN q : i # e => p[i] = q[i]
BY ExceptSeq

\* What one contract c does to the registry, which becomes r: nothing if it is
\* there; otherwise its slice e, new or not, gets one contract at the end.
Registered(c, r, e) ==
  /\ WellFormed(r)
  /\ e \in DOMAIN r.contracts[c.symbol] /\ r.expiries[c.symbol][e] = c.expiry
  /\ Exists(reg, c) => r = reg
  /\ \A s \in Symbols :
       /\ Len(reg.expiries[s]) <= Len(r.expiries[s])
       /\ \A i \in DOMAIN reg.expiries[s] : r.expiries[s][i] = reg.expiries[s][i]
       /\ \A i \in DOMAIN r.contracts[s] :
            /\ i \in DOMAIN reg.contracts[s] \/ (s = c.symbol /\ i = e)
            /\ \/ i \in DOMAIN reg.contracts[s] /\ r.contracts[s][i] = reg.contracts[s][i]
               \/ s = c.symbol /\ i = e
  /\ ~Exists(reg, c) =>
       r.contracts[c.symbol][e] =
         Append(IF e \in DOMAIN reg.contracts[c.symbol]
                THEN reg.contracts[c.symbol][e] ELSE <<>>, StoredKey(c))
  /\ ~Exists(reg, c) /\ e \in DOMAIN reg.contracts[c.symbol] =>
       LookupKey(c) \notin ToSet(reg.contracts[c.symbol][e])
  /\ \A s \in Symbols :
       \/ r.queue[s] = reg.queue[s] /\ r.expiries[s] = reg.expiries[s]
       \/ /\ s = c.symbol
          /\ e \notin DOMAIN reg.contracts[s]
          /\ c.expiry \notin ToSet(reg.expiries[s])
          /\ r.expiries[s] = Append(reg.expiries[s], c.expiry)
          /\ r.queue[s] = reg.queue[s] \cup {c.expiry}

LEMMA RegisterFacts ==
  ASSUME WellFormed(reg), NEW c \in Contracts, c.expiry # Malformed,
         NEW r, r = Register(reg, c), NEW e, e = IdOf(r, c.symbol, c.expiry)
  PROVE  Registered(c, r, e)
<1> DEFINE s0 == c.symbol
           t == c.expiry
           k == StoredKey(c)
<1>1. s0 \in Symbols /\ t \in Nat /\ k \in Key
  BY ContractType
<1>2. /\ reg.expiries \in [Symbols -> Seq(Nat)]
      /\ reg.contracts \in [Symbols -> Seq(Seq(Key))]
      /\ reg.queue \in [Symbols -> SUBSET Nat]
      /\ reg = [expiries |-> reg.expiries, contracts |-> reg.contracts, queue |-> reg.queue]
      /\ \A s \in Symbols : DOMAIN reg.contracts[s] = DOMAIN reg.expiries[s]
      /\ \A s \in Symbols : Len(reg.contracts[s]) = Len(reg.expiries[s])
  BY DEF WellFormed, RegistryType
<1>3. CASE Exists(reg, c)
  <2>1. r = reg
    BY <1>3 DEF Register
  <2>2. e \in DOMAIN reg.expiries[s0] /\ reg.expiries[s0][e] = t
    BY <1>3, <2>1, IdFacts DEF Exists
  <2> QED  BY <1>1, <1>2, <1>3, <2>1, <2>2 DEF Registered
<1>4. CASE ~Exists(reg, c) /\ HasExpiry(reg, s0, t)
  <2>1. /\ r = [reg EXCEPT !.contracts[s0][IdOf(reg, s0, t)] = Append(@, k)]
    BY <1>4 DEF Register
  <2>2. r.expiries = reg.expiries /\ r.queue = reg.queue
    BY <1>2, <2>1
  <2>3. e = IdOf(reg, s0, t)
    BY <2>2 DEF IdOf
  <2>4. e \in DOMAIN reg.expiries[s0] /\ reg.expiries[s0][e] = t
    BY <1>4, <2>3, IdFacts
  <2>5. r.contracts = [reg.contracts EXCEPT
                         ![s0] = [reg.contracts[s0] EXCEPT ![e] = Append(reg.contracts[s0][e], k)]]
    <3>1. r = [reg EXCEPT !.contracts[s0][e] = Append(reg.contracts[s0][e], k)]
      BY <2>1, <2>3
    <3> HIDE DEF k, s0
    <3> QED  BY <1>2, <3>1, RecordOfMaps
  <2>6. e \in DOMAIN reg.contracts[s0] /\ reg.contracts[s0] \in Seq(Seq(Key))
    BY <1>1, <1>2, <2>4
  <2>7. Append(reg.contracts[s0][e], k) \in Seq(Key)
    BY <1>1, <2>6
  <2>8. /\ r.contracts[s0] \in Seq(Seq(Key))
        /\ Len(r.contracts[s0]) = Len(reg.contracts[s0])
        /\ DOMAIN r.contracts[s0] = DOMAIN reg.contracts[s0]
        /\ r.contracts[s0][e] = Append(reg.contracts[s0][e], k)
        /\ \A i \in DOMAIN reg.contracts[s0] :
             i # e => r.contracts[s0][i] = reg.contracts[s0][i]
    <3>1. r.contracts[s0] = [reg.contracts[s0] EXCEPT ![e] = Append(reg.contracts[s0][e], k)]
      BY <1>1, <1>2, <2>5
    <3> HIDE DEF k, s0
    <3> QED  BY <2>6, <2>7, <3>1, Replaced
  <2>9. \A s \in Symbols : s # s0 => r.contracts[s] = reg.contracts[s]
    BY <1>2, <2>5
  <2>10. WellFormed(r)
    <3>1. r.contracts \in [Symbols -> Seq(Seq(Key))]
      BY <1>1, <1>2, <2>5, <2>8, <2>9
    <3>2. r = [expiries |-> r.expiries, contracts |-> r.contracts, queue |-> r.queue]
      BY <1>2, <2>1
    <3>3. \A s \in Symbols : Len(r.contracts[s]) = Len(r.expiries[s])
      BY <1>2, <2>2, <2>8, <2>9
    <3> QED  BY <1>2, <2>2, <3>1, <3>2, <3>3 DEF WellFormed, RegistryType
  <2>11. \A s \in Symbols : \A i \in DOMAIN r.contracts[s] :
           /\ i \in DOMAIN reg.contracts[s]
           /\ r.contracts[s][i] = reg.contracts[s][i] \/ (s = s0 /\ i = e)
    BY <1>1, <2>8, <2>9
  <2>12. \A s \in Symbols : Len(reg.expiries[s]) <= Len(r.expiries[s])
    BY <1>2, <2>2
  <2>13. LookupKey(c) \notin ToSet(reg.contracts[s0][e])
    BY <1>4, <2>3 DEF Exists
  <2> HIDE DEF k, s0, t
  <2> QED  BY <1>4, <2>2, <2>4, <2>6, <2>8, <2>10, <2>11, <2>12, <2>13 DEF k, s0, t, Registered
<1>5. CASE ~HasExpiry(reg, s0, t)
  <2>1. ~Exists(reg, c)
    BY <1>5 DEF Exists
  <2> DEFINE r1 == AddExpiry(reg, s0, t)
             E == IdOf(r1, s0, t)
  <2>2. r = [r1 EXCEPT !.contracts[s0][E] = Append(@, k)]
    BY <1>5, <2>1 DEF Register
  <2>3. /\ r1.expiries = [reg.expiries EXCEPT ![s0] = Append(@, t)]
        /\ r1.contracts = [reg.contracts EXCEPT ![s0] = Append(@, <<>>)]
        /\ r1.queue = [reg.queue EXCEPT ![s0] = @ \cup {t}]
        /\ r1 = [expiries |-> r1.expiries, contracts |-> r1.contracts, queue |-> r1.queue]
    BY DEF AddExpiry
  <2> DEFINE n == Len(reg.expiries[s0])
  <2>4. /\ n \in Nat
        /\ DOMAIN reg.expiries[s0] = 1 .. n
        /\ r1.expiries[s0] = Append(reg.expiries[s0], t)
        /\ r1.expiries[s0] \in Seq(Nat)
        /\ DOMAIN r1.expiries[s0] = 1 .. (n + 1)
        /\ r1.expiries[s0][n + 1] = t
        /\ \A i \in 1 .. n : r1.expiries[s0][i] = reg.expiries[s0][i]
    BY <1>1, <1>2, <2>3
  <2>5. \A i \in 1 .. n : reg.expiries[s0][i] # t
    BY <1>5, <2>4 DEF HasExpiry, ToSet
  <2>6. E = n + 1
    <3>1. HasExpiry(r1, s0, t)
      BY <2>4 DEF HasExpiry, ToSet
    <3>2. E \in 1 .. (n + 1) /\ r1.expiries[s0][E] = t
      <4> HIDE DEF r1, n
      <4>1. E \in DOMAIN r1.expiries[s0] /\ r1.expiries[s0][E] = t
        BY <3>1, IdFacts DEF E
      <4> HIDE DEF E, s0, t
      <4> QED  BY <2>4, <4>1
    <3> HIDE DEF E, n, r1
    <3>3. E \in 1 .. n \/ E = n + 1
      BY <2>4, <3>2
    <3> QED  BY <2>4, <2>5, <3>2, <3>3
  <2> HIDE DEF r1, E
  <2>7. r.expiries = r1.expiries /\ r.queue = r1.queue
    BY <2>2, <2>3
  <2>8. e = n + 1
    BY <2>6, <2>7 DEF IdOf, E
  <2>9. r.contracts = [r1.contracts EXCEPT ![s0] =
                         [r1.contracts[s0] EXCEPT ![n + 1] = Append(r1.contracts[s0][n + 1], k)]]
    <3>1. r = [r1 EXCEPT !.contracts[s0][n + 1] = Append(r1.contracts[s0][n + 1], k)]
      BY <2>2, <2>6
    <3> HIDE DEF k, s0, n
    <3> QED  BY <2>3, <3>1, RecordOfMaps
  <2>10. /\ r1.contracts[s0] = Append(reg.contracts[s0], <<>>)
         /\ r1.contracts[s0] \in Seq(Seq(Key))
         /\ Len(r1.contracts[s0]) = n + 1
         /\ r1.contracts[s0][n + 1] = <<>>
         /\ \A i \in 1 .. n : r1.contracts[s0][i] = reg.contracts[s0][i]
         /\ r1.contracts \in [Symbols -> Seq(Seq(Key))]
         /\ \A s \in Symbols : s # s0 => r1.contracts[s] = reg.contracts[s]
    BY <1>1, <1>2, <2>3
  <2>11. Append(<<>>, k) \in Seq(Key)
    BY <1>1
  <2>12. /\ r.contracts[s0] \in Seq(Seq(Key))
         /\ Len(r.contracts[s0]) = n + 1
         /\ r.contracts[s0][n + 1] = Append(<<>>, k)
         /\ \A i \in 1 .. n : r.contracts[s0][i] = reg.contracts[s0][i]
    <3>1. r.contracts[s0] = [r1.contracts[s0] EXCEPT ![n + 1] = Append(<<>>, k)]
      BY <1>1, <2>9, <2>10
    <3>2. n + 1 \in DOMAIN r1.contracts[s0]
      BY <2>4, <2>10
    <3> HIDE DEF k, s0, n
    <3>3. /\ r.contracts[s0] \in Seq(Seq(Key))
          /\ Len(r.contracts[s0]) = Len(r1.contracts[s0])
          /\ r.contracts[s0][n + 1] = Append(<<>>, k)
          /\ \A i \in DOMAIN r1.contracts[s0] :
               i # n + 1 => r.contracts[s0][i] = r1.contracts[s0][i]
      <4> DEFINE q == r1.contracts[s0]
                 p == r.contracts[s0]
                 v == Append(<<>>, k)
                 T == Seq(Key)
      <4>1. q \in Seq(T) /\ v \in T /\ n + 1 \in DOMAIN q /\ p = [q EXCEPT ![n + 1] = v]
        BY <2>10, <2>11, <3>1, <3>2
      <4> HIDE DEF q, p, v, T
      <4>2. /\ p \in Seq(T) /\ Len(p) = Len(q) /\ p[n + 1] = v
            /\ \A i \in DOMAIN q : i # n + 1 => p[i] = q[i]
        BY <4>1, Replaced
      <4> QED  BY <4>2 DEF q, p, v, T
    <3>4. n \in Nat /\ DOMAIN r1.contracts[s0] = 1 .. (n + 1)
      BY <2>4, <2>10
    <3>5. \A i \in 1 .. n : i \in 1 .. (n + 1) /\ i # n + 1
      BY <3>4
    <3> QED  BY <2>10, <3>3, <3>4, <3>5
  <2>13. \A s \in Symbols : s # s0 => r.contracts[s] = reg.contracts[s]
    BY <1>2, <2>9, <2>10
  <2>14. WellFormed(r)
    <3>1. r.contracts \in [Symbols -> Seq(Seq(Key))]
      BY <1>1, <2>9, <2>10, <2>12, <2>13, <1>2
    <3>2. r = [expiries |-> r.expiries, contracts |-> r.contracts, queue |-> r.queue]
      BY <2>2, <2>3
    <3>3. r.expiries \in [Symbols -> Seq(Nat)] /\ r.queue \in [Symbols -> SUBSET Nat]
      BY <1>1, <1>2, <2>3, <2>4, <2>7
    <3>4. \A s \in Symbols : Len(r.contracts[s]) = Len(r.expiries[s])
      BY <1>1, <1>2, <2>3, <2>4, <2>7, <2>12, <2>13
    <3> QED  BY <3>1, <3>2, <3>3, <3>4 DEF WellFormed, RegistryType
  <2>15. n + 1 \notin DOMAIN reg.contracts[s0] /\ DOMAIN reg.contracts[s0] = 1 .. n
         /\ DOMAIN r.contracts[s0] = 1 .. (n + 1)
    BY <1>1, <1>2, <2>4, <2>12
  <2>16. t \notin ToSet(reg.expiries[s0])
    BY <1>5 DEF HasExpiry
  <2> HIDE DEF n
  <2>17. \A s \in Symbols :
           /\ Len(reg.expiries[s]) <= Len(r.expiries[s])
           /\ \A i \in DOMAIN reg.expiries[s] : r.expiries[s][i] = reg.expiries[s][i]
    <3>1. ASSUME NEW s \in Symbols, s # s0
          PROVE  /\ Len(reg.expiries[s]) <= Len(r.expiries[s])
                 /\ \A i \in DOMAIN reg.expiries[s] : r.expiries[s][i] = reg.expiries[s][i]
      <4>1. r.expiries[s] = reg.expiries[s]
        BY <1>2, <2>3, <2>7, <3>1
      <4>2. Len(reg.expiries[s]) \in Nat
        BY <1>2
      <4> QED  BY <4>1, <4>2
    <3>2. /\ Len(reg.expiries[s0]) <= Len(r.expiries[s0])
          /\ \A i \in DOMAIN reg.expiries[s0] : r.expiries[s0][i] = reg.expiries[s0][i]
      <4>1. Len(r.expiries[s0]) = n + 1
        BY <2>4, <2>7
      <4> QED  BY <2>4, <2>7, <4>1 DEF n
    <3> HIDE DEF s0
    <3> QED  BY <3>1, <3>2
  <2>18. \A s \in Symbols :
              \/ r.queue[s] = reg.queue[s] /\ r.expiries[s] = reg.expiries[s]
              \/ /\ s = s0
                 /\ r.expiries[s] = Append(reg.expiries[s], t)
                 /\ r.queue[s] = reg.queue[s] \cup {t}
    BY <1>1, <1>2, <2>3, <2>7
  <2>19. \A s \in Symbols : \A i \in DOMAIN r.contracts[s] :
                   /\ i \in DOMAIN reg.contracts[s] \/ (s = s0 /\ i = e)
                   /\ \/ i \in DOMAIN reg.contracts[s] /\ r.contracts[s][i] = reg.contracts[s][i]
                      \/ s = s0 /\ i = e
    BY <1>1, <2>4, <2>8, <2>12, <2>13, <2>15
  <2>20. e \in DOMAIN r.contracts[s0] /\ r.expiries[s0][e] = t
    BY <2>4, <2>7, <2>8, <2>15
  <2>21. e \notin DOMAIN reg.contracts[s0] /\ r.contracts[s0][e] = Append(<<>>, k)
    BY <2>8, <2>12, <2>15
  <2>22. r.contracts[s0][e] =
           Append(IF e \in DOMAIN reg.contracts[s0] THEN reg.contracts[s0][e] ELSE <<>>, k)
    BY <2>21
  <2> HIDE DEF s0, t, k
  <2> QED  BY <2>1, <2>14, <2>16, <2>17, <2>18, <2>19, <2>20, <2>21, <2>22
           DEF Registered, s0, t, k
<1> QED  BY <1>3, <1>4, <1>5

-----------------------------------------------------------------------------
\* Sequences as sets.
LEMMA SetOfAppend ==
  ASSUME NEW S, NEW q \in Seq(S), NEW x
  PROVE  ToSet(Append(q, x)) = ToSet(q) \cup {x}
<1>1. /\ DOMAIN Append(q, x) = 1 .. (Len(q) + 1) /\ DOMAIN q = 1 .. Len(q)
      /\ Len(q) \in Nat
      /\ Append(q, x)[Len(q) + 1] = x
      /\ \A i \in 1 .. Len(q) : Append(q, x)[i] = q[i]
  OBVIOUS
<1>2. \A i \in 1 .. (Len(q) + 1) : i \in 1 .. Len(q) \/ i = Len(q) + 1
  BY <1>1
<1>3. \A i \in 1 .. Len(q) : i \in 1 .. (Len(q) + 1)
  BY <1>1
<1>4. Len(q) + 1 \in 1 .. (Len(q) + 1)
  BY <1>1
<1> QED  BY <1>1, <1>2, <1>3, <1>4 DEF ToSet

LEMMA SetOfSeq ==
  ASSUME NEW S, NEW q \in Seq(S)
  PROVE  ToSet(q) \subseteq S /\ (q # <<>> => Head(q) \in S /\ Tail(q) \in Seq(S))
BY DEF ToSet

\* HasMeta metas, when the first is taken and when one is added.
LEMMA TakeMeta ==
  ASSUME metas \in Seq(MetaType), metas # <<>>, metas' = Tail(metas)
  PROVE  /\ m \in MetaType /\ m = metas[1] /\ 1 \in DOMAIN metas
         /\ metas' \in Seq(MetaType)
         /\ \A j \in DOMAIN metas' : \E i \in DOMAIN metas : metas'[j] = metas[i]
         /\ \A j \in DOMAIN metas : metas[j] = m \/ \E i \in DOMAIN metas' : metas'[i] = metas[j]
<1>1. /\ Len(metas) \in Nat /\ Len(metas) >= 1
      /\ DOMAIN metas = 1 .. Len(metas)
      /\ metas' \in Seq(MetaType) /\ Len(metas') = Len(metas) - 1
      /\ DOMAIN metas' = 1 .. (Len(metas) - 1)
      /\ \A j \in 1 .. (Len(metas) - 1) : metas'[j] = metas[j + 1]
  OBVIOUS
<1>2. m = metas[1] /\ 1 \in DOMAIN metas
  BY <1>1 DEF m
<1>3. \A j \in DOMAIN metas' : j + 1 \in DOMAIN metas /\ metas'[j] = metas[j + 1]
  BY <1>1
<1>4. ASSUME NEW j \in DOMAIN metas
      PROVE  metas[j] = m \/ \E i \in DOMAIN metas' : metas'[i] = metas[j]
  <2>1. CASE j = 1
    BY <1>2, <2>1
  <2>2. CASE j # 1
    <3>1. j - 1 \in DOMAIN metas' /\ metas'[j - 1] = metas[(j - 1) + 1] /\ (j - 1) + 1 = j
      BY <1>1, <2>2
    <3> QED  BY <3>1
  <2> QED  BY <2>1, <2>2
<1> QED  BY <1>1, <1>2, <1>3, <1>4

LEMMA AddMeta ==
  ASSUME metas \in Seq(MetaType), NEW x \in MetaType, metas' = Append(metas, x)
  PROVE  /\ metas' \in Seq(MetaType)
         /\ \A j \in DOMAIN metas : j \in DOMAIN metas' /\ metas'[j] = metas[j]
         /\ \A j \in DOMAIN metas' : metas'[j] = x \/ \E i \in DOMAIN metas : metas'[j] = metas[i]
         /\ \E j \in DOMAIN metas' : metas'[j] = x
<1>1. /\ Len(metas) \in Nat
      /\ DOMAIN metas = 1 .. Len(metas)
      /\ metas' \in Seq(MetaType) /\ DOMAIN metas' = 1 .. (Len(metas) + 1)
      /\ metas'[Len(metas) + 1] = x
      /\ \A j \in 1 .. Len(metas) : metas'[j] = metas[j]
  OBVIOUS
<1>2. Len(metas) + 1 \in DOMAIN metas'
  BY <1>1
<1>3. \A j \in DOMAIN metas' : j = Len(metas) + 1 \/ j \in DOMAIN metas
  BY <1>1
<1>4. \A j \in DOMAIN metas : j \in DOMAIN metas'
  BY <1>1
<1> QED  BY <1>1, <1>2, <1>3, <1>4

-----------------------------------------------------------------------------
LEMMA InitInv == Init => Inv
<1> SUFFICES ASSUME Init PROVE Inv
  OBVIOUS
<1>1. /\ reg.expiries = [s \in Symbols |-> <<>>]
      /\ reg.contracts = [s \in Symbols |-> <<>>]
      /\ reg.queue = [s \in Symbols |-> {}]
      /\ reg = [expiries |-> reg.expiries, contracts |-> reg.contracts, queue |-> reg.queue]
  BY DEF Init, EmptyRegistry
<1>2. /\ <<>> \in Seq(Nat) /\ <<>> \in Seq(Seq(Key)) /\ <<>> \in Seq(MetaType)
      /\ <<>> \in Seq(Orders) /\ Len(<<>>) = 0
      /\ \A i : i \notin DOMAIN <<>>
  OBVIOUS
<1>3. WellFormed(reg)
  BY <1>1, <1>2 DEF WellFormed, RegistryType
<1>4. batches = [s \in Symbols |-> <<>>] /\ metas = <<>> /\ processed = {} /\ pc = "boot"
      /\ room = <<>>
  BY DEF Init
<1>5. TypeOK
  <2>1. now \in 0 .. MaxTime /\ received \in 0 .. MaxOrders
    BY BoundsAssumption DEF Init
  <2>2. opened \in Seq(Orders) /\ Len(opened) <= Capacity
    BY <1>2, CapacityAssumption DEF Init
  <2>3. seeds \in Seq(ToSet(Seeds))
    BY SeedsAssumption DEF Init
  <2>4. strayed \subseteq Symbols /\ late \subseteq Symbols \X Nat
    BY DEF Init
  <2>5. /\ reg.expiries \in [Symbols -> Seq(Nat)]
        /\ reg.contracts \in [Symbols -> Seq(Seq(Key))]
        /\ reg.queue \in [Symbols -> SUBSET Nat]
    BY <1>1, <1>2
  <2>6. \A s \in Symbols : DOMAIN batches[s] = {}
    BY <1>2, <1>4
  <2>7. DOMAIN metas = {} /\ DOMAIN room = {}
    BY <1>2, <1>4
  <2> QED  BY <1>4, <2>1, <2>2, <2>3, <2>4, <2>5, <2>6, <2>7 DEF TypeOK
<1>6. TypeInv
  BY <1>2, <1>3, <1>4, <1>5 DEF TypeInv
<1>7. SliceInv
  BY <1>2, <1>4 DEF SliceInv
<1>8. ServeInv
  <2>1. \A s \in Symbols : reg.queue[s] = {} /\ ToSet(reg.expiries[s]) = {}
    BY <1>1, <1>2 DEF ToSet
  <2> QED  BY <1>4, <2>1 DEF ServeInv
<1> QED  BY <1>6, <1>7, <1>8 DEF Inv

-----------------------------------------------------------------------------
Places == {"boot", "idle", "drain", "place", "stuck", "dead"}

\* A step that leaves the registry, the batches and the metas alone.
LEMMA QuietStep ==
  ASSUME Inv, UNCHANGED <<reg, batches, room, metas, strayed, late>>, processed' \subseteq processed,
         now' \in 0 .. MaxTime, received' \in 0 .. MaxOrders,
         seeds' \in Seq(ToSet(Seeds)), opened' \in Seq(Orders), Len(opened') <= Capacity,
         pc' \in Places, pc' = "boot" <=> pc = "boot",
         pc' \in {"boot", "idle", "stuck"} => metas = <<>>,
         pc' \notin {"place", "dead"} => processed' = {}
  PROVE  Inv'
<1>1. TypeInv'
  <2>1. TypeOK'
    BY DEF Inv, TypeInv, TypeOK, Places
  <2> QED  BY <2>1 DEF Inv, TypeInv
<1>2. SliceInv'
  BY DEF Inv, SliceInv, Whole, HasMeta, Overran
<1>3. ServeInv'
  BY DEF Inv, ServeInv, Served, PendingSlice
<1> QED  BY <1>1, <1>2, <1>3 DEF Inv

LEMMA QuietActions ==
  ASSUME Inv,
         \/ Advance \/ (\E c \in Orders : Enqueue(c)) \/ HangInRetire \/ OutOfMemory
         \/ DieOnMalformed \/ Drained \/ FlushDone \/ StrayWrite \/ UNCHANGED vars
  PROVE  Inv'
<1>1. /\ now \in 0 .. MaxTime /\ received \in 0 .. MaxOrders /\ seeds \in Seq(ToSet(Seeds))
      /\ opened \in Seq(Orders) /\ Len(opened) <= Capacity /\ pc \in Places
      /\ (pc \in {"boot", "idle", "stuck"} => metas = <<>>)
      /\ (pc \notin {"place", "dead"} => processed = {})
  BY DEF Inv, TypeInv, TypeOK, Places
<1>2. CASE Advance
  <2>1. now' \in 0 .. MaxTime /\ UNCHANGED <<received, opened, seeds, reg, batches, room, pc, metas, processed, strayed, late>>
    BY <1>1, <1>2, BoundsAssumption DEF Advance, server, flush
  <2> QED  BY <1>1, <2>1, QuietStep
<1>3. ASSUME NEW c \in Orders, Enqueue(c) PROVE Inv'
  <2>1. UNCHANGED <<now, seeds, reg, batches, room, pc, metas, processed, strayed, late>>
    BY <1>3 DEF Enqueue, flush
  <2>2. received' \in 0 .. MaxOrders
    BY <1>1, <1>3, BoundsAssumption DEF Enqueue
  <2>3. opened' \in Seq(Orders) /\ Len(opened') <= Capacity
    <3>1. CASE WriteAvailable
      <4>1. opened' = Append(opened, c) /\ Len(opened) < Capacity
        BY <1>3, <3>1 DEF Enqueue, WriteAvailable
      <4> QED  BY <1>1, <4>1, CapacityAssumption
    <3>2. CASE ~WriteAvailable
      BY <1>1, <1>3, <3>2 DEF Enqueue
    <3> QED  BY <3>1, <3>2
  <2> QED  BY <1>1, <2>1, <2>2, <2>3, QuietStep
<1>4. CASE HangInRetire
  BY <1>1, <1>4, QuietStep DEF HangInRetire, server, Places
<1>5. CASE OutOfMemory
  BY <1>1, <1>5, QuietStep DEF OutOfMemory, server, Places
<1>6. CASE DieOnMalformed
  BY <1>1, <1>6, QuietStep DEF DieOnMalformed, server, Places
<1>7. CASE Drained
  BY <1>1, <1>7, QuietStep DEF Drained, server, Places
<1>8. CASE FlushDone
  BY <1>1, <1>8, QuietStep DEF FlushDone, server, Places
<1>9. CASE UNCHANGED vars
  BY <1>1, <1>9, QuietStep DEF vars, server, flush
<1>10. CASE StrayWrite
  BY <1>1, <1>10, QuietStep DEF StrayWrite, Running, server, Places
<1> QED  BY <1>2, <1>3, <1>4, <1>5, <1>6, <1>7, <1>8, <1>9, <1>10

\* A contract more: the batches hold what they held, and what is new has a meta.
LEMMA PopStep == ASSUME Inv, PopContract PROVE Inv'
<1> DEFINE c == Head(opened)
           r == Register(reg, c)
           e == IdOf(r, c.symbol, c.expiry)
           x == Meta(c, r)
<1>1. /\ pc = "drain" /\ opened # <<>> /\ c.expiry # Malformed
      /\ opened' = Tail(opened) /\ reg' = r
      /\ metas' = IF Exists(reg, c) THEN metas ELSE Append(metas, x)
      /\ UNCHANGED <<now, received, seeds, batches, room, pc, processed, strayed, late>>
  BY DEF PopContract, MetasWith
<1>2. c \in Orders /\ c \in Contracts /\ opened' \in Seq(Orders) /\ Len(opened') <= Capacity
  BY <1>1, CapacityAssumption DEF Inv, TypeInv, TypeOK, Contracts
<1>3. c.symbol \in Symbols /\ StoredKey(c) \in Key
  BY <1>1, <1>2, ContractType
<1>0. r = Register(reg, c) /\ e = IdOf(r, c.symbol, c.expiry) /\ x = Meta(c, r)
  OBVIOUS
<1> HIDE DEF c, r, e, x
<1>4. Registered(c, r, e)
  BY <1>0, <1>1, <1>2, RegisterFacts DEF Inv, TypeInv
<1> USE DEF Registered
<1>5. /\ WellFormed(reg) /\ metas \in Seq(MetaType)
      /\ \A s \in Symbols : /\ reg.expiries[s] \in Seq(Nat) /\ r.expiries[s] \in Seq(Nat)
                            /\ reg.contracts[s] \in Seq(Seq(Key)) /\ r.contracts[s] \in Seq(Seq(Key))
                            /\ DOMAIN reg.contracts[s] = DOMAIN reg.expiries[s]
                            /\ DOMAIN r.contracts[s] = DOMAIN r.expiries[s]
  BY <1>4 DEF Inv, TypeInv, WellFormed, RegistryType
<1>6. \A s \in Symbols : \A i \in DOMAIN reg.contracts[s] : i \in DOMAIN r.contracts[s]
  <2> SUFFICES ASSUME NEW s \in Symbols, NEW i \in DOMAIN reg.contracts[s]
               PROVE  i \in DOMAIN r.expiries[s]
    BY <1>5
  <2>1. i \in 1 .. Len(reg.expiries[s]) /\ Len(reg.expiries[s]) <= Len(r.expiries[s])
    BY <1>4, <1>5
  <2>2. DOMAIN r.expiries[s] = 1 .. Len(r.expiries[s]) /\ Len(r.expiries[s]) \in Nat
        /\ Len(reg.expiries[s]) \in Nat
    BY <1>5
  <2> QED  BY <2>1, <2>2
\* The list of every slice, before and after.
<1>7. \A s \in Symbols : \A i \in DOMAIN reg.contracts[s] :
        /\ DOMAIN reg.contracts[s][i] \subseteq DOMAIN r.contracts[s][i]
        /\ ToSet(reg.contracts[s][i]) \subseteq ToSet(r.contracts[s][i])
        /\ \A j \in DOMAIN r.contracts[s][i] :
             \/ j \in DOMAIN reg.contracts[s][i] /\ r.contracts[s][i][j] = reg.contracts[s][i][j]
             \/ ~Exists(reg, c) /\ x = At(s, i, j)
  <2> SUFFICES ASSUME NEW s \in Symbols, NEW i \in DOMAIN reg.contracts[s],
                      r.contracts[s][i] # reg.contracts[s][i]
               PROVE  /\ DOMAIN reg.contracts[s][i] \subseteq DOMAIN r.contracts[s][i]
                      /\ ToSet(reg.contracts[s][i]) \subseteq ToSet(r.contracts[s][i])
                      /\ \A j \in DOMAIN r.contracts[s][i] :
                           \/ /\ j \in DOMAIN reg.contracts[s][i]
                              /\ r.contracts[s][i][j] = reg.contracts[s][i][j]
                           \/ ~Exists(reg, c) /\ x = At(s, i, j)
    OBVIOUS
  <2> DEFINE q == reg.contracts[s][i]
             p == r.contracts[s][i]
             k == StoredKey(c)
  <2>1. s = c.symbol /\ i = e /\ ~Exists(reg, c)
    BY <1>4, <1>6
  <2>2. p = Append(q, k) /\ q \in Seq(Key)
    BY <1>4, <1>5, <2>1
  <2>3. /\ Len(q) \in Nat /\ DOMAIN q = 1 .. Len(q)
        /\ DOMAIN p = 1 .. (Len(q) + 1) /\ Len(p) = Len(q) + 1
        /\ \A j \in DOMAIN q : p[j] = q[j]
    <3> HIDE DEF q, p, k
    <3> QED  BY <2>2
  <2>4. x = At(s, i, Len(p))
    BY <1>0, <2>1 DEF Meta, At
  <2>5. ToSet(p) = ToSet(q) \cup {k}
    <3> HIDE DEF q, p, k
    <3> QED  BY <2>2, SetOfAppend
  <2> HIDE DEF q, p, k
  <2>6. \A j \in DOMAIN p : (j \in DOMAIN q /\ p[j] = q[j]) \/ x = At(s, i, j)
    BY <2>3, <2>4
  <2>7. DOMAIN q \subseteq DOMAIN p
    BY <2>3
  <2> QED  BY <2>1, <2>5, <2>6, <2>7 DEF q, p
<1>8. ~Exists(reg, c) => x \in MetaType /\ Names(x, r) /\ x.symbol = c.symbol /\ x.expiry = e
  <2> SUFFICES ASSUME ~Exists(reg, c)
               PROVE  x \in MetaType /\ Names(x, r) /\ x.symbol = c.symbol /\ x.expiry = e
    OBVIOUS
  <2> DEFINE p == r.contracts[c.symbol][e]
  <2>1. x = [symbol |-> c.symbol, expiry |-> e, contract |-> Len(p)]
    BY <1>0 DEF Meta
  <2>2. e \in Nat /\ p \in Seq(Key)
    BY <1>3, <1>4, <1>5
  <2> DEFINE q == IF e \in DOMAIN reg.contracts[c.symbol]
                  THEN reg.contracts[c.symbol][e] ELSE <<>>
  <2>5. p = Append(q, StoredKey(c)) /\ q \in Seq(Key)
    BY <1>3, <1>4, <1>5
  <2>3. p # <<>>
    <3> HIDE DEF p, q
    <3> QED  BY <2>5
  <2>4. Len(p) \in Nat /\ Len(p) \in DOMAIN p
    <3> HIDE DEF p
    <3> QED  BY <2>2, <2>3
  <2> QED  BY <1>3, <1>4, <2>1, <2>2, <2>4 DEF MetaType, Names
<1>9. /\ metas' \in Seq(MetaType)
      /\ \A j \in DOMAIN metas : j \in DOMAIN metas' /\ metas'[j] = metas[j]
      /\ \A j \in DOMAIN metas' :
           \/ \E i \in DOMAIN metas : metas'[j] = metas[i]
           \/ ~Exists(reg, c) /\ metas'[j] = x
      /\ ~Exists(reg, c) => \E j \in DOMAIN metas' : metas'[j] = x
  <2>1. CASE Exists(reg, c)
    BY <1>1, <1>5, <2>1
  <2>2. CASE ~Exists(reg, c)
    BY <1>1, <1>5, <1>8, <2>2, AddMeta
  <2> QED  BY <2>1, <2>2
<1>10. \A y : HasMeta(y) => HasMeta(y)'
  BY <1>9 DEF HasMeta
<1>11. \A j \in DOMAIN metas' : Names(metas'[j], r)
  <2>1. \A y \in MetaType : Names(y, reg) => Names(y, r)
    BY <1>6, <1>7 DEF Names, MetaType
  <2>2. \A j \in DOMAIN metas : metas[j] \in MetaType /\ Names(metas[j], reg)
    BY <1>5 DEF Inv, TypeInv
  <2> QED  BY <1>8, <1>9, <2>1, <2>2
<1>12. TypeInv'
  <2>1. /\ r.expiries \in [Symbols -> Seq(Nat)]
        /\ r.contracts \in [Symbols -> Seq(Seq(Key))]
        /\ r.queue \in [Symbols -> SUBSET Nat]
    BY <1>4 DEF WellFormed, RegistryType
  <2>2. \A s \in Symbols : \A i \in DOMAIN batches[s] :
          i \in DOMAIN r.expiries[s] /\ batches[s][i] \in Seq(Key)
    BY <1>5, <1>6 DEF Inv, TypeInv, TypeOK
  <2>3. TypeOK'
    BY <1>1, <1>2, <1>11, <2>1, <2>2 DEF Inv, TypeInv, TypeOK, Names
  <2> QED  BY <1>1, <1>4, <1>9, <1>11, <2>3 DEF Inv, TypeInv
<1>13. SliceInv'
  <2> SUFFICES ASSUME NEW s \in Symbols, NEW i \in DOMAIN batches[s]
               PROVE  /\ ToSet(batches[s][i]) \subseteq ToSet(r.contracts[s][i])
                      /\ \/ <<s, i>> \in Overran
                         \/ \A j \in DOMAIN r.contracts[s][i] :
                              \/ r.contracts[s][i][j] \in ToSet(batches[s][i])
                              \/ HasMeta(At(s, i, j))'
    BY <1>1 DEF Inv, TypeInv, SliceInv, Whole, Overran
  <2>1. i \in DOMAIN reg.contracts[s]
    BY <1>5 DEF Inv, TypeInv, TypeOK
  <2>2. ToSet(batches[s][i]) \subseteq ToSet(r.contracts[s][i])
    BY <1>7, <2>1 DEF Inv, SliceInv
  <2>3. ASSUME <<s, i>> \notin Overran, NEW j \in DOMAIN r.contracts[s][i]
        PROVE  r.contracts[s][i][j] \in ToSet(batches[s][i]) \/ HasMeta(At(s, i, j))'
    <3>1. CASE j \in DOMAIN reg.contracts[s][i] /\ r.contracts[s][i][j] = reg.contracts[s][i][j]
      BY <1>10, <2>3, <3>1 DEF Inv, SliceInv, Whole
    <3>2. CASE ~Exists(reg, c) /\ x = At(s, i, j)
      BY <1>9, <3>2 DEF HasMeta
    <3> QED  BY <1>7, <2>1, <2>3, <3>1, <3>2
  <2> QED  BY <2>2, <2>3
<1>14. ServeInv'
  <2> SUFFICES ASSUME NEW s \in Symbols \ strayed, NEW i \in DOMAIN r.expiries[s]
               PROVE  Served(s, i)'
    BY <1>1 DEF ServeInv
  <2>1. CASE i \in DOMAIN reg.expiries[s]
    <3>1. Served(s, i)
      BY <1>1, <2>1 DEF Inv, ServeInv
    <3>2. r.expiries[s][i] = reg.expiries[s][i]
      BY <1>4, <2>1
    <3>3. r.expiries[s][i] \in r.queue[s] <=> reg.expiries[s][i] \in reg.queue[s]
      BY <1>4, <2>1, <3>2 DEF ToSet
    <3>4. PendingSlice(s, i) => PendingSlice(s, i)'
      BY <1>9 DEF PendingSlice
    <3> QED  BY <1>1, <3>1, <3>2, <3>3, <3>4 DEF Served
  <2>2. CASE i \notin DOMAIN reg.expiries[s]
    <3>1. i \notin DOMAIN reg.contracts[s] /\ i \in DOMAIN r.contracts[s]
      BY <1>5, <2>2
    <3>2. s = c.symbol /\ i = e
      BY <1>4, <3>1
    <3>3. ~Exists(reg, c)
      BY <1>4, <3>1
    <3>4. PendingSlice(s, i)'
      BY <1>8, <1>9, <3>2, <3>3 DEF PendingSlice
    <3>5. i \notin DOMAIN batches[s]
      BY <2>2 DEF Inv, TypeInv, TypeOK
    <3> QED  BY <1>1, <3>4, <3>5 DEF Served
  <2> QED  BY <2>1, <2>2
<1> QED  BY <1>12, <1>13, <1>14 DEF Inv

\* Before the threads start: every expiry awaits its retirement.
LEMMA AddSeedStep == ASSUME Inv, AddSeed PROVE Inv'
<1> DEFINE c == Head(seeds)
           r == Register(reg, c)
           e == IdOf(r, c.symbol, c.expiry)
<1>1. /\ pc = "boot" /\ seeds # <<>> /\ seeds' = Tail(seeds) /\ reg' = r
      /\ UNCHANGED <<now, received, opened, batches, room, pc, metas, processed, strayed, late>>
  BY DEF AddSeed, server
<1>2. seeds \in Seq(ToSet(Seeds)) /\ c \in ToSet(Seeds) /\ seeds' \in Seq(ToSet(Seeds))
  BY <1>1 DEF Inv, TypeInv, TypeOK
<1>3. c \in Contracts /\ c.expiry # Malformed
  BY <1>2, SeedsAssumption DEF Contracts, ToSet, Malformed
<1>4. r = Register(reg, c) /\ e = IdOf(r, c.symbol, c.expiry)
  OBVIOUS
<1> HIDE DEF c, r, e
<1>5. Registered(c, r, e)
  BY <1>3, <1>4, RegisterFacts DEF Inv, TypeInv
<1>6. metas = <<>> /\ DOMAIN metas = {} /\ processed = {}
      /\ \A s \in Symbols : batches[s] = <<>> /\ DOMAIN batches[s] = {}
  BY <1>1 DEF Inv, TypeInv, ServeInv
<1>7. TypeInv'
  <2>1. /\ r.expiries \in [Symbols -> Seq(Nat)]
        /\ r.contracts \in [Symbols -> Seq(Seq(Key))]
        /\ r.queue \in [Symbols -> SUBSET Nat]
    BY <1>5 DEF Registered, WellFormed, RegistryType
  <2>2. TypeOK'
    BY <1>1, <1>2, <1>6, <2>1 DEF Inv, TypeInv, TypeOK
  <2>3. WellFormed(r)
    BY <1>5 DEF Registered
  <2> QED  BY <1>1, <1>6, <2>2, <2>3 DEF Inv, TypeInv
<1>8. SliceInv'
  BY <1>1, <1>6 DEF SliceInv
<1>9. ServeInv'
  <2> SUFFICES ASSUME NEW s \in Symbols PROVE r.queue[s] = ToSet(r.expiries[s])
    BY <1>1, <1>6 DEF ServeInv
  <2>1. reg.queue[s] = ToSet(reg.expiries[s]) /\ reg.expiries[s] \in Seq(Nat)
    BY <1>1 DEF Inv, ServeInv, TypeInv, TypeOK
  <2>2. CASE r.queue[s] = reg.queue[s] /\ r.expiries[s] = reg.expiries[s]
    BY <2>1, <2>2
  <2>3. CASE /\ r.expiries[s] = Append(reg.expiries[s], c.expiry)
             /\ r.queue[s] = reg.queue[s] \cup {c.expiry}
    BY <2>1, <2>3, SetOfAppend
  <2> QED  BY <1>5, <2>2, <2>3 DEF Registered
<1> QED  BY <1>7, <1>8, <1>9 DEF Inv

\* A batch belongs to a known expiry.
LEMMA BatchesTyped ==
  ASSUME Inv, NEW s \in Symbols
  PROVE  /\ DOMAIN reg.contracts[s] = DOMAIN reg.expiries[s]
         /\ \A e \in DOMAIN batches[s] :
              /\ e \in DOMAIN reg.expiries[s] /\ batches[s][e] \in Seq(Key)
              /\ <<s, e>> \in DOMAIN room
<1>1. reg.expiries[s] \in Seq(Nat) /\ reg.contracts[s] \in Seq(Seq(Key))
      /\ Len(reg.contracts[s]) = Len(reg.expiries[s])
  BY DEF Inv, TypeInv, WellFormed, RegistryType
<1>2. DOMAIN reg.contracts[s] = DOMAIN reg.expiries[s]
  BY <1>1
<1>3. ASSUME NEW e \in DOMAIN batches[s]
      PROVE  e \in DOMAIN reg.expiries[s] /\ batches[s][e] \in Seq(Key) /\ <<s, e>> \in DOMAIN room
  BY DEF Inv, TypeInv, TypeOK
<1> QED  BY <1>2, <1>3

LEMMA HeadroomTyped ==
  ASSUME NEW n \in Nat
  PROVE  Headroom(n) \in Nat
BY HeadroomAssumption DEF Headroom

LEMMA BuildBatchesStep == ASSUME Inv, BuildBatches PROVE Inv'
<1>1. /\ pc = "boot" /\ batches' = reg.contracts /\ pc' = "idle"
      /\ room' = [x \in UNION {{s} \X DOMAIN reg.contracts[s] : s \in Symbols} |->
                    Headroom(Len(reg.contracts[x[1]][x[2]]))]
      /\ UNCHANGED <<now, received, opened, seeds, reg, metas, processed, strayed, late>>
  BY DEF BuildBatches, server
<1>2. /\ metas = <<>> /\ DOMAIN metas = {} /\ processed = {}
      /\ reg.contracts \in [Symbols -> Seq(Seq(Key))]
      /\ \A s \in Symbols : DOMAIN reg.contracts[s] = DOMAIN reg.expiries[s]
  BY <1>1 DEF Inv, TypeInv, WellFormed, RegistryType
<1>3. TypeInv'
  <2>1. \A s \in Symbols : \A e \in DOMAIN reg.contracts[s] : reg.contracts[s][e] \in Seq(Key)
    BY <1>2
  <2>3. ASSUME NEW s \in Symbols, NEW e \in DOMAIN reg.contracts[s]
        PROVE  /\ <<s, e>> \in DOMAIN room' /\ room'[<<s, e>>] \in Int
               /\ <<s, e>> \in Symbols \X Nat
    <3>1. Headroom(Len(reg.contracts[s][e])) \in Int
      <4> DEFINE n == Len(reg.contracts[s][e])
      <4>1. n \in Nat
        BY <2>1
      <4> HIDE DEF n
      <4> QED  BY <4>1, HeadroomTyped DEF n
    <3>2. e \in Nat
      BY <1>2
    <3> QED  BY <1>1, <3>1, <3>2
  <2>4. \A x \in DOMAIN room' :
          \E s \in Symbols : \E e \in DOMAIN reg.contracts[s] : x = <<s, e>>
    BY <1>1
  <2>5. \A x \in DOMAIN room' : x \in Symbols \X Nat /\ room'[x] \in Int
    BY <2>3, <2>4
  <2>2. TypeOK'
    BY <1>1, <1>2, <2>1, <2>3, <2>5 DEF Inv, TypeInv, TypeOK
  <2> QED  BY <1>1, <1>2, <2>2 DEF Inv, TypeInv
<1>4. SliceInv'
  BY <1>1, <1>2 DEF SliceInv, Whole, ToSet
<1>5. ServeInv'
  BY <1>1, <1>2 DEF Inv, ServeInv, Served, ToSet
<1> QED  BY <1>3, <1>4, <1>5 DEF Inv

-----------------------------------------------------------------------------
\* What a retirement leaves, and why what it takes is gone.
LEMMA RetireFacts ==
  ASSUME Inv, Retire
  PROVE  /\ pc = "idle" /\ pc' = "drain"
         /\ UNCHANGED <<now, received, opened, seeds, room, metas, processed, late>>
         /\ DOMAIN batches' = Symbols
         /\ strayed' = strayed \cup {s \in Symbols : StaleDue(s) # {}}
         /\ reg' = [expiries |-> reg.expiries, contracts |-> reg.contracts, queue |-> reg'.queue]
         /\ \A s \in Symbols :
              /\ reg'.queue[s] = reg.queue[s] \ Due(s)
              /\ DOMAIN batches'[s] \subseteq DOMAIN batches[s]
              /\ \A e \in DOMAIN batches'[s] : batches'[s][e] = batches[s][e]
              /\ StaleDue(s) = {} => DOMAIN batches'[s] = DOMAIN batches[s] \ DueIds(s)
         /\ reg'.queue \in [Symbols -> SUBSET Nat]
<1>1. /\ pc = "idle" /\ pc' = "drain"
      /\ UNCHANGED <<now, received, opened, seeds, room, metas, processed, late>>
      /\ strayed' = strayed \cup {s \in Symbols : StaleDue(s) # {}}
      /\ reg' = [reg EXCEPT !.queue = [s \in Symbols |-> reg.queue[s] \ Due(s)]]
  BY DEF Retire, server
<1>2. PICK stray \in [Symbols -> SUBSET UNION {DOMAIN batches[s] : s \in Symbols}] :
        /\ \A s \in Symbols :
             /\ stray[s] \subseteq DOMAIN batches[s]
             /\ Cardinality(stray[s]) <= Cardinality(StaleDue(s))
        /\ batches' = [s \in Symbols |->
             Restrict(batches[s],
                      DOMAIN batches[s] \ ((DueIds(s) \ StaleDue(s)) \cup stray[s]))]
  BY DEF Retire
<1>3. \A s \in Symbols :
        /\ DOMAIN batches'[s] = DOMAIN batches[s] \ ((DueIds(s) \ StaleDue(s)) \cup stray[s])
        /\ \A e \in DOMAIN batches'[s] : batches'[s][e] = batches[s][e]
  BY <1>2 DEF Restrict
<1>4. ASSUME NEW s \in Symbols, StaleDue(s) = {}
      PROVE  stray[s] = {}
  <2>1. DOMAIN batches[s] \subseteq 1 .. Len(reg.expiries[s]) /\ Len(reg.expiries[s]) \in Nat
    <3> DEFINE q == reg.expiries[s]
    <3>1. q \in Seq(Nat)
      BY DEF Inv, TypeInv, TypeOK
    <3>2. \A e \in DOMAIN batches[s] : e \in DOMAIN q
      BY BatchesTyped
    <3> HIDE DEF q
    <3>3. DOMAIN q = 1 .. Len(q) /\ Len(q) \in Nat
      BY <3>1
    <3> QED  BY <3>2, <3>3 DEF q
  <2>2. IsFiniteSet(1 .. Len(reg.expiries[s]))
    <3> DEFINE n == Len(reg.expiries[s])
    <3>1. n \in Int /\ 1 \in Int
      BY <2>1
    <3> HIDE DEF n
    <3>2. IsFiniteSet(1 .. n)
      BY <3>1, FS_Interval, Zenon
    <3> QED  BY <3>2 DEF n
  <2>3. stray[s] \in SUBSET (1 .. Len(reg.expiries[s]))
    BY <1>2, <2>1
  <2>4. IsFiniteSet(stray[s])
    BY <2>2, <2>3, FS_Subset
  <2>5. Cardinality(stray[s]) \in Nat
    BY <2>4, FS_CardinalityType
  <2>6. Cardinality(stray[s]) <= 0
    BY <1>2, <1>4, FS_EmptySet
  <2> QED  BY <2>4, <2>5, <2>6, FS_EmptySet
<1>5. /\ reg.queue \in [Symbols -> SUBSET Nat]
      /\ reg = [expiries |-> reg.expiries, contracts |-> reg.contracts, queue |-> reg.queue]
  BY DEF Inv, TypeInv, WellFormed, RegistryType
<1>6. /\ reg'.queue = [s \in Symbols |-> reg.queue[s] \ Due(s)]
      /\ reg' = [expiries |-> reg.expiries, contracts |-> reg.contracts, queue |-> reg'.queue]
  BY <1>1, <1>5
<1>7. reg'.queue \in [Symbols -> SUBSET Nat]
  BY <1>5, <1>6
<1> QED  BY <1>1, <1>2, <1>3, <1>4, <1>6, <1>7

LEMMA RetireStep == ASSUME Inv, Retire PROVE Inv'
<1>1. /\ metas = <<>> /\ metas' = <<>> /\ DOMAIN metas = {} /\ processed = {} /\ processed' = {}
  BY RetireFacts DEF Inv, TypeInv
<1>2. reg'.expiries = reg.expiries /\ reg'.contracts = reg.contracts
  BY RetireFacts
<1>3. TypeInv'
  <2>1. WellFormed(reg')
    BY <1>2, RetireFacts DEF Inv, TypeInv, WellFormed, RegistryType
  <2>2. \A s \in Symbols : \A e \in DOMAIN batches'[s] :
          e \in DOMAIN reg.expiries[s] /\ batches'[s][e] \in Seq(Key)
    BY RetireFacts DEF Inv, TypeInv, TypeOK
  <2>3. TypeOK'
    BY <1>1, <1>2, <2>2, RetireFacts DEF Inv, TypeInv, TypeOK
  <2> QED  BY <1>1, <2>1, <2>3, RetireFacts DEF Inv, TypeInv
<1>4. SliceInv'
  <2> SUFFICES ASSUME NEW s \in Symbols, NEW e \in DOMAIN batches'[s]
               PROVE  /\ ToSet(batches'[s][e]) \subseteq ToSet(reg'.contracts[s][e])
                      /\ <<s, e>> \in Overran' \/ Whole(s, e)'
    BY DEF SliceInv
  <2>1. e \in DOMAIN batches[s] /\ batches'[s][e] = batches[s][e]
    BY RetireFacts
  <2>2. Overran' = Overran
    BY RetireFacts DEF Overran
  <2>3. Whole(s, e)' <=> Whole(s, e)
    BY <1>1, <1>2, <2>1 DEF Whole, HasMeta
  <2> QED  BY <1>2, <2>1, <2>2, <2>3 DEF Inv, SliceInv
<1>5. ServeInv'
  <2> SUFFICES ASSUME NEW s \in Symbols \ strayed', NEW e \in DOMAIN reg.expiries[s]
               PROVE  Served(s, e)'
    BY <1>2, RetireFacts DEF ServeInv
  <2>1. Served(s, e) /\ ~PendingSlice(s, e)
    BY <1>1, RetireFacts DEF Inv, ServeInv, PendingSlice
  <2>2. DOMAIN batches'[s] = DOMAIN batches[s] \ DueIds(s) /\ reg'.queue[s] = reg.queue[s] \ Due(s)
    BY RetireFacts
  <2>3. e \in DueIds(s) <=> reg.expiries[s][e] \in Due(s)
    BY DEF DueIds
  <2> QED  BY <1>2, <2>1, <2>2, <2>3, RetireFacts DEF Served
<1> QED  BY <1>3, <1>4, <1>5 DEF Inv

-----------------------------------------------------------------------------
\* A contract is placed.  What a step may do to the batches of the slices: keep
\* one, build that of the contract's slice from the registry, or add the contract.
LEMMA PlaceStep ==
  ASSUME Inv, NextMeta,
         processed' = processed \/ processed' = processed \cup {Slice},
         DOMAIN batches' = Symbols,
         \A s \in Symbols :
           /\ DOMAIN batches[s] \subseteq DOMAIN batches'[s]
           /\ DOMAIN batches'[s] \subseteq
                DOMAIN batches[s] \cup {e \in {m.expiry} : s = m.symbol}
           /\ s = m.symbol => m.expiry \in DOMAIN batches'[s]
           /\ \A e \in DOMAIN batches'[s] :
                \/ /\ e \in DOMAIN batches[s]
                   /\ batches'[s][e] = batches[s][e]
                   /\ <<s, e>> \in processed' => <<s, e>> \in processed
                   /\ <<s, e>> \in Overran => <<s, e>> \in Overran'
                   /\ <<s, e>> = Slice =>
                        ThisContract \in ToSet(batches[s][e]) \/ Slice \in Overran'
                \/ batches'[s][e] = reg.contracts[s][e]
                \/ /\ e \in DOMAIN batches[s]
                   /\ <<s, e>> = Slice
                   /\ batches'[s][e] = Append(batches[s][e], ThisContract)
                   /\ Slice \notin Overran
                   /\ processed' = processed,
         DOMAIN room' = DOMAIN room \cup {Slice},
         \A x \in DOMAIN room' : room'[x] \in Int
  PROVE  Inv'
<1>1. /\ pc = "place" /\ pc' = "place" /\ metas # <<>> /\ metas' = Tail(metas)
      /\ late' = IF reg.expiries[m.symbol][m.expiry] \in reg.queue[m.symbol]
                 THEN late ELSE late \cup {Slice}
      /\ UNCHANGED <<now, received, opened, seeds, reg, strayed>>
  BY DEF NextMeta, server
<1>2. /\ m \in MetaType /\ m = metas[1] /\ 1 \in DOMAIN metas
      /\ metas' \in Seq(MetaType)
      /\ \A j \in DOMAIN metas' : \E i \in DOMAIN metas : metas'[j] = metas[i]
      /\ \A j \in DOMAIN metas : metas[j] = m \/ \E i \in DOMAIN metas' : metas'[i] = metas[j]
  BY <1>1, TakeMeta DEF Inv, TypeInv
<1>3. Names(m, reg) /\ m.symbol \in Symbols /\ m.expiry \in Nat /\ Slice \in Symbols \X Nat
  BY <1>2 DEF Inv, TypeInv, MetaType, Slice
<1>4. /\ \A s \in Symbols : DOMAIN reg.contracts[s] = DOMAIN reg.expiries[s]
      /\ \A s \in Symbols : \A e \in DOMAIN reg.contracts[s] : reg.contracts[s][e] \in Seq(Key)
      /\ reg.contracts \in [Symbols -> Seq(Seq(Key))]
  BY DEF Inv, TypeInv, WellFormed, RegistryType
<1>5. ThisContract \in ToSet(reg.contracts[m.symbol][m.expiry]) /\ ThisContract \in Key
  <2>1. m.expiry \in DOMAIN reg.contracts[m.symbol]
        /\ m.contract \in DOMAIN reg.contracts[m.symbol][m.expiry]
    BY <1>3 DEF Names
  <2>2. reg.contracts[m.symbol][m.expiry] \in Seq(Key)
    BY <1>3, <1>4, <2>1
  <2> QED  BY <2>1, <2>2 DEF ThisContract, ToSet
<1>6. ASSUME NEW s \in Symbols, NEW e \in DOMAIN batches'[s]
      PROVE  /\ e \in DOMAIN reg.contracts[s]
             /\ e \in DOMAIN batches[s] =>
                  batches[s][e] \in Seq(Key) /\ e \in DOMAIN reg.contracts[s]
  <2>1. e \in DOMAIN batches[s] =>
          batches[s][e] \in Seq(Key) /\ e \in DOMAIN reg.contracts[s]
    BY <1>4 DEF Inv, TypeInv, TypeOK
  <2>2. s = m.symbol /\ e = m.expiry => e \in DOMAIN reg.contracts[s]
    BY <1>3 DEF Names
  <2> QED  BY <2>1, <2>2
<1>7. ASSUME NEW s \in Symbols, NEW e \in DOMAIN batches'[s],
             batches'[s][e] = Append(batches[s][e], ThisContract), e \in DOMAIN batches[s]
      PROVE  ToSet(batches'[s][e]) = ToSet(batches[s][e]) \cup {ThisContract}
  BY <1>6, <1>7, SetOfAppend
<1>8. TypeInv'
  <2>1. \A s \in Symbols : \A e \in DOMAIN batches'[s] :
          e \in DOMAIN reg.expiries[s] /\ batches'[s][e] \in Seq(Key)
    <3> SUFFICES ASSUME NEW s \in Symbols, NEW e \in DOMAIN batches'[s]
                 PROVE  e \in DOMAIN reg.expiries[s] /\ batches'[s][e] \in Seq(Key)
      OBVIOUS
    <3>1. e \in DOMAIN reg.expiries[s]
      BY <1>4, <1>6
    <3>2. reg.contracts[s][e] \in Seq(Key)
      BY <1>4, <1>6
    <3>3. e \in DOMAIN batches[s] =>
            batches[s][e] \in Seq(Key) /\ Append(batches[s][e], ThisContract) \in Seq(Key)
      BY <1>5, <1>6
    <3> QED  BY <3>1, <3>2, <3>3
  <2>2. \A j \in DOMAIN metas' : Names(metas'[j], reg)
    BY <1>2 DEF Inv, TypeInv
  <2>3. late' \subseteq Symbols \X Nat /\ processed' \subseteq Symbols \X Nat
    BY <1>1, <1>3 DEF Inv, TypeInv, TypeOK
  <2>5. \A s \in Symbols : \A e \in DOMAIN batches'[s] : <<s, e>> \in DOMAIN room'
    BY DEF Inv, TypeInv, TypeOK, Slice
  <2>6. \A x \in DOMAIN room' : x \in Symbols \X Nat
    BY <1>3 DEF Inv, TypeInv, TypeOK
  <2>4. TypeOK'
    BY <1>1, <2>1, <2>2, <2>3, <2>5, <2>6 DEF Inv, TypeInv, TypeOK, Names
  <2> QED  BY <1>1, <1>2, <2>2, <2>4 DEF Inv, TypeInv
<1>9. SliceInv'
  <2> SUFFICES ASSUME NEW s \in Symbols, NEW e \in DOMAIN batches'[s]
               PROVE  /\ ToSet(batches'[s][e]) \subseteq ToSet(reg.contracts[s][e])
                      /\ \/ <<s, e>> \in Overran'
                         \/ /\ \A i \in DOMAIN reg.contracts[s][e] :
                                 \/ reg.contracts[s][e][i] \in ToSet(batches'[s][e])
                                 \/ HasMeta(At(s, e, i))'
                            /\ <<s, e>> \in processed' =>
                                 ToSet(reg.contracts[s][e]) \subseteq ToSet(batches'[s][e])
    BY <1>1 DEF SliceInv, Whole
  <2>1. CASE batches'[s][e] = reg.contracts[s][e]
    BY <2>1 DEF ToSet
  <2> DEFINE p == batches'[s][e]
  <2>2. ASSUME e \in DOMAIN batches[s],
               ToSet(batches[s][e]) \subseteq ToSet(p),
               ToSet(p) \subseteq ToSet(batches[s][e]) \cup {ThisContract},
               <<s, e>> = Slice => ThisContract \in ToSet(p) \/ Slice \in Overran',
               ToSet(p) = ToSet(batches[s][e]) \/ <<s, e>> = Slice,
               <<s, e>> \in Overran => <<s, e>> \in Overran',
               <<s, e>> \in processed' => <<s, e>> \in processed
        PROVE  /\ ToSet(p) \subseteq ToSet(reg.contracts[s][e])
               /\ \/ <<s, e>> \in Overran'
                  \/ /\ \A i \in DOMAIN reg.contracts[s][e] :
                          reg.contracts[s][e][i] \in ToSet(p) \/ HasMeta(At(s, e, i))'
                     /\ <<s, e>> \in processed' => ToSet(reg.contracts[s][e]) \subseteq ToSet(p)
    <3> HIDE DEF p
    <3>1. ToSet(batches[s][e]) \subseteq ToSet(reg.contracts[s][e])
      BY <2>2 DEF Inv, SliceInv
    <3>2. <<s, e>> = Slice => s = m.symbol /\ e = m.expiry
      BY DEF Slice
    <3>3. ToSet(p) \subseteq ToSet(reg.contracts[s][e])
      BY <1>5, <2>2, <3>1, <3>2
    <3>6. <<s, e>> \notin Overran' => Whole(s, e)
      BY <2>2 DEF Inv, SliceInv
    <3>4. ASSUME <<s, e>> \notin Overran', NEW i \in DOMAIN reg.contracts[s][e]
          PROVE  reg.contracts[s][e][i] \in ToSet(p) \/ HasMeta(At(s, e, i))'
      <4>1. CASE reg.contracts[s][e][i] \in ToSet(batches[s][e])
        BY <2>2, <4>1
      <4>2. CASE At(s, e, i) = m
        <5>1. m.symbol = s /\ m.expiry = e /\ m.contract = i
          BY <4>2 DEF At
        <5> QED  BY <2>2, <3>4, <5>1 DEF ThisContract, Slice
      <4>3. CASE HasMeta(At(s, e, i)) /\ At(s, e, i) # m
        BY <1>2, <4>3 DEF HasMeta
      <4> QED  BY <3>4, <3>6, <4>1, <4>2, <4>3 DEF Whole
    <3>5. <<s, e>> \notin Overran' /\ <<s, e>> \in processed =>
            ToSet(reg.contracts[s][e]) \subseteq ToSet(batches[s][e])
      BY <3>6 DEF Whole
    <3> QED  BY <2>2, <3>3, <3>4, <3>5
  <2>3. CASE /\ e \in DOMAIN batches[s]
             /\ batches'[s][e] = batches[s][e]
             /\ <<s, e>> \in processed' => <<s, e>> \in processed
             /\ <<s, e>> \in Overran => <<s, e>> \in Overran'
             /\ <<s, e>> = Slice =>
                  ThisContract \in ToSet(batches[s][e]) \/ Slice \in Overran'
    BY <2>2, <2>3
  <2>4. CASE /\ e \in DOMAIN batches[s]
             /\ <<s, e>> = Slice
             /\ batches'[s][e] = Append(batches[s][e], ThisContract)
             /\ Slice \notin Overran
             /\ processed' = processed
    <3>1. ToSet(p) = ToSet(batches[s][e]) \cup {ThisContract}
      BY <1>7, <2>4
    <3> HIDE DEF p
    <3>2. /\ ToSet(batches[s][e]) \subseteq ToSet(p)
          /\ ToSet(p) \subseteq ToSet(batches[s][e]) \cup {ThisContract}
          /\ ThisContract \in ToSet(p)
      BY <3>1
    <3>3. <<s, e>> \in processed' => <<s, e>> \in processed
      BY <2>4
    <3> QED  BY <2>2, <2>4, <3>2, <3>3 DEF p
  <2> QED  BY <2>1, <2>3, <2>4
<1>10. ServeInv'
  <2> SUFFICES ASSUME NEW s \in Symbols \ strayed, NEW e \in DOMAIN reg.expiries[s]
               PROVE  Served(s, e)'
    BY <1>1 DEF ServeInv
  <2>1. Served(s, e)
    BY <1>1 DEF Inv, ServeInv
  <2>2. PendingSlice(s, e) => PendingSlice(s, e)' \/ (s = m.symbol /\ e = m.expiry)
    BY <1>2 DEF PendingSlice
  <2>3. late \subseteq late'
    BY <1>1
  <2>4. s = m.symbol /\ e = m.expiry =>
          reg.expiries[s][e] \in reg.queue[s] \/ <<s, e>> \in late'
    BY <1>1 DEF Slice
  <2> QED  BY <1>1, <2>1, <2>2, <2>3, <2>4 DEF Served
<1> QED  BY <1>8, <1>9, <1>10 DEF Inv

LEMMA BuildFacts ==
  ASSUME Inv, NextMeta, BuildBatch
  PROVE  /\ processed' = processed \cup {Slice}
         /\ DOMAIN batches' = Symbols
         /\ m.symbol \in Symbols
         /\ \A s \in Symbols : s # m.symbol => batches'[s] = batches[s]
         /\ DOMAIN batches'[m.symbol] = DOMAIN batches[m.symbol] \cup {m.expiry}
         /\ batches'[m.symbol][m.expiry] = reg.contracts[m.symbol][m.expiry]
         /\ \A e \in DOMAIN batches[m.symbol] :
              e # m.expiry => batches'[m.symbol][e] = batches[m.symbol][e]
         /\ DOMAIN room' = DOMAIN room \cup {Slice}
         /\ room'[Slice] \in Int
         /\ \A x \in DOMAIN room : x # Slice => room'[x] = room[x]
<1>1. DOMAIN batches = Symbols /\ m.symbol \in Symbols
  BY TakeMeta DEF NextMeta, Inv, TypeInv, MetaType
<1>2. /\ batches' = [batches EXCEPT ![m.symbol] = Put(batches[m.symbol], m.expiry, SliceContracts)]
      /\ processed' = processed \cup {Slice}
  BY DEF BuildBatch
<1>3. batches'[m.symbol] = Put(batches[m.symbol], m.expiry, SliceContracts)
  BY <1>1, <1>2
<1>4. room' = Put(room, Slice, Headroom(Len(SliceContracts)))
  BY DEF BuildBatch
<1>5. Headroom(Len(SliceContracts)) \in Int
  <2>1. SliceContracts \in Seq(Key)
    <3>1. Names(m, reg)
      BY TakeMeta DEF NextMeta, Inv, TypeInv
    <3>2. reg.contracts \in [Symbols -> Seq(Seq(Key))]
      BY DEF Inv, TypeInv, TypeOK
    <3> QED  BY <1>1, <3>1, <3>2 DEF Names, SliceContracts
  <2>2. Len(SliceContracts) \in Nat
    BY <2>1, LenProperties
  <2> QED  BY <2>2, HeadroomTyped
<1>6. /\ DOMAIN room' = DOMAIN room \cup {Slice}
      /\ room'[Slice] = Headroom(Len(SliceContracts))
      /\ \A x \in DOMAIN room : x # Slice => room'[x] = room[x]
  BY <1>4 DEF Put
<1> QED  BY <1>1, <1>2, <1>3, <1>5, <1>6 DEF Put, SliceContracts

\* The range of the batch grows, whether or not there is a slot.
LEMMA GrowFacts ==
  ASSUME Inv, GrowRange
  PROVE  /\ NextMeta /\ HasBatch /\ processed' = processed
         /\ m.symbol \in Symbols
         /\ Slice \in DOMAIN room /\ DOMAIN room' = DOMAIN room
         /\ room'[Slice] = room[Slice] - 1 /\ room[Slice] \in Int
         /\ \A x \in DOMAIN room' : room'[x] \in Int
         /\ \A x \in DOMAIN room : x # Slice => room'[x] = room[x]
<1>1. /\ NextMeta /\ HasBatch /\ processed' = processed
      /\ room' = Put(room, Slice, room[Slice] - 1)
  BY DEF GrowRange
<1>2. m.symbol \in Symbols
  BY <1>1, TakeMeta DEF NextMeta, Inv, TypeInv, MetaType
<1>3. Slice \in DOMAIN room
  BY <1>1, <1>2 DEF HasBatch, Slice, Inv, TypeInv, TypeOK
<1>4. \A x \in DOMAIN room : room[x] \in Int
  BY DEF Inv, TypeInv, TypeOK
<1>5. /\ DOMAIN room' = DOMAIN room \cup {Slice}
      /\ room'[Slice] = room[Slice] - 1
      /\ \A x \in DOMAIN room : x # Slice => room'[x] = room[x]
  BY <1>1 DEF Put
<1>6. DOMAIN room' = DOMAIN room
  BY <1>3, <1>5
<1>7. room[Slice] - 1 \in Int
  BY <1>3, <1>4
<1>8. \A x \in DOMAIN room' : room'[x] \in Int
  BY <1>4, <1>5, <1>6, <1>7
<1> QED  BY <1>1, <1>2, <1>3, <1>4, <1>5, <1>6, <1>8

LEMMA PlaceActions ==
  ASSUME Inv,
         CreateBatch \/ RecreateBatch \/ SkipContract \/ AppendContract \/ AppendPastEnds
  PROVE  Inv'
<1>1. DOMAIN batches = Symbols
  BY DEF Inv, TypeInv
<1>2. ASSUME NextMeta, BuildBatch PROVE Inv'
  <2>1. \A s \in Symbols : \A e \in DOMAIN batches'[s] :
          \/ /\ e \in DOMAIN batches[s]
             /\ batches'[s][e] = batches[s][e]
             /\ <<s, e>> # Slice
          \/ batches'[s][e] = reg.contracts[s][e]
    BY <1>2, BuildFacts DEF Slice
  <2>4. \A x \in Overran : x # Slice => x \in Overran'
    BY <1>2, BuildFacts DEF Overran
  <2>5. DOMAIN room' = DOMAIN room \cup {Slice} /\ \A x \in DOMAIN room' : room'[x] \in Int
    BY <1>2, BuildFacts DEF Inv, TypeInv, TypeOK
  <2>2. \A s \in Symbols :
          /\ DOMAIN batches[s] \subseteq DOMAIN batches'[s]
          /\ DOMAIN batches'[s] \subseteq
               DOMAIN batches[s] \cup {e \in {m.expiry} : s = m.symbol}
          /\ s = m.symbol => m.expiry \in DOMAIN batches'[s]
    BY <1>2, BuildFacts
  <2>3. processed' = processed \cup {Slice} /\ DOMAIN batches' = Symbols
    BY <1>2, BuildFacts
  <2> QED  BY <1>2, <2>1, <2>2, <2>3, <2>4, <2>5, PlaceStep
<1>3. CASE SkipContract
  <2>1. NextMeta /\ HasBatch /\ Slice \in processed /\ batches' = batches /\ processed' = processed
        /\ room' = room
    BY <1>3 DEF SkipContract
  <2>2. m.symbol \in Symbols /\ Names(m, reg)
    BY <2>1, TakeMeta DEF NextMeta, Inv, TypeInv, MetaType
  <2>3. ThisContract \in ToSet(batches[m.symbol][m.expiry]) \/ Slice \in Overran
    <3>1. \/ Slice \in Overran
          \/ ToSet(reg.contracts[m.symbol][m.expiry]) \subseteq ToSet(batches[m.symbol][m.expiry])
      BY <2>1, <2>2 DEF Inv, SliceInv, Whole, HasBatch, Slice
    <3> QED  BY <2>2, <3>1 DEF Names, ThisContract, ToSet
  <2>4. Overran' = Overran
    BY <2>1 DEF Overran
  <2>5. \A s \in Symbols : \A e \in DOMAIN batches'[s] :
          <<s, e>> = Slice => ThisContract \in ToSet(batches[s][e]) \/ Slice \in Overran'
    BY <2>3, <2>4 DEF Slice
  <2>6. DOMAIN room' = DOMAIN room \cup {Slice} /\ \A x \in DOMAIN room' : room'[x] \in Int
    BY <2>1, <2>2 DEF HasBatch, Slice, Inv, TypeInv, TypeOK
  <2> QED  BY <1>1, <2>1, <2>4, <2>5, <2>6, PlaceStep DEF HasBatch
<1>4. CASE AppendContract
  <2>1. /\ NextMeta /\ HasBatch /\ processed' = processed
        /\ batches' = [batches EXCEPT ![m.symbol][m.expiry] =
                         Append(batches[m.symbol][m.expiry], ThisContract)]
        /\ GrowRange /\ room[Slice] > 0
    BY <1>4 DEF AppendContract, GrowRange
  <2>2. m.symbol \in Symbols
    BY <2>1, GrowFacts
  <2>3. /\ DOMAIN batches' = Symbols
        /\ \A s \in Symbols : DOMAIN batches'[s] = DOMAIN batches[s]
        /\ \A s \in Symbols : \A e \in DOMAIN batches[s] :
             \/ batches'[s][e] = batches[s][e] /\ <<s, e>> # Slice
             \/ /\ <<s, e>> = Slice
                /\ batches'[s][e] = Append(batches[s][e], ThisContract)
    BY <1>1, <2>1, <2>2 DEF HasBatch, Slice
  <2>4. Slice \notin Overran /\ \A x \in Overran : x \in Overran'
    BY <2>1, GrowFacts DEF Overran
  <2>5. DOMAIN room' = DOMAIN room \cup {Slice} /\ \A x \in DOMAIN room' : room'[x] \in Int
    BY <2>1, GrowFacts
  <2> QED  BY <2>1, <2>3, <2>4, <2>5, PlaceStep DEF HasBatch
<1>5. CASE AppendPastEnds
  <2>1. /\ NextMeta /\ HasBatch /\ processed' = processed /\ batches' = batches
        /\ GrowRange /\ room[Slice] <= 0
    BY <1>5 DEF AppendPastEnds, GrowRange
  <2>2. DOMAIN room' = DOMAIN room \cup {Slice} /\ \A x \in DOMAIN room' : room'[x] \in Int
    BY <2>1, GrowFacts
  <2>3. Slice \in Overran'
    <3>1. Slice \in DOMAIN room' /\ room'[Slice] < 0
      BY <2>1, GrowFacts
    <3> QED  BY <3>1 DEF Overran, Slice, m
  <2>4. \A x \in Overran : x \in Overran'
    <3>1. \A x \in DOMAIN room : x # Slice => x \in DOMAIN room' /\ room'[x] = room[x]
      BY <2>1, GrowFacts
    <3>2. \A x \in Overran : x # Slice => x \in Overran'
      BY <3>1 DEF Overran
    <3> QED  BY <2>3, <3>2
  <2> QED  BY <1>1, <2>1, <2>2, <2>3, <2>4, PlaceStep DEF HasBatch
<1> QED  BY <1>2, <1>3, <1>4, <1>5 DEF CreateBatch, RecreateBatch

-----------------------------------------------------------------------------
LEMMA StepInv == Inv /\ [Next]_vars => Inv'
<1> SUFFICES ASSUME Inv, [Next]_vars PROVE Inv'
  OBVIOUS
<1>1. CASE Compute
  BY <1>1, AddSeedStep, BuildBatchesStep, RetireStep, PopStep, PlaceActions, QuietActions
     DEF Compute, Boot, StartFlush, Pop, Place
<1> QED  BY <1>1, QuietActions DEF Next

LEMMA Invariance == Spec => []Inv
  BY InitInv, StepInv, PTL DEF Spec

(***************************************************************************)
(* Registry, queue, batches and metas stay within their types: a batch     *)
(* belongs to a known expiry, and a pending meta names a registered        *)
(* contract, so no placement looks past the end of a list.                 *)
(***************************************************************************)
THEOREM TypeCorrect == Spec => []TypeOK
<1>1. Inv => TypeOK
  BY DEF Inv, TypeInv
<1> QED  BY <1>1, Invariance, PTL

(***************************************************************************)
(* Between flushes every batch holds what the registry holds of its slice, *)
(* unless its range has grown past its arrays.                             *)
(***************************************************************************)
THEOREM BatchHoldsItsSliceThm == Spec => []BatchHoldsItsSlice
<1>1. ASSUME Inv PROVE BatchHoldsItsSlice
  <2> SUFFICES ASSUME pc = "idle", NEW s \in Symbols, NEW e \in DOMAIN batches[s]
               PROVE  /\ ToSet(batches[s][e]) \subseteq ToSet(reg.contracts[s][e])
                      /\ <<s, e>> \notin Overran =>
                           ToSet(reg.contracts[s][e]) \subseteq ToSet(batches[s][e])
    BY DEF BatchHoldsItsSlice
  <2>1. DOMAIN metas = {}
    BY <1>1 DEF Inv, TypeInv
  <2>2. <<s, e>> \notin Overran =>
          \A i \in DOMAIN reg.contracts[s][e] : reg.contracts[s][e][i] \in ToSet(batches[s][e])
    BY <1>1, <2>1 DEF Inv, SliceInv, Whole, HasMeta
  <2>3. <<s, e>> \notin Overran => ToSet(reg.contracts[s][e]) \subseteq ToSet(batches[s][e])
    BY <2>2 DEF ToSet
  <2> QED  BY <1>1, <2>3 DEF Inv, SliceInv
<1> QED  BY <1>1, Invariance, PTL

(***************************************************************************)
(* Between flushes the slices with a batch are those awaiting retirement,  *)
(* and those a contract was opened in later.                               *)
(***************************************************************************)
THEOREM ServedUntilRetiredThm == Spec => []ServedUntilRetired
<1>1. ASSUME Inv PROVE ServedUntilRetired
  <2>1. DOMAIN metas = {} \/ pc # "idle"
    BY <1>1 DEF Inv, TypeInv
  <2> QED  BY <1>1, <2>1 DEF Inv, ServeInv, Served, PendingSlice, ServedUntilRetired
<1> QED  BY <1>1, Invariance, PTL

(***************************************************************************)
(* A batch only goes away in a retirement, of its own slice after the      *)
(* grace period or through a stale pointer of its symbol.                  *)
(***************************************************************************)
THEOREM DroppedOnlyAfterGraceThm == Spec => DroppedOnlyAfterGrace
<1> DEFINE Step == \A s \in Symbols : \A e \in DOMAIN batches[s] \ DOMAIN batches'[s] :
                     now >= reg.expiries[s][e] + Grace \/ StaleDue(s) # {}
<1>1. ASSUME Inv, [Next]_vars PROVE Step
  <2> SUFFICES ASSUME NEW s \in Symbols, NEW e \in DOMAIN batches[s] \ DOMAIN batches'[s],
                      StaleDue(s) = {}
               PROVE  now >= reg.expiries[s][e] + Grace
    OBVIOUS
  <2>1. CASE Retire
    <3>1. e \in DueIds(s)
      BY <1>1, <2>1, RetireFacts
    <3> QED  BY <3>1 DEF DueIds, Due
  <2>2. CASE BuildBatches
    <3>1. batches[s] = <<>>
      BY <1>1, <2>2 DEF BuildBatches, Inv, ServeInv
    <3> QED  BY <3>1
  <2>3. CASE CreateBatch \/ RecreateBatch
    <3>1. NextMeta /\ BuildBatch
      BY <2>3 DEF CreateBatch, RecreateBatch
    <3> QED  BY <1>1, <3>1, BuildFacts
  <2>4. CASE AppendContract
    <3>1. DOMAIN batches'[s] = DOMAIN batches[s]
      BY <1>1, <2>4 DEF AppendContract, Inv, TypeInv
    <3> QED  BY <3>1
  <2>5. CASE batches' = batches
    BY <2>5
  <2> QED  BY <1>1, <2>1, <2>2, <2>3, <2>4, <2>5
           DEF Next, Compute, Boot, StartFlush, Pop, Place, Advance, Enqueue, OutOfMemory,
               AddSeed, HangInRetire, PopContract, DieOnMalformed, Drained, SkipContract,
               AppendPastEnds, StrayWrite, FlushDone, vars, flush
<1> QED  BY <1>1, Invariance, PTL DEF Spec, DroppedOnlyAfterGrace

-----------------------------------------------------------------------------
(* How often a contract is registered, and how often a batch holds it.      *)

LEMMA CountFacts ==
  ASSUME NEW S, NEW q \in Seq(S), NEW k
  PROVE  /\ IsFiniteSet({i \in DOMAIN q : q[i] = k})
         /\ Count(q, k) \in Nat
         /\ Count(q, k) > 0 => k \in ToSet(q)
<1> DEFINE I == {i \in DOMAIN q : q[i] = k}
           n == Len(q)
<1>1. n \in Int /\ DOMAIN q = 1 .. n
  OBVIOUS
<1>2. IsFiniteSet(1 .. n)
  <2> HIDE DEF n
  <2> QED  BY <1>1, FS_Interval
<1>3. I \in SUBSET (1 .. n)
  BY <1>1
<1>4. IsFiniteSet(I)
  <2> HIDE DEF I, n
  <2> QED  BY <1>2, <1>3, FS_Subset
<1>5. Cardinality(I) \in Nat
  BY <1>4, FS_CardinalityType
<1>6. Cardinality(I) > 0 => I # {}
  <2> HIDE DEF I
  <2>1. I = {} => Cardinality(I) = 0
    BY FS_EmptySet
  <2> QED  BY <2>1
<1>7. I # {} => k \in ToSet(q)
  BY DEF ToSet
<1> QED  BY <1>4, <1>5, <1>6, <1>7 DEF Count

LEMMA CountOfAppend ==
  ASSUME NEW S, NEW q \in Seq(S), NEW x \in S, NEW k
  PROVE  Count(Append(q, x), k) = IF x = k THEN Count(q, k) + 1 ELSE Count(q, k)
<1> DEFINE I == {i \in DOMAIN q : q[i] = k}
           p == Append(q, x)
           J == {i \in DOMAIN p : p[i] = k}
           n == Len(q)
<1>1. /\ n \in Nat /\ DOMAIN q = 1 .. n /\ DOMAIN p = 1 .. (n + 1)
      /\ p[n + 1] = x /\ \A i \in 1 .. n : p[i] = q[i]
  OBVIOUS
<1>2. J = IF x = k THEN I \cup {n + 1} ELSE I
  <2> HIDE DEF p, n
  <2>1. \A i \in 1 .. (n + 1) : i \in 1 .. n \/ i = n + 1
    BY <1>1
  <2>2. \A i \in 1 .. n : i \in 1 .. (n + 1)
    BY <1>1
  <2>3. n + 1 \in 1 .. (n + 1)
    BY <1>1
  <2> QED  BY <1>1, <2>1, <2>2, <2>3
<1>3. n + 1 \notin I
  BY <1>1
<1>4. IsFiniteSet(I)
  BY CountFacts
<1>5. Cardinality(I \cup {n + 1}) = Cardinality(I) + 1
  <2> HIDE DEF I, n
  <2> QED  BY <1>3, <1>4, FS_AddElement
<1> HIDE DEF I, J, n
<1>6. Cardinality(J) = IF x = k THEN Cardinality(I) + 1 ELSE Cardinality(I)
  BY <1>2, <1>5
<1> QED  BY <1>6 DEF Count, I, J

\* What a step does to the lists of the registry.
LEMMA Lists ==
  ASSUME Inv, [Next]_vars
  PROVE  \/ /\ reg'.contracts = reg.contracts /\ reg'.expiries = reg.expiries
            /\ \A s \in Symbols : reg'.queue[s] \subseteq reg.queue[s]
         \/ \E c \in Contracts : \E r, e :
              /\ c.expiry # Malformed /\ reg' = r /\ Registered(c, r, e)
              /\ \/ pc = "boot" /\ metas' = metas
                 \/ pc = "drain" /\ metas' = MetasWith(c, r)
              /\ e = IdOf(r, c.symbol, c.expiry)
              /\ batches' = batches
<1>1. CASE AddSeed
  <2> DEFINE c == Head(seeds)
             r == Register(reg, c)
             e == IdOf(r, c.symbol, c.expiry)
  <2>1. seeds # <<>> /\ reg' = r /\ metas' = metas /\ pc = "boot" /\ batches' = batches
    BY <1>1 DEF AddSeed
  <2>2. c \in Contracts /\ c.expiry # Malformed
    BY <2>1, SeedsAssumption DEF Contracts, ToSet, Malformed, Inv, TypeInv, TypeOK
  <2>3. r = Register(reg, c) /\ e = IdOf(r, c.symbol, c.expiry)
    OBVIOUS
  <2> HIDE DEF c, r, e
  <2>4. Registered(c, r, e)
    BY <2>2, <2>3, RegisterFacts DEF Inv, TypeInv
  <2> QED  BY <2>1, <2>2, <2>3, <2>4
<1>2. CASE PopContract
  <2> DEFINE c == Head(opened)
             r == Register(reg, c)
             e == IdOf(r, c.symbol, c.expiry)
  <2>1. /\ opened # <<>> /\ reg' = r /\ metas' = MetasWith(c, r) /\ pc = "drain"
        /\ c.expiry # Malformed /\ batches' = batches
    BY <1>2 DEF PopContract
  <2>2. c \in Contracts
    BY <2>1 DEF Contracts, Inv, TypeInv, TypeOK
  <2>3. r = Register(reg, c) /\ e = IdOf(r, c.symbol, c.expiry)
    OBVIOUS
  <2> HIDE DEF c, r, e
  <2>4. Registered(c, r, e)
    BY <2>1, <2>2, <2>3, RegisterFacts DEF Inv, TypeInv
  <2> QED  BY <2>1, <2>2, <2>3, <2>4
<1>3. CASE Retire
  <2>1. reg'.contracts = reg.contracts /\ reg'.expiries = reg.expiries
    BY <1>3, RetireFacts
  <2>2. \A s \in Symbols : reg'.queue[s] \subseteq reg.queue[s]
    BY <1>3, RetireFacts
  <2> QED  BY <2>1, <2>2
<1>4. CASE reg' = reg
  BY <1>4
<1> QED  BY <1>1, <1>2, <1>3, <1>4
         DEF Next, Compute, Boot, StartFlush, Pop, Place, Advance, Enqueue, OutOfMemory,
             BuildBatches, HangInRetire, DieOnMalformed, Drained, CreateBatch, RecreateBatch,
             SkipContract, AppendContract, AppendPastEnds, GrowRange, NextMeta, StrayWrite,
             FlushDone, vars, flush

\* The list of one slice, when c is registered.
LEMMA OneList ==
  ASSUME Inv, NEW c \in Contracts, c.expiry # Malformed, NEW r, NEW e, Registered(c, r, e),
         NEW s \in Symbols, NEW i \in DOMAIN r.contracts[s]
  PROVE  \/ i \in DOMAIN reg.contracts[s] /\ r.contracts[s][i] = reg.contracts[s][i]
         \/ /\ s = c.symbol /\ i = e /\ ~Exists(reg, c)
            /\ \E q \in Seq(Key) :
                 /\ r.contracts[s][i] = Append(q, StoredKey(c))
                 /\ LookupKey(c) \notin ToSet(q)
                 /\ i \in DOMAIN reg.contracts[s] => q = reg.contracts[s][i]
                 /\ i \notin DOMAIN reg.contracts[s] => q = <<>>
<1>1. reg.contracts[s] \in Seq(Seq(Key))
  BY DEF Inv, TypeInv, TypeOK
<1>2. CASE Exists(reg, c)
  BY <1>2 DEF Registered
<1>3. CASE ~Exists(reg, c) /\ ~(s = c.symbol /\ i = e)
  BY <1>3 DEF Registered
<1>4. CASE ~Exists(reg, c) /\ s = c.symbol /\ i = e
  <2> DEFINE q == IF i \in DOMAIN reg.contracts[s] THEN reg.contracts[s][i] ELSE <<>>
  <2>1. q \in Seq(Key) /\ r.contracts[s][i] = Append(q, StoredKey(c))
    BY <1>1, <1>4 DEF Registered
  <2>2. LookupKey(c) \notin ToSet(q)
    BY <1>4 DEF Registered, ToSet
  <2> QED  BY <1>4, <2>1, <2>2
<1> QED  BY <1>2, <1>3, <1>4

(***************************************************************************)
(* However often a contract is ordered it is registered once, if its       *)
(* strike is looked up under the key it is stored under.                   *)
(***************************************************************************)
THEOREM RegisteredOnceThm == Spec => []RegisteredOnce
<1>1. Init => RegisteredOnce
  BY DEF Init, EmptyRegistry, RegisteredOnce
<1>2. ASSUME Inv, RegisteredOnce, [Next]_vars PROVE RegisteredOnce'
  <2>1. CASE reg'.contracts = reg.contracts
    BY <1>2, <2>1 DEF RegisteredOnce
  <2>2. ASSUME NEW c \in Contracts, NEW r, NEW e,
               c.expiry # Malformed, reg' = r, Registered(c, r, e)
        PROVE  RegisteredOnce'
    <3> SUFFICES ASSUME NEW s \in Symbols, NEW i \in DOMAIN r.contracts[s],
                        NEW k \in ToSet(r.contracts[s][i]), Count(r.contracts[s][i], k) > 1
                 PROVE  \E x \in DOMAIN StoredScaled :
                          StoredScaled[x] = k.strike /\ LookupScaled[x] # k.strike
      BY <2>2 DEF RegisteredOnce
    <3>1. CASE i \in DOMAIN reg.contracts[s] /\ r.contracts[s][i] = reg.contracts[s][i]
      BY <1>2, <3>1 DEF RegisteredOnce
    <3>2. ASSUME NEW q \in Seq(Key), ~Exists(reg, c),
                 r.contracts[s][i] = Append(q, StoredKey(c)),
                 LookupKey(c) \notin ToSet(q),
                 i \in DOMAIN reg.contracts[s] => q = reg.contracts[s][i],
                 i \notin DOMAIN reg.contracts[s] => q = <<>>
          PROVE  \E x \in DOMAIN StoredScaled :
                   StoredScaled[x] = k.strike /\ LookupScaled[x] # k.strike
      <4>1. StoredKey(c) \in Key
        BY <2>2, ContractType
      <4>2. /\ Count(q, k) \in Nat /\ (Count(q, k) > 0 => k \in ToSet(q))
            /\ Count(r.contracts[s][i], k) =
                 IF StoredKey(c) = k THEN Count(q, k) + 1 ELSE Count(q, k)
        <5> DEFINE x == StoredKey(c)
        <5>1. x \in Key /\ r.contracts[s][i] = Append(q, x)
          BY <3>2, <4>1
        <5> HIDE DEF x
        <5>2. Count(Append(q, x), k) = IF x = k THEN Count(q, k) + 1 ELSE Count(q, k)
          BY <5>1, CountOfAppend
        <5>3. Count(q, k) \in Nat /\ (Count(q, k) > 0 => k \in ToSet(q))
          BY CountFacts
        <5> QED  BY <5>1, <5>2, <5>3 DEF x
      <4>3. Count(q, k) > 0 /\ k \in ToSet(q)
        BY <4>2
      <4>4. CASE StoredKey(c) = k
        <5>1. LookupKey(c) # StoredKey(c)
          BY <3>2, <4>3, <4>4
        <5>2. k.strike = StoredScaled[c.strike] /\ LookupScaled[c.strike] # k.strike
          BY <4>4, <5>1 DEF StoredKey, LookupKey
        <5>3. c.strike \in DOMAIN StoredScaled
          BY StrikesAssumption DEF Contracts
        <5> QED  BY <5>2, <5>3
      <4>5. CASE StoredKey(c) # k
        <5>1. q = reg.contracts[s][i] /\ i \in DOMAIN reg.contracts[s]
          BY <3>2, <4>3 DEF ToSet
        <5> QED  BY <1>2, <4>2, <4>3, <4>5, <5>1 DEF RegisteredOnce
      <4> QED  BY <4>4, <4>5
    <3> QED  BY <1>2, <2>2, <3>1, <3>2, OneList
  <2> QED  BY <1>2, <2>1, <2>2, Lists
<1> QED  BY <1>1, <1>2, Invariance, PTL DEF Spec

\* The contracts k of a slice that are still to be placed, by their numbers.
PendingOf(s, e, k) ==
  {i \in DOMAIN reg.contracts[s][e] : reg.contracts[s][e][i] = k /\ HasMeta(At(s, e, i))}

\* Every meta is placed once; what a batch holds and what it will be given is
\* bounded together.
TwiceInv ==
  /\ \A i, j \in DOMAIN metas : metas[i] = metas[j] => i = j
  /\ \A s \in Symbols : \A e \in DOMAIN batches[s] : \A k \in Key :
       Count(batches[s][e], k) + Cardinality(PendingOf(s, e, k)) <= 2 * Count(reg.contracts[s][e], k)

LEMMA PendingFacts ==
  ASSUME Inv, NEW s \in Symbols, NEW e \in DOMAIN reg.contracts[s], NEW k
  PROVE  /\ Count(reg.contracts[s][e], k) \in Nat
         /\ IsFiniteSet(PendingOf(s, e, k))
         /\ Cardinality(PendingOf(s, e, k)) \in Nat
         /\ Cardinality(PendingOf(s, e, k)) <= Count(reg.contracts[s][e], k)
<1> DEFINE q == reg.contracts[s][e]
           I == {i \in DOMAIN q : q[i] = k}
           P == PendingOf(s, e, k)
<1>1. q \in Seq(Key)
  BY DEF Inv, TypeInv, TypeOK
<1>2. P \in SUBSET I
  BY DEF PendingOf
<1>3. IsFiniteSet(I) /\ Count(q, k) \in Nat
  <2> HIDE DEF q
  <2> QED  BY <1>1, CountFacts
<1>4. Count(q, k) = Cardinality(I)
  BY DEF Count
<1> HIDE DEF q, I, P
<1>5. IsFiniteSet(P) /\ Cardinality(P) <= Cardinality(I)
  BY <1>2, <1>3, FS_Subset
<1>6. Cardinality(P) \in Nat
  BY <1>5, FS_CardinalityType
<1> QED  BY <1>3, <1>4, <1>5, <1>6 DEF q, P

\* Nothing is added and nothing placed.
LEMMA TwiceQuiet ==
  ASSUME Inv, TwiceInv, reg'.contracts = reg.contracts, metas' = metas,
         \A s \in Symbols : \A e \in DOMAIN batches'[s] :
           e \in DOMAIN batches[s] /\ batches'[s][e] = batches[s][e]
  PROVE  TwiceInv'
<1>1. \A s, e, k : PendingOf(s, e, k)' = PendingOf(s, e, k)
  BY DEF PendingOf, HasMeta
<1> QED  BY <1>1 DEF TwiceInv

\* A contract is registered: one more to be placed, one more in the list.
LEMMA TwicePop == ASSUME Inv, TwiceInv, PopContract PROVE TwiceInv'
<1> DEFINE c == Head(opened)
           r == Register(reg, c)
           e == IdOf(r, c.symbol, c.expiry)
           x == Meta(c, r)
           k0 == StoredKey(c)
<1>1. /\ opened # <<>> /\ c.expiry # Malformed /\ reg' = r /\ batches' = batches
      /\ metas' = IF Exists(reg, c) THEN metas ELSE Append(metas, x)
  BY DEF PopContract, MetasWith
<1>2. c \in Contracts
  BY <1>1 DEF Inv, TypeInv, TypeOK, Contracts
<1>3. r = Register(reg, c) /\ e = IdOf(r, c.symbol, c.expiry) /\ x = Meta(c, r)
  OBVIOUS
<1> HIDE DEF c, r, e, x
<1>4. Registered(c, r, e) /\ k0 \in Key
  BY <1>1, <1>2, <1>3, RegisterFacts, ContractType DEF Inv, TypeInv
<1> HIDE DEF k0
<1>5. Inv'
  BY PopStep
<1>6. CASE Exists(reg, c)
  <2>1. reg' = reg /\ metas' = metas
    BY <1>1, <1>4, <1>6 DEF Registered
  <2> QED  BY <1>1, <2>1, TwiceQuiet
<1>7. CASE ~Exists(reg, c)
  <2>1. c.symbol \in Symbols /\ e \in DOMAIN r.contracts[c.symbol]
    BY <1>1, <1>2, <1>4, ContractType DEF Registered
  <2> DEFINE n == Len(r.contracts[c.symbol][e])
  <2>2. x = At(c.symbol, e, n)
    BY <1>3 DEF Meta, At
  \* the new contract's number is new
  <2>3. PICK q \in Seq(Key) :
          /\ r.contracts[c.symbol][e] = Append(q, k0)
          /\ e \in DOMAIN reg.contracts[c.symbol] => q = reg.contracts[c.symbol][e]
          /\ e \notin DOMAIN reg.contracts[c.symbol] => q = <<>>
    <3> DEFINE q == IF e \in DOMAIN reg.contracts[c.symbol]
                    THEN reg.contracts[c.symbol][e] ELSE <<>>
    <3>1. q \in Seq(Key)
      BY <2>1 DEF Inv, TypeInv, TypeOK
    <3> QED  BY <1>4, <1>7, <3>1 DEF Registered, k0
  <2>4. /\ n = Len(q) + 1 /\ DOMAIN q = 1 .. Len(q) /\ Len(q) \in Nat
        /\ DOMAIN r.contracts[c.symbol][e] = 1 .. n /\ n \notin DOMAIN q
        /\ \A i \in 1 .. n : i \in DOMAIN q \/ i = n
        /\ \A i \in DOMAIN q : r.contracts[c.symbol][e][i] = q[i]
        /\ r.contracts[c.symbol][e][n] = k0
    <3> DEFINE p == r.contracts[c.symbol][e]
    <3>1. p = Append(q, k0)
      BY <2>3
    <3> HIDE DEF p
    <3>2. /\ Len(p) = Len(q) + 1 /\ DOMAIN q = 1 .. Len(q) /\ Len(q) \in Nat
          /\ DOMAIN p = 1 .. Len(p)
          /\ \A i \in DOMAIN q : p[i] = q[i]
          /\ p[Len(p)] = k0
      BY <1>4, <3>1
    <3>3. Len(p) \notin DOMAIN q /\ \A i \in 1 .. Len(p) : i \in DOMAIN q \/ i = Len(p)
      BY <3>2
    <3> QED  BY <3>2, <3>3 DEF p
  <2> HIDE DEF n
  <2>5. \A j \in DOMAIN metas : metas[j] # x
    <3> SUFFICES ASSUME NEW j \in DOMAIN metas, metas[j] = x PROVE FALSE
      OBVIOUS
    <3>1. /\ e \in DOMAIN reg.contracts[c.symbol]
          /\ n \in DOMAIN reg.contracts[c.symbol][e]
      BY <2>2 DEF Inv, TypeInv, Names, At
    <3> QED  BY <2>3, <2>4, <3>1
  <2>6. /\ metas' = Append(metas, x) /\ metas \in Seq(MetaType)
        /\ Len(metas) \in Nat /\ DOMAIN metas = 1 .. Len(metas)
        /\ DOMAIN metas' = 1 .. (Len(metas) + 1)
        /\ metas'[Len(metas) + 1] = x
        /\ \A j \in 1 .. Len(metas) : metas'[j] = metas[j]
    BY <1>1, <1>7 DEF Inv, TypeInv
  <2>7. \A i \in DOMAIN metas' : i \in DOMAIN metas \/ i = Len(metas) + 1
    BY <2>6
  <2>8. \A i, j \in DOMAIN metas' : metas'[i] = metas'[j] => i = j
    BY <2>5, <2>6, <2>7 DEF TwiceInv
  <2>9. \A y : HasMeta(y)' <=> HasMeta(y) \/ y = x
    <3>1. Len(metas) + 1 \in DOMAIN metas' /\ DOMAIN metas \subseteq DOMAIN metas'
      BY <2>6
    <3> QED  BY <2>6, <2>7, <3>1 DEF HasMeta
  <2>10. ASSUME NEW s \in Symbols, NEW f \in DOMAIN batches[s], NEW k \in Key
         PROVE  Count(batches[s][f], k) + Cardinality(PendingOf(s, f, k)')
                  <= 2 * Count(r.contracts[s][f], k)
    <3>1. f \in DOMAIN reg.contracts[s] /\ f \in DOMAIN r.contracts[s]
      <4>1. f \in DOMAIN reg.contracts[s]
        BY BatchesTyped
      <4>2. reg.contracts[s] \in Seq(Seq(Key)) /\ r.contracts[s] \in Seq(Seq(Key))
            /\ Len(reg.contracts[s]) = Len(reg.expiries[s])
            /\ Len(r.contracts[s]) = Len(r.expiries[s])
            /\ reg.expiries[s] \in Seq(Nat) /\ r.expiries[s] \in Seq(Nat)
            /\ Len(reg.expiries[s]) <= Len(r.expiries[s])
        BY <1>4 DEF Inv, TypeInv, Registered, WellFormed, RegistryType
      <4> QED  BY <4>1, <4>2
    <3>2. Count(batches[s][f], k) \in Nat
      <4>1. batches[s][f] \in Seq(Key)
        BY DEF Inv, TypeInv, TypeOK
      <4> QED  BY <4>1, CountFacts
    <3>3. /\ Count(batches[s][f], k) + Cardinality(PendingOf(s, f, k))
               <= 2 * Count(reg.contracts[s][f], k)
          /\ IsFiniteSet(PendingOf(s, f, k)) /\ Cardinality(PendingOf(s, f, k)) \in Nat
          /\ Count(reg.contracts[s][f], k) \in Nat
      BY <3>1, PendingFacts DEF TwiceInv
    <3>4. CASE ~(s = c.symbol /\ f = e)
      <4>1. r.contracts[s][f] = reg.contracts[s][f]
        BY <1>4, <3>1, <3>4 DEF Registered
      <4>2. \A i : x # At(s, f, i)
        BY <2>2, <3>4 DEF At
      <4>3. PendingOf(s, f, k)' = PendingOf(s, f, k)
        BY <1>1, <2>9, <4>1, <4>2 DEF PendingOf
      <4> QED  BY <3>3, <4>1, <4>3
    <3>5. CASE s = c.symbol /\ f = e
      <4>1. q = reg.contracts[s][f]
        BY <2>3, <3>1, <3>5
      <4>2. \A i : HasMeta(At(s, f, i))' <=> HasMeta(At(s, f, i)) \/ i = n
        BY <2>2, <2>9, <3>5 DEF At
      <4>3. PendingOf(s, f, k)' \subseteq
              IF k = k0 THEN PendingOf(s, f, k) \cup {n} ELSE PendingOf(s, f, k)
        BY <1>1, <2>4, <3>5, <4>1, <4>2 DEF PendingOf
      <4>4. Count(r.contracts[s][f], k)
            = IF k0 = k THEN Count(reg.contracts[s][f], k) + 1 ELSE Count(reg.contracts[s][f], k)
        <5>1. Count(Append(q, k0), k) = IF k0 = k THEN Count(q, k) + 1 ELSE Count(q, k)
          BY <1>4, CountOfAppend
        <5> QED  BY <2>3, <3>5, <4>1, <5>1
      <4> DEFINE P == PendingOf(s, f, k)
                 Q == PendingOf(s, f, k)'
      <4>5. IsFiniteSet(P \cup {n}) /\ Cardinality(P \cup {n}) <= Cardinality(P) + 1
        <5>1. IsFiniteSet(P) /\ Cardinality(P) \in Nat
          BY <3>3
        <5> HIDE DEF P
        <5>2. Cardinality(P \cup {n}) = IF n \in P THEN Cardinality(P) ELSE Cardinality(P) + 1
          BY <5>1, FS_AddElement
        <5> QED  BY <5>1, <5>2, FS_AddElement
      <4>6. /\ Cardinality(Q) \in Nat
            /\ Cardinality(Q) <= IF k = k0 THEN Cardinality(P) + 1 ELSE Cardinality(P)
        <5>1. IsFiniteSet(P) /\ Cardinality(P) \in Nat
          BY <3>3
        <5>2. Q \subseteq IF k = k0 THEN P \cup {n} ELSE P
          BY <4>3
        <5> HIDE DEF P, Q
        <5>3. CASE k = k0
          <6>1. Q \in SUBSET (P \cup {n})
            BY <5>2, <5>3
          <6>2. Cardinality(Q) <= Cardinality(P \cup {n}) /\ IsFiniteSet(Q)
            BY <4>5, <6>1, FS_Subset
          <6>3. Cardinality(Q) \in Nat /\ Cardinality(P \cup {n}) \in Nat
            BY <4>5, <6>2, FS_CardinalityType
          <6> QED  BY <4>5, <5>1, <5>3, <6>2, <6>3
        <5>4. CASE k # k0
          <6>1. Q \in SUBSET P
            BY <5>2, <5>4
          <6>2. IsFiniteSet(Q) /\ Cardinality(Q) <= Cardinality(P)
            BY <5>1, <6>1, FS_Subset
          <6> QED  BY <5>4, <6>2, FS_CardinalityType
        <5> QED  BY <5>3, <5>4
      <4> HIDE DEF P, Q
      <4> QED  BY <3>2, <3>3, <4>4, <4>6 DEF P, Q
    <3> QED  BY <3>4, <3>5
  <2> QED  BY <1>1, <2>8, <2>10 DEF TwiceInv
<1> QED  BY <1>6, <1>7

\* A contract is placed: one less to be placed, at most one more in the batch.
LEMMA TwicePlace ==
  ASSUME Inv, TwiceInv,
         CreateBatch \/ RecreateBatch \/ SkipContract \/ AppendContract \/ AppendPastEnds
  PROVE  TwiceInv'
<1>1. NextMeta
  BY DEF CreateBatch, RecreateBatch, SkipContract, AppendContract, AppendPastEnds, GrowRange
<1>2. metas # <<>> /\ metas' = Tail(metas) /\ reg' = reg /\ metas \in Seq(MetaType)
  BY <1>1 DEF NextMeta, Inv, TypeInv
<1>3. /\ Len(metas) \in Nat /\ DOMAIN metas = 1 .. Len(metas) /\ Len(metas) >= 1
      /\ DOMAIN metas' = 1 .. (Len(metas) - 1)
      /\ \A j \in 1 .. (Len(metas) - 1) : metas'[j] = metas[j + 1]
      /\ m = metas[1]
  BY <1>2 DEF m
<1>4. \A j \in DOMAIN metas' : j + 1 \in DOMAIN metas /\ metas'[j] = metas[j + 1] /\ j + 1 # 1
  BY <1>3
<1>5. \A i, j \in DOMAIN metas' : metas'[i] = metas'[j] => i = j
  <2> SUFFICES ASSUME NEW i \in DOMAIN metas', NEW j \in DOMAIN metas', metas'[i] = metas'[j]
               PROVE  i = j
    OBVIOUS
  <2>1. i + 1 = j + 1
    BY <1>4 DEF TwiceInv
  <2> QED  BY <1>3, <2>1
<1>6. \A j \in DOMAIN metas' : metas'[j] # m
  BY <1>3, <1>4 DEF TwiceInv
<1>7. \A y : HasMeta(y)' => HasMeta(y)
  BY <1>4 DEF HasMeta
<1>8. HasMeta(m) /\ m \in MetaType /\ Names(m, reg)
  BY <1>1, <1>2, <1>3, TakeMeta DEF HasMeta, Inv, TypeInv
<1>9. DOMAIN batches = Symbols /\ m.symbol \in Symbols
  BY <1>8 DEF MetaType, Inv, TypeInv
\* what the batches hold
<1>10. ASSUME NEW s \in Symbols, NEW e \in DOMAIN batches'[s]
       PROVE  \/ e \in DOMAIN batches[s] /\ batches'[s][e] = batches[s][e]
              \/ batches'[s][e] = reg.contracts[s][e] /\ e \in DOMAIN reg.contracts[s]
              \/ /\ e \in DOMAIN batches[s] /\ s = m.symbol /\ e = m.expiry
                 /\ batches'[s][e] = Append(batches[s][e], ThisContract)
  <2>1. CASE CreateBatch \/ RecreateBatch
    BY <1>1, <1>8, <2>1, BuildFacts DEF CreateBatch, RecreateBatch, Names
  <2>2. CASE SkipContract \/ AppendPastEnds
    BY <2>2 DEF SkipContract, AppendPastEnds
  <2>3. CASE AppendContract
    BY <1>9, <2>3 DEF AppendContract, GrowRange, HasBatch
  <2> QED  BY <2>1, <2>2, <2>3
<1>11. ASSUME NEW s \in Symbols, NEW e \in DOMAIN batches'[s], NEW k \in Key
       PROVE  Count(batches'[s][e], k) + Cardinality(PendingOf(s, e, k)')
                <= 2 * Count(reg.contracts[s][e], k)
  <2> DEFINE P == PendingOf(s, e, k)
             Q == PendingOf(s, e, k)'
             C == Count(reg.contracts[s][e], k)
             B == Count(batches[s][e], k)
             B1 == Count(batches'[s][e], k)
  <2>1. e \in DOMAIN reg.contracts[s] /\ reg.contracts[s][e] \in Seq(Key)
    <3>1. e \in DOMAIN reg.contracts[s]
      BY <1>10, BatchesTyped
    <3>2. reg.contracts[s] \in Seq(Seq(Key))
      BY DEF Inv, TypeInv, TypeOK
    <3> QED  BY <3>1, <3>2
  <2>2. IsFiniteSet(P) /\ Cardinality(P) \in Nat /\ Cardinality(P) <= C /\ C \in Nat
    BY <2>1, PendingFacts
  <2>3. Q \in SUBSET P
    BY <1>2, <1>7 DEF PendingOf
  <2>4. Cardinality(Q) \in Nat /\ Cardinality(Q) <= Cardinality(P)
    <3> HIDE DEF P, Q, C
    <3>1. IsFiniteSet(Q) /\ Cardinality(Q) <= Cardinality(P)
      BY <2>2, <2>3, FS_Subset
    <3> QED  BY <3>1, FS_CardinalityType
  <2>5. e \in DOMAIN batches[s] =>
          /\ batches[s][e] \in Seq(Key) /\ B \in Nat /\ B + Cardinality(P) <= 2 * C
    <3>1. e \in DOMAIN batches[s] => batches[s][e] \in Seq(Key)
      BY DEF Inv, TypeInv, TypeOK
    <3>2. e \in DOMAIN batches[s] => B \in Nat
      BY <3>1, CountFacts
    <3> QED  BY <3>1, <3>2 DEF TwiceInv
  <2>6. CASE e \in DOMAIN batches[s] /\ batches'[s][e] = batches[s][e]
    <3>1. B1 = B
      BY <2>6
    <3> HIDE DEF P, Q, C, B, B1
    <3> QED  BY <2>2, <2>4, <2>5, <2>6, <3>1 DEF Q, C, B1
  <2>7. CASE batches'[s][e] = reg.contracts[s][e]
    <3>1. B1 = C
      BY <2>7
    <3> HIDE DEF P, Q, C, B, B1
    <3>2. B1 + Cardinality(Q) <= 2 * C
      BY <2>2, <2>4, <3>1
    <3> QED  BY <3>2 DEF Q, C, B1
  <2>8. CASE /\ e \in DOMAIN batches[s] /\ s = m.symbol /\ e = m.expiry
             /\ batches'[s][e] = Append(batches[s][e], ThisContract)
    <3>1. m = At(s, e, m.contract) /\ ThisContract = reg.contracts[s][e][m.contract]
          /\ m.contract \in DOMAIN reg.contracts[s][e]
      BY <1>8, <2>8 DEF MetaType, At, ThisContract, Names
    <3>2. ThisContract \in Key
      BY <2>1, <3>1
    <3>3. B1 = IF ThisContract = k THEN B + 1 ELSE B
      <4>1. batches[s][e] \in Seq(Key)
        BY <2>5, <2>8
      <4>2. Count(Append(batches[s][e], ThisContract), k)
            = IF ThisContract = k THEN Count(batches[s][e], k) + 1 ELSE Count(batches[s][e], k)
        BY <3>2, <4>1, CountOfAppend
      <4> QED  BY <2>8, <4>2
    <3>4. CASE ThisContract = k
      <4>1. m.contract \in P
        BY <1>8, <3>1, <3>4 DEF PendingOf
      <4>2. m.contract \notin Q
        <5>1. PICK y : y = m.contract
          OBVIOUS
        <5>2. At(s, e, y) = m
          BY <3>1, <5>1
        <5>3. \A j \in DOMAIN metas' : metas'[j] # At(s, e, y)
          BY <1>6, <5>2
        <5>4. y \notin Q
          BY <5>3 DEF PendingOf, HasMeta, At
        <5> QED  BY <5>1, <5>4
      <4> DEFINE z == m.contract
      <4>3. Cardinality(Q) <= Cardinality(P) - 1
        <5>1. z \in P /\ z \notin Q
          BY <4>1, <4>2
        <5> HIDE DEF P, Q, C, B, B1, z
        <5>2. Q \in SUBSET (P \ {z})
          BY <2>3, <5>1
        <5>3. IsFiniteSet(P \ {z}) /\ Cardinality(P \ {z}) = Cardinality(P) - 1
          BY <2>2, <5>1, FS_RemoveElement
        <5> QED  BY <5>2, <5>3, FS_Subset
      <4> HIDE DEF P, Q, C, B, B1, z
      <4>4. B1 + Cardinality(Q) <= 2 * C
        BY <2>2, <2>4, <2>5, <2>8, <3>3, <3>4, <4>3
      <4> QED  BY <4>4 DEF Q, C, B1
    <3>5. CASE ThisContract # k
      <4> HIDE DEF P, Q, C, B, B1
      <4>1. B1 + Cardinality(Q) <= 2 * C
        BY <2>2, <2>4, <2>5, <2>8, <3>3, <3>5
      <4> QED  BY <4>1 DEF Q, C, B1
    <3> QED  BY <3>4, <3>5
  <2> QED  BY <1>10, <2>6, <2>7, <2>8
<1> QED  BY <1>2, <1>5, <1>11 DEF TwiceInv

(***************************************************************************)
(* A batch never holds a contract more than twice as often as the registry *)
(* does, however many flushes append to it and rebuild it.                 *)
(***************************************************************************)
THEOREM AtMostTwiceThm == Spec => []AtMostTwice
<1>1. Init => TwiceInv
  BY DEF Init, TwiceInv
<1>2. ASSUME Inv, TwiceInv, [Next]_vars PROVE TwiceInv'
  <2>1. CASE AddSeed
    <3>1. \A s \in Symbols : DOMAIN batches'[s] = {}
      BY <1>2, <2>1 DEF AddSeed, Inv, ServeInv
    <3>2. metas' = metas
      BY <2>1 DEF AddSeed
    <3> QED  BY <1>2, <3>1, <3>2 DEF TwiceInv
  <2>2. CASE BuildBatches
    <3>1. batches' = reg.contracts /\ reg' = reg /\ metas' = metas /\ DOMAIN metas = {}
      BY <1>2, <2>2 DEF BuildBatches, Inv, TypeInv
    <3>2. ASSUME NEW s \in Symbols, NEW e \in DOMAIN reg.contracts[s], NEW k \in Key
          PROVE  Count(reg.contracts[s][e], k) + Cardinality(PendingOf(s, e, k)')
                   <= 2 * Count(reg.contracts[s][e], k)
      <4>1. PendingOf(s, e, k)' = {}
        BY <3>1 DEF PendingOf, HasMeta
      <4>2. Count(reg.contracts[s][e], k) \in Nat /\ Cardinality({}) = 0
        BY <1>2, PendingFacts, FS_EmptySet
      <4> QED  BY <4>1, <4>2
    <3> QED  BY <3>1, <3>2 DEF TwiceInv
  <2>3. CASE Retire
    BY <1>2, <2>3, RetireFacts, TwiceQuiet DEF Inv, TypeInv
  <2>4. CASE UNCHANGED <<reg, metas, batches>>
    BY <1>2, <2>4, TwiceQuiet
  <2> QED  BY <1>2, <2>1, <2>2, <2>3, <2>4, TwicePop, TwicePlace
           DEF Next, Compute, Boot, StartFlush, Pop, Place, Advance, Enqueue, OutOfMemory,
               HangInRetire, DieOnMalformed, Drained, FlushDone, StrayWrite, vars, flush
<1>3. ASSUME Inv, TwiceInv PROVE AtMostTwice
  <2> SUFFICES ASSUME NEW s \in Symbols, NEW e \in DOMAIN batches[s],
                      NEW k \in ToSet(batches[s][e])
               PROVE  Count(batches[s][e], k) <= 2 * Count(reg.contracts[s][e], k)
    BY DEF AtMostTwice
  <2>1. e \in DOMAIN reg.contracts[s] /\ batches[s][e] \in Seq(Key)
    BY <1>3, BatchesTyped
  <2>2. k \in Key
    BY <2>1 DEF ToSet
  <2>3. Count(batches[s][e], k) \in Nat /\ Cardinality(PendingOf(s, e, k)) \in Nat
        /\ Count(reg.contracts[s][e], k) \in Nat
    BY <1>3, <2>1, CountFacts, PendingFacts
  <2> QED  BY <1>3, <2>2, <2>3 DEF TwiceInv
<1> QED  BY <1>1, <1>2, <1>3, Invariance, PTL DEF Spec

-----------------------------------------------------------------------------
(* The loop of the compute thread.                                          *)

\* The contract is registered, under a key that it is stored or looked up by.
Located(c) ==
  \E e \in DOMAIN reg.expiries[c.symbol] :
    /\ reg.expiries[c.symbol][e] = c.expiry
    /\ {StoredKey(c), LookupKey(c)} \cap ToSet(reg.contracts[c.symbol][e]) # {}

\* The ids of a symbol are those of different expiries.
DistinctExpiries ==
  \A s \in Symbols : \A i, j \in DOMAIN reg.expiries[s] :
    reg.expiries[s][i] = reg.expiries[s][j] => i = j

FeedsInv ==
  /\ asOf \in [DOMAIN Feeds -> Nat]
  /\ \A n \in DOMAIN Feeds : asOf[n] <= now
  /\ data # <<>> => data[1].symbol \in Symbols /\ data[1].asOf \in Nat /\ data[1].asOf <= now

PlacesInv ==
  /\ loop \in {"boot", "poll", "timer"} => data = <<>>
  /\ loop = "tick" => pc \in {"idle", "dead"} /\ metas = <<>> /\ data # <<>>

\* The flush has retired what was due, and is not over.
Flushed == loop = "tick" \/ (loop = "flushing" /\ pc \in {"drain", "place"})

\* What waited when the tick was read is in the queue or in the registry.
WaitingInv ==
  /\ waiting \subseteq Orders
  /\ data = <<>> => waiting = {}
  /\ loop = "flush" => waiting \subseteq ToSet(opened)
  /\ loop = "flushing" /\ pc = "drain" => \A c \in waiting : c \in ToSet(opened) \/ Located(c)
  /\ loop = "tick" \/ (loop = "flushing" /\ pc = "place") => \A c \in waiting : Located(c)

\* What the flush found and did not retire is in its grace period at the tick.
GraceInv ==
  /\ known \in [Symbols -> Nat]
  /\ \A s \in Symbols : known[s] <= Len(reg.expiries[s])
  /\ Flushed /\ data # <<>> =>
       LET s == data[1].symbol
       IN \A e \in DOMAIN reg.expiries[s] :
            e <= known[s] /\ reg.expiries[s][e] \in reg.queue[s] =>
              data[1].asOf < reg.expiries[s][e] + Grace

LoopInv == /\ Inv /\ DistinctExpiries
           /\ FeedsInv /\ PlacesInv /\ WaitingInv /\ GraceInv

\* What a step does to the expiries of a symbol and to the lists of contracts.
LEMMA RegistryGrows ==
  ASSUME Inv, [Next]_vars, NEW s \in Symbols
  PROVE  /\ \A i \in DOMAIN reg.expiries[s] :
              ToSet(reg.contracts[s][i]) \subseteq ToSet(reg'.contracts[s][i])
         /\ \/ reg'.expiries[s] = reg.expiries[s] /\ reg'.queue[s] \subseteq reg.queue[s]
            \/ \E t : /\ t \notin ToSet(reg.expiries[s])
                      /\ reg'.expiries[s] = Append(reg.expiries[s], t)
                      /\ reg'.queue[s] = reg.queue[s] \cup {t}
<1>1. CASE /\ reg'.contracts = reg.contracts /\ reg'.expiries = reg.expiries
           /\ \A x \in Symbols : reg'.queue[x] \subseteq reg.queue[x]
  BY <1>1
<1>2. ASSUME NEW c \in Contracts, NEW r, NEW e,
             c.expiry # Malformed, reg' = r, Registered(c, r, e)
      PROVE  /\ \A i \in DOMAIN reg.expiries[s] :
                  ToSet(reg.contracts[s][i]) \subseteq ToSet(r.contracts[s][i])
             /\ \/ r.expiries[s] = reg.expiries[s] /\ r.queue[s] \subseteq reg.queue[s]
                \/ \E t : /\ t \notin ToSet(reg.expiries[s])
                          /\ r.expiries[s] = Append(reg.expiries[s], t)
                          /\ r.queue[s] = reg.queue[s] \cup {t}
  <2>1. ASSUME NEW i \in DOMAIN reg.expiries[s]
        PROVE  ToSet(reg.contracts[s][i]) \subseteq ToSet(r.contracts[s][i])
    <3>1. i \in DOMAIN r.contracts[s] /\ i \in DOMAIN reg.contracts[s]
      <4>1. /\ reg.expiries[s] \in Seq(Nat) /\ r.expiries[s] \in Seq(Nat)
            /\ reg.contracts[s] \in Seq(Seq(Key)) /\ r.contracts[s] \in Seq(Seq(Key))
            /\ Len(r.contracts[s]) = Len(r.expiries[s])
            /\ Len(reg.contracts[s]) = Len(reg.expiries[s])
        BY <1>2 DEF Registered, WellFormed, RegistryType, Inv, TypeInv
      <4>2. Len(reg.expiries[s]) <= Len(r.expiries[s])
        BY <1>2 DEF Registered
      <4>3. /\ DOMAIN reg.expiries[s] = 1 .. Len(reg.expiries[s])
            /\ DOMAIN reg.contracts[s] = 1 .. Len(reg.contracts[s])
            /\ DOMAIN r.contracts[s] = 1 .. Len(r.contracts[s])
            /\ Len(reg.expiries[s]) \in Nat /\ Len(r.expiries[s]) \in Nat
        BY <4>1, LenProperties
      <4> QED  BY <4>1, <4>2, <4>3
    <3>2. CASE r.contracts[s][i] = reg.contracts[s][i]
      BY <3>2
    <3>3. ASSUME NEW q \in Seq(Key), r.contracts[s][i] = Append(q, StoredKey(c)),
                 q = reg.contracts[s][i]
          PROVE  ToSet(reg.contracts[s][i]) \subseteq ToSet(r.contracts[s][i])
      <4>1. ToSet(Append(q, StoredKey(c))) = ToSet(q) \cup {StoredKey(c)}
        BY SetOfAppend
      <4> QED  BY <3>3, <4>1
    <3> QED  BY <1>2, <3>1, <3>2, <3>3, OneList
  <2>2. \/ r.expiries[s] = reg.expiries[s] /\ r.queue[s] \subseteq reg.queue[s]
        \/ \E t : /\ t \notin ToSet(reg.expiries[s])
                  /\ r.expiries[s] = Append(reg.expiries[s], t)
                  /\ r.queue[s] = reg.queue[s] \cup {t}
    BY <1>2 DEF Registered
  <2> QED  BY <2>1, <2>2
<1> QED  BY <1>1, <1>2, Lists

\* Appending keeps what there is.
LEMMA AppendKeeps ==
  ASSUME NEW q \in Seq(Nat), NEW t
  PROVE  /\ Len(q) \in Nat /\ Len(Append(q, t)) = Len(q) + 1
         /\ DOMAIN q = 1 .. Len(q) /\ DOMAIN Append(q, t) = 1 .. Len(q) + 1
         /\ Append(q, t)[Len(q) + 1] = t
         /\ \A i \in DOMAIN q : Append(q, t)[i] = q[i]
OBVIOUS

LEMMA ExpiriesTyped ==
  ASSUME Inv, NEW s \in Symbols
  PROVE  reg.expiries[s] \in Seq(Nat)
BY DEF Inv, TypeInv, TypeOK

\* An id stays that of its expiry.
LEMMA ExpiriesStay ==
  ASSUME Inv, [Next]_vars, NEW s \in Symbols
  PROVE  /\ Len(reg.expiries[s]) <= Len(reg'.expiries[s])
         /\ \A i \in DOMAIN reg.expiries[s] :
              i \in DOMAIN reg'.expiries[s] /\ reg'.expiries[s][i] = reg.expiries[s][i]
         /\ \A i \in DOMAIN reg'.expiries[s] :
              \/ i \in DOMAIN reg.expiries[s]
              \/ i = Len(reg.expiries[s]) + 1 /\ reg'.expiries[s][i] \notin ToSet(reg.expiries[s])
         /\ \A i \in DOMAIN reg.expiries[s] :
              reg'.expiries[s][i] \in reg'.queue[s] => reg.expiries[s][i] \in reg.queue[s]
<1> DEFINE q == reg.expiries[s]
<1>1. q \in Seq(Nat) /\ Len(q) \in Nat /\ DOMAIN q = 1 .. Len(q)
  BY ExpiriesTyped, LenProperties
<1>2. CASE reg'.expiries[s] = q /\ reg'.queue[s] \subseteq reg.queue[s]
  BY <1>1, <1>2
<1>3. ASSUME NEW t, t \notin ToSet(q), reg'.expiries[s] = Append(q, t),
             reg'.queue[s] = reg.queue[s] \cup {t}
      PROVE  /\ Len(q) <= Len(reg'.expiries[s])
             /\ \A i \in DOMAIN q : i \in DOMAIN reg'.expiries[s] /\ reg'.expiries[s][i] = q[i]
             /\ \A i \in DOMAIN reg'.expiries[s] :
                  \/ i \in DOMAIN q
                  \/ i = Len(q) + 1 /\ reg'.expiries[s][i] \notin ToSet(q)
             /\ \A i \in DOMAIN q : reg'.expiries[s][i] \in reg'.queue[s] => q[i] \in reg.queue[s]
  <2> HIDE DEF q
  <2>1. /\ Len(Append(q, t)) = Len(q) + 1 /\ DOMAIN Append(q, t) = 1 .. Len(q) + 1
        /\ Append(q, t)[Len(q) + 1] = t /\ \A i \in DOMAIN q : Append(q, t)[i] = q[i]
    BY <1>1, AppendKeeps
  <2>2. \A i \in DOMAIN q : q[i] # t
    BY <1>3 DEF ToSet
  <2>3. \A i \in DOMAIN q : i \in DOMAIN reg'.expiries[s] /\ reg'.expiries[s][i] = q[i]
    BY <1>1, <1>3, <2>1
  <2>4. \A i \in 1 .. Len(q) + 1 : i \in DOMAIN q \/ i = Len(q) + 1
    BY <1>1
  <2>5. \A i \in DOMAIN reg'.expiries[s] :
          i \in DOMAIN q \/ (i = Len(q) + 1 /\ reg'.expiries[s][i] \notin ToSet(q))
    BY <1>3, <2>1, <2>4
  <2>6. \A i \in DOMAIN q : reg'.expiries[s][i] \in reg'.queue[s] => q[i] \in reg.queue[s]
    BY <1>3, <2>2, <2>3
  <2>7. Len(q) <= Len(reg'.expiries[s])
    BY <1>1, <1>3, <2>1
  <2> QED  BY <2>3, <2>5, <2>6, <2>7
<1> QED  BY <1>2, <1>3, RegistryGrows

LEMMA DistinctStep ==
  ASSUME Inv, [Next]_vars, DistinctExpiries
  PROVE  DistinctExpiries'
<1>1. Symbols' = Symbols
  OBVIOUS
<1> SUFFICES ASSUME NEW s \in Symbols, NEW i \in DOMAIN reg'.expiries[s],
                    NEW j \in DOMAIN reg'.expiries[s], reg'.expiries[s][i] = reg'.expiries[s][j]
             PROVE  i = j
  BY DEF DistinctExpiries
<1>2. \A n \in DOMAIN reg.expiries[s] : reg.expiries[s][n] \in ToSet(reg.expiries[s])
  BY DEF ToSet
<1> QED  BY <1>2, ExpiriesStay DEF DistinctExpiries

LEMMA LocatedStays ==
  ASSUME Inv, [Next]_vars, NEW c \in Orders, Located(c)
  PROVE  Located(c)'
<1>1. c.symbol \in Symbols
  BY DEF Symbols
<1>2. PICK e \in DOMAIN reg.expiries[c.symbol] :
        /\ reg.expiries[c.symbol][e] = c.expiry
        /\ {StoredKey(c), LookupKey(c)} \cap ToSet(reg.contracts[c.symbol][e]) # {}
  BY DEF Located
<1>3. e \in DOMAIN reg'.expiries[c.symbol] /\ reg'.expiries[c.symbol][e] = c.expiry
  BY <1>1, <1>2, ExpiriesStay
<1>4. ToSet(reg.contracts[c.symbol][e]) \subseteq ToSet(reg'.contracts[c.symbol][e])
  BY <1>1, <1>2, RegistryGrows
<1>5. {StoredKey(c), LookupKey(c)} \cap ToSet(reg'.contracts[c.symbol][e]) # {}
  BY <1>2, <1>4
<1> QED  BY <1>3, <1>5 DEF Located, StoredKey, LookupKey

\* The contract that is popped is registered, or taken for one that is.
LEMMA PopLocates ==
  ASSUME Inv, PopContract, NEW c, c = Head(opened)
  PROVE  Located(c)'
<1>1. /\ opened # <<>> /\ c.expiry # Malformed /\ reg' = Register(reg, c)
  BY DEF PopContract
<1>2. c \in Contracts
  BY <1>1 DEF Contracts, Inv, TypeInv, TypeOK
<1>3. PICK r : r = Register(reg, c)
  OBVIOUS
<1>4. PICK e : e = IdOf(r, c.symbol, c.expiry)
  OBVIOUS
<1>5. Registered(c, r, e)
  BY <1>1, <1>2, <1>3, <1>4, RegisterFacts DEF Inv, TypeInv
<1>6. e \in DOMAIN r.expiries[c.symbol] /\ r.expiries[c.symbol][e] = c.expiry
  <2>1. c.symbol \in Symbols
    BY <1>1, <1>2, ContractType
  <2>2. r.expiries[c.symbol] \in Seq(Nat) /\ r.contracts[c.symbol] \in Seq(Seq(Key))
        /\ Len(r.contracts[c.symbol]) = Len(r.expiries[c.symbol])
    BY <1>5, <2>1 DEF Registered, WellFormed, RegistryType
  <2>3. DOMAIN r.expiries[c.symbol] = DOMAIN r.contracts[c.symbol]
    BY <2>2
  <2> QED  BY <1>5, <2>3 DEF Registered
<1>7. {StoredKey(c), LookupKey(c)} \cap ToSet(r.contracts[c.symbol][e]) # {}
  <2>1. CASE Exists(reg, c)
    BY <1>4, <1>5, <2>1 DEF Exists, Registered
  <2>2. CASE ~Exists(reg, c)
    <3>1. PICK q \in Seq(Key) : r.contracts[c.symbol][e] = Append(q, StoredKey(c))
      <4>1. c.symbol \in Symbols
        BY <1>1, <1>2, ContractType
      <4>2. e \in DOMAIN reg.contracts[c.symbol] => reg.contracts[c.symbol][e] \in Seq(Key)
        BY <4>1 DEF Inv, TypeInv, TypeOK
      <4> DEFINE q0 == IF e \in DOMAIN reg.contracts[c.symbol]
                       THEN reg.contracts[c.symbol][e] ELSE <<>>
      <4>3. q0 \in Seq(Key)
        BY <4>2
      <4>4. r.contracts[c.symbol][e] = Append(q0, StoredKey(c))
        BY <1>5, <2>2 DEF Registered
      <4> QED  BY <4>3, <4>4
    <3>2. ToSet(Append(q, StoredKey(c))) = ToSet(q) \cup {StoredKey(c)}
      BY SetOfAppend
    <3> QED  BY <3>1, <3>2
  <2> QED  BY <2>1, <2>2
<1> QED  BY <1>1, <1>3, <1>6, <1>7 DEF Located, StoredKey, LookupKey

\* What the loop and the other threads do to the state of the orchestrator.
LEMMA LoopImplements ==
  ASSUME [LoopNext]_allVars
  PROVE  [Next]_vars
<1>1. CASE Others
  BY <1>1 DEF Others, Elapse, PublishTick, Next
<1>2. CASE Boots
  BY <1>2 DEF Boots, Next, Compute
<1>3. CASE Flush
  BY <1>3 DEF Flush, Next, Compute
<1>4. CASE Flushing
  BY <1>4 DEF Flushing, Next, Compute
<1>5. ASSUME NEW n \in DOMAIN Feeds, ReadTick(n)
      PROVE  [Next]_vars
  BY <1>5 DEF ReadTick
<1>6. CASE Sleep \/ ProcessTick \/ Timer
  BY <1>6 DEF Sleep, ProcessTick, Timer
<1>7. CASE UNCHANGED allVars
  BY <1>7 DEF allVars
<1> QED  BY <1>1, <1>2, <1>3, <1>4, <1>5, <1>6, <1>7 DEF LoopNext, Loop

LEMMA ClockGrows ==
  ASSUME Inv, [Next]_vars
  PROVE  now \in Nat /\ now' \in Nat /\ now <= now'
<1>1. now \in Nat
  BY BoundsAssumption DEF Inv, TypeInv, TypeOK
<1>2. now' = now \/ now' = now + 1
  BY DEF Next, Compute, Boot, StartFlush, Pop, Place, AddSeed, BuildBatches, Advance, Enqueue,
         OutOfMemory, HangInRetire, Retire, PopContract, DieOnMalformed, Drained, CreateBatch,
         RecreateBatch, SkipContract, AppendContract, AppendPastEnds, GrowRange, NextMeta,
         StrayWrite, FlushDone, vars
<1> QED  BY <1>1, <1>2

LEMMA FeedTyped ==
  ASSUME NEW n \in DOMAIN Feeds
  PROVE  Feeds[n] \in Symbols
BY FeedsAssumption DEF ToSet

\* Steps of the loop that read or drop no tick.
LEMMA FeedsStep ==
  ASSUME Inv, FeedsInv, [LoopNext]_allVars
  PROVE  FeedsInv'
<1>1. now \in Nat /\ now' \in Nat /\ now <= now'
  BY ClockGrows, LoopImplements
<1>2. CASE asOf' = asOf /\ data' = data
  BY <1>1, <1>2 DEF FeedsInv
<1>3. CASE PublishTick
  <2>1. PICK t \in asOf[turn] .. now : asOf' = [asOf EXCEPT ![turn] = t]
    BY <1>3 DEF PublishTick, FeedTimes
  <2>2. data' = data
    BY <1>3 DEF PublishTick
  <2>3. ASSUME NEW n \in DOMAIN Feeds
        PROVE  asOf'[n] \in Nat /\ asOf'[n] <= now
    <3>1. asOf[n] \in Nat /\ asOf[n] <= now
      BY DEF FeedsInv
    <3>2. CASE n = turn
      <4>1. asOf'[n] = t
        BY <2>1, <3>2 DEF FeedsInv
      <4> QED  BY <1>1, <2>1, <3>1, <3>2, <4>1
    <3>3. CASE n # turn
      <4>1. asOf'[n] = asOf[n]
        BY <2>1, <3>3 DEF FeedsInv
      <4> QED  BY <3>1, <4>1
    <3> QED  BY <3>2, <3>3
  <2>4. asOf' \in [DOMAIN Feeds -> Nat]
    <3>1. DOMAIN asOf' = DOMAIN Feeds /\ asOf' = [n \in DOMAIN asOf' |-> asOf'[n]]
      BY <2>1 DEF FeedsInv
    <3> QED  BY <2>3, <3>1
  <2>5. \A n \in DOMAIN Feeds : asOf'[n] <= now'
    BY <1>1, <2>3, <2>4
  <2> QED  BY <1>1, <2>2, <2>4, <2>5 DEF FeedsInv
<1>4. ASSUME NEW n \in DOMAIN Feeds, ReadTick(n)
      PROVE  FeedsInv'
  <2>1. asOf' = asOf /\ data' = <<[symbol |-> Feeds[n], asOf |-> asOf[n]]>>
    BY <1>4 DEF ReadTick
  <2>2. data'[1].symbol = Feeds[n] /\ data'[1].asOf = asOf[n]
    BY <2>1
  <2>3. Feeds[n] \in Symbols /\ asOf[n] \in Nat /\ asOf[n] <= now
    BY FeedTyped DEF FeedsInv
  <2> QED  BY <1>1, <2>1, <2>2, <2>3 DEF FeedsInv
<1>5. CASE ProcessTick
  <2>1. asOf' = asOf /\ data' = <<>>
    BY <1>5 DEF ProcessTick, feeds
  <2> QED  BY <1>1, <2>1 DEF FeedsInv
<1> QED  BY <1>2, <1>3, <1>4, <1>5
         DEF LoopNext, Loop, Others, Elapse, Boots, Sleep, Flush, Flushing, Timer, feeds,
             loopVars, allVars

\* The steps of the other threads, and those that change nothing.
Aside ==
  /\ UNCHANGED <<loop, data, waiting, known>>
  /\ \/ Advance \/ (\E c \in Orders : Enqueue(c)) \/ OutOfMemory \/ StrayWrite
     \/ UNCHANGED vars

LEMMA LoopCases ==
  ASSUME [LoopNext]_allVars
  PROVE  \/ Aside \/ Boots \/ (\E n \in DOMAIN Feeds : ReadTick(n))
         \/ Sleep \/ Flush \/ Flushing \/ ProcessTick \/ Timer
BY DEF LoopNext, Loop, Others, Elapse, PublishTick, Aside, loopVars, allVars

LEMMA AsideKeeps ==
  ASSUME Inv, Aside
  PROVE  /\ pc' = pc \/ pc' = "dead"
         /\ metas' = metas
         /\ ToSet(opened) \subseteq ToSet(opened')
<1>1. ASSUME NEW c \in Orders, Enqueue(c)
      PROVE  ToSet(opened) \subseteq ToSet(opened')
  <2>1. opened \in Seq(Orders)
    BY DEF Inv, TypeInv, TypeOK
  <2>2. ToSet(Append(opened, c)) = ToSet(opened) \cup {c}
    BY <2>1, SetOfAppend
  <2> QED  BY <1>1, <2>2 DEF Enqueue
<1> QED  BY <1>1 DEF Aside, Advance, Enqueue, OutOfMemory, StrayWrite, vars, server, flush

LEMMA PlacesStep ==
  ASSUME Inv, PlacesInv, [LoopNext]_allVars
  PROVE  PlacesInv'
<1>1. CASE Aside
  <2>1. (pc' = pc \/ pc' = "dead") /\ metas' = metas
    BY <1>1, AsideKeeps
  <2> QED  BY <1>1, <2>1 DEF PlacesInv, Aside
<1>2. CASE Boots
  BY <1>2 DEF PlacesInv, Boots
<1>3. ASSUME NEW n \in DOMAIN Feeds, ReadTick(n)
      PROVE  PlacesInv'
  BY <1>3 DEF PlacesInv, ReadTick, Goto, Pending
<1>4. CASE Sleep \/ ProcessTick \/ Timer
  BY <1>4 DEF PlacesInv, Sleep, ProcessTick, Timer, Goto
<1>5. CASE Flush
  BY <1>5 DEF PlacesInv, Flush, Goto
<1>6. CASE Flushing
  <2>1. CASE pc' # "idle"
    BY <1>6, <2>1 DEF PlacesInv, Flushing
  <2>2. CASE pc' = "idle" /\ data # <<>>
    <3>1. metas' = <<>>
      BY <2>2, StepInv, LoopImplements DEF Inv, TypeInv
    <3> QED  BY <1>6, <2>2, <3>1 DEF PlacesInv, Flushing
  <2>3. CASE pc' = "idle" /\ data = <<>>
    BY <1>6, <2>3 DEF PlacesInv, Flushing
  <2> QED  BY <2>1, <2>2, <2>3
<1> QED  BY <1>1, <1>2, <1>3, <1>4, <1>5, <1>6, LoopCases

LEMMA WaitingStep ==
  ASSUME Inv, PlacesInv, WaitingInv, [LoopNext]_allVars
  PROVE  WaitingInv'
<1>1. \A c \in Orders : Located(c) => Located(c)'
  BY LocatedStays, LoopImplements
<1>2. waiting \subseteq Orders
  BY DEF WaitingInv
<1>3. CASE Aside
  <2>1. /\ pc' = pc \/ pc' = "dead"
        /\ ToSet(opened) \subseteq ToSet(opened')
        /\ UNCHANGED <<loop, data, waiting>>
    BY <1>3, AsideKeeps DEF Aside
  <2>2. loop = "flush" => waiting \subseteq ToSet(opened')
    BY <2>1 DEF WaitingInv
  <2>3. loop = "flushing" /\ pc = "drain" => \A c \in waiting : c \in ToSet(opened') \/ Located(c)'
    BY <1>1, <1>2, <2>1 DEF WaitingInv
  <2>4. loop = "tick" \/ (loop = "flushing" /\ pc = "place") => \A c \in waiting : Located(c)'
    BY <1>1, <1>2 DEF WaitingInv
  <2> QED  BY <1>2, <2>1, <2>2, <2>3, <2>4 DEF WaitingInv
<1>4. CASE Boots
  <2>1. loop' \in {"boot", "poll"} /\ UNCHANGED <<data, waiting>>
    BY <1>4 DEF Boots
  <2> QED  BY <2>1 DEF WaitingInv
<1>5. ASSUME NEW n \in DOMAIN Feeds, ReadTick(n)
      PROVE  WaitingInv'
  <2>1. loop' = "flush" /\ data' # <<>> /\ waiting' = ToSet(opened) /\ opened' = opened
    BY <1>5 DEF ReadTick, Goto, Pending, vars, server
  <2>2. ToSet(opened) \subseteq Orders
    BY SetOfSeq DEF Inv, TypeInv, TypeOK
  <2> QED  BY <2>1, <2>2 DEF WaitingInv
<1>6. CASE Sleep \/ ProcessTick \/ Timer
  <2>1. /\ loop' \notin {"tick", "flushing"}
        /\ waiting' = {} \/ (data' = data /\ waiting' = waiting)
        /\ loop' = "flush" => waiting' = {}
    BY <1>6 DEF Sleep, ProcessTick, Timer, Goto, PlacesInv, WaitingInv
  <2> QED  BY <2>1 DEF WaitingInv
<1>7. CASE Flush
  <2>1. /\ loop = "flush" /\ loop' = "flushing" /\ UNCHANGED <<data, waiting, opened>>
        /\ pc' # "place"
    BY <1>7 DEF Flush, Goto, StartFlush, HangInRetire, Retire, server
  <2>2. waiting \subseteq ToSet(opened)
    BY <2>1 DEF WaitingInv
  <2> QED  BY <2>1, <2>2 DEF WaitingInv
<1>8. CASE Flushing
  <2>1. /\ loop = "flushing" /\ UNCHANGED <<data, waiting>>
        /\ loop' = "tick" => pc' = "idle"
        /\ loop' # "flush"
    BY <1>8 DEF Flushing
  <2>2. CASE PopContract
    <3>1. pc = "drain" /\ pc' = "drain" /\ opened # <<>> /\ opened' = Tail(opened)
      BY <2>2 DEF PopContract
    <3>2. PICK c : c = Head(opened)
      OBVIOUS
    <3>3. Located(c)'
      BY <2>2, <3>2, PopLocates
    <3>4. \A x \in ToSet(opened) : x = c \/ x \in ToSet(opened')
      <4>1. opened \in Seq(Orders) /\ Len(opened) \in Nat /\ Len(opened) >= 1
        BY <3>1 DEF Inv, TypeInv, TypeOK
      <4>2. /\ DOMAIN opened = 1 .. Len(opened) /\ DOMAIN opened' = 1 .. (Len(opened) - 1)
            /\ \A j \in 1 .. (Len(opened) - 1) : opened'[j] = opened[j + 1]
            /\ opened[1] = c
        BY <3>1, <3>2, <4>1
      <4>3. ASSUME NEW i \in 1 .. Len(opened), i # 1
            PROVE  opened[i] \in ToSet(opened')
        <5>1. i - 1 \in 1 .. (Len(opened) - 1) /\ (i - 1) + 1 = i
          BY <4>1, <4>3
        <5> QED  BY <4>2, <5>1 DEF ToSet
      <4> QED  BY <4>2, <4>3 DEF ToSet
    <3>5. ASSUME NEW x \in waiting
          PROVE  x \in ToSet(opened') \/ Located(x)'
      <4>1. x \in ToSet(opened) \/ Located(x)
        BY <2>1, <3>1 DEF WaitingInv
      <4> QED  BY <1>1, <1>2, <3>3, <3>4, <4>1
    <3>6. loop' = "flushing"
      BY <1>8, <3>1 DEF Flushing
    <3> QED  BY <1>2, <2>1, <3>1, <3>5, <3>6 DEF WaitingInv
  <2>3. CASE Drained
    <3>1. pc = "drain" /\ opened = <<>> /\ ToSet(opened) = {}
      BY <2>3 DEF Drained, ToSet
    <3>2. \A x \in waiting : Located(x)
      BY <2>1, <3>1 DEF WaitingInv
    <3>3. pc' = "place"
      BY <2>3 DEF Drained
    <3> QED  BY <1>1, <1>2, <2>1, <3>2, <3>3 DEF WaitingInv
  <2>4. CASE DieOnMalformed
    <3>1. pc' = "dead"
      BY <2>4 DEF DieOnMalformed
    <3> QED  BY <2>1, <3>1 DEF WaitingInv
  <2>5. CASE Place
    <3>1. pc = "place" /\ pc' \in {"place", "idle"}
      BY <2>5 DEF Place, CreateBatch, RecreateBatch, SkipContract, AppendContract,
                  AppendPastEnds, GrowRange, NextMeta, FlushDone
    <3>2. \A x \in waiting : Located(x)'
      BY <1>1, <1>2, <2>1, <3>1 DEF WaitingInv
    <3> QED  BY <2>1, <3>1, <3>2 DEF WaitingInv
  <2> QED  BY <1>8, <2>2, <2>3, <2>4, <2>5 DEF Flushing, Pop
<1> QED  BY <1>3, <1>4, <1>5, <1>6, <1>7, <1>8, LoopCases

LEMMA KnownGrows ==
  ASSUME Inv, GraceInv, [LoopNext]_allVars, known' = known
  PROVE  known' \in [Symbols -> Nat] /\ \A s \in Symbols : known'[s] <= Len(reg'.expiries[s])
<1>1. ASSUME NEW s \in Symbols
      PROVE  known[s] <= Len(reg'.expiries[s])
  <2>1. Len(reg.expiries[s]) <= Len(reg'.expiries[s])
    BY ExpiriesStay, LoopImplements
  <2>2. Len(reg.expiries[s]) \in Nat
    BY ExpiriesTyped, LenProperties
  <2>3. reg'.expiries[s] \in Seq(Nat)
    BY StepInv, LoopImplements DEF Inv, TypeInv, TypeOK
  <2>4. Len(reg'.expiries[s]) \in Nat
    BY <2>3, LenProperties
  <2>5. known[s] \in Nat /\ known[s] <= Len(reg.expiries[s])
    BY DEF GraceInv
  <2> QED  BY <2>1, <2>2, <2>4, <2>5
<1> QED  BY <1>1 DEF GraceInv

\* What was out of its time stays so: what retired does not come back, and a
\* new expiry is not among the known.
LEMMA GraceKept ==
  ASSUME Inv, FeedsInv, GraceInv, [LoopNext]_allVars,
         UNCHANGED <<data, known>>, Flushed' => Flushed
  PROVE  GraceInv'
<1>1. known' \in [Symbols -> Nat] /\ \A s \in Symbols : known'[s] <= Len(reg'.expiries[s])
  BY KnownGrows
<1>2. ASSUME Flushed', data # <<>>, NEW s, s = data[1].symbol,
             NEW e \in DOMAIN reg'.expiries[s], e <= known[s],
             reg'.expiries[s][e] \in reg'.queue[s]
      PROVE  data[1].asOf < reg'.expiries[s][e] + Grace
  <2>1. s \in Symbols
    BY <1>2 DEF FeedsInv
  <2>2. e \in DOMAIN reg.expiries[s]
    <3>1. e \in DOMAIN reg.expiries[s] \/ e = Len(reg.expiries[s]) + 1
      BY <1>2, <2>1, ExpiriesStay, LoopImplements
    <3>2. Len(reg.expiries[s]) \in Nat
      BY <2>1, ExpiriesTyped, LenProperties
    <3>3. known[s] \in Nat /\ known[s] <= Len(reg.expiries[s])
      BY <2>1 DEF GraceInv
    <3> QED  BY <1>2, <3>1, <3>2, <3>3
  <2>3. reg'.expiries[s][e] = reg.expiries[s][e] /\ reg.expiries[s][e] \in reg.queue[s]
    BY <1>2, <2>1, <2>2, ExpiriesStay, LoopImplements
  <2>4. data[1].asOf < reg.expiries[s][e] + Grace
    BY <1>2, <2>2, <2>3 DEF GraceInv
  <2> QED  BY <2>3, <2>4
<1>3. data' = data /\ known' = known
  OBVIOUS
<1> QED  BY <1>1, <1>2, <1>3 DEF GraceInv

LEMMA GraceStep ==
  ASSUME Inv, FeedsInv, PlacesInv, GraceInv, [LoopNext]_allVars
  PROVE  GraceInv'
<1>1. CASE Aside
  <2>1. UNCHANGED <<data, known>> /\ (Flushed' => Flushed)
    BY <1>1, AsideKeeps DEF Aside, Flushed
  <2> QED  BY <2>1, GraceKept
<1>2. CASE Boots
  <2>1. UNCHANGED <<data, known>> /\ ~Flushed'
    BY <1>2 DEF Boots, Flushed
  <2> QED  BY <2>1, GraceKept
<1>3. ASSUME NEW n \in DOMAIN Feeds, ReadTick(n)
      PROVE  GraceInv'
  <2>1. known' = known /\ ~Flushed'
    BY <1>3 DEF ReadTick, Goto, Pending, Flushed
  <2> QED  BY <2>1, KnownGrows DEF GraceInv
<1>4. CASE Sleep \/ ProcessTick \/ Timer
  <2>1. known' = known /\ ~Flushed'
    BY <1>4 DEF Sleep, ProcessTick, Timer, Goto, Flushed
  <2> QED  BY <2>1, KnownGrows DEF GraceInv
<1>5. CASE Flush
  <2>1. /\ data' = data /\ known' = [s \in Symbols |-> Len(reg.expiries[s])]
        /\ HangInRetire \/ Retire
    BY <1>5 DEF Flush, StartFlush
  <2>2. reg'.expiries = reg.expiries
    BY <2>1, RetireFacts DEF HangInRetire
  <2>3. \A s \in Symbols : Len(reg.expiries[s]) \in Nat
    BY ExpiriesTyped, LenProperties
  <2>4. known' \in [Symbols -> Nat] /\ \A s \in Symbols : known'[s] <= Len(reg'.expiries[s])
    BY <2>1, <2>2, <2>3
  <2>5. CASE HangInRetire
    <3>1. ~Flushed'
      BY <1>5, <2>5 DEF Flush, Goto, HangInRetire, Flushed
    <3> QED  BY <2>4, <3>1 DEF GraceInv
  <2>6. CASE Retire
    <3>1. ASSUME data # <<>>, NEW s, s = data[1].symbol, NEW e \in DOMAIN reg.expiries[s],
                 reg.expiries[s][e] \in reg'.queue[s]
          PROVE  data[1].asOf < reg.expiries[s][e] + Grace
      <4>1. s \in Symbols /\ data[1].asOf \in Nat /\ data[1].asOf <= now
        BY <3>1 DEF FeedsInv
      <4>2. reg.expiries[s][e] \in reg.queue[s] /\ reg.expiries[s][e] \notin Due(s)
        BY <2>6, <3>1, <4>1, RetireFacts
      <4>3. ~(now >= reg.expiries[s][e] + Grace)
        BY <4>2 DEF Due
      <4>4. reg.expiries[s][e] \in Nat /\ now \in Nat /\ Grace \in Nat
        BY <3>1, <4>1, ExpiriesTyped, ClockGrows, LoopImplements, GraceAssumption
      <4> QED  BY <4>1, <4>3, <4>4
    <3> QED  BY <2>1, <2>2, <2>4, <3>1 DEF GraceInv
  <2> QED  BY <2>1, <2>5, <2>6
<1>6. CASE Flushing
  <2>1. UNCHANGED <<data, known>> /\ loop = "flushing" /\ pc \in {"drain", "place"}
    BY <1>6 DEF Flushing, Pop, Place, PopContract, DieOnMalformed, Drained, CreateBatch,
                RecreateBatch, SkipContract, AppendContract, AppendPastEnds, GrowRange,
                NextMeta, FlushDone
  <2> QED  BY <2>1, GraceKept DEF Flushed
<1> QED  BY <1>1, <1>2, <1>3, <1>4, <1>5, <1>6, LoopCases

LEMMA LoopInitInv == LoopInit => LoopInv
<1> SUFFICES ASSUME LoopInit PROVE LoopInv
  OBVIOUS
<1>1. Inv
  BY InitInv DEF LoopInit
<1>2. /\ loop = "boot" /\ data = <<>> /\ waiting = {} /\ known = [s \in Symbols |-> 0]
      /\ asOf = [n \in DOMAIN Feeds |-> 0]
      /\ now = 0 /\ reg.expiries = [s \in Symbols |-> <<>>]
  BY DEF LoopInit, Init, EmptyRegistry
<1>3. DistinctExpiries /\ FeedsInv /\ PlacesInv /\ WaitingInv
  BY <1>2 DEF DistinctExpiries, FeedsInv, PlacesInv, WaitingInv
<1>4. \A s \in Symbols : known[s] <= Len(reg.expiries[s])
  BY <1>2
<1>5. GraceInv
  BY <1>2, <1>4 DEF GraceInv
<1> QED  BY <1>1, <1>3, <1>5 DEF LoopInv

LEMMA LoopStep == LoopInv /\ [LoopNext]_allVars => LoopInv'
<1> SUFFICES ASSUME LoopInv, [LoopNext]_allVars PROVE LoopInv'
  OBVIOUS
<1>1. Inv' /\ DistinctExpiries'
  BY StepInv, DistinctStep, LoopImplements DEF LoopInv
<1>2. FeedsInv' /\ PlacesInv' /\ WaitingInv' /\ GraceInv'
  BY FeedsStep, PlacesStep, WaitingStep, GraceStep DEF LoopInv
<1> QED  BY <1>1, <1>2 DEF LoopInv

LEMMA LoopInvariance == LoopSpec => []LoopInv
  BY LoopInitInv, LoopStep, PTL DEF LoopSpec

(***************************************************************************)
(* Whatever the loop does between the steps of a flush, and whatever the   *)
(* feeds and the clocks do, the orchestrator goes through a behaviour of   *)
(* its own specification, which the theorems above are about.              *)
(***************************************************************************)
THEOREM LoopIsAnOrchestrator == LoopSpec => Spec
<1>1. LoopInit => Init
  BY DEF LoopInit
<1>2. [LoopNext]_allVars => [Next]_vars
  BY LoopImplements
<1> QED  BY <1>1, <1>2, PTL DEF LoopSpec, Spec

(***************************************************************************)
(* A contract of the tick's symbol that waited when the tick was read is   *)
(* among those the tick prices.                                            *)
(***************************************************************************)
THEOREM WaitingIsPricedThm == LoopSpec => []WaitingIsPriced
<1>1. ASSUME LoopInv PROVE WaitingIsPriced
  <2> SUFFICES ASSUME loop = "tick", NEW c \in waiting, c.symbol = Priced,
                      ~Retired(c), c.symbol \notin strayed, ~PastEnds(c)
               PROVE  IsPriced(c)
    BY DEF WaitingIsPriced
  <2>1. c \in Orders /\ Located(c) /\ pc # "boot" /\ metas = <<>>
    BY <1>1 DEF LoopInv, WaitingInv, PlacesInv
  <2>2. c.symbol \in Symbols
    BY <2>1 DEF Symbols
  <2>3. PICK e \in DOMAIN reg.expiries[c.symbol] :
          /\ reg.expiries[c.symbol][e] = c.expiry
          /\ {StoredKey(c), LookupKey(c)} \cap ToSet(reg.contracts[c.symbol][e]) # {}
    BY <2>1 DEF Located
  <2>4. HasExpiry(reg, c.symbol, c.expiry)
    BY <2>3 DEF HasExpiry, ToSet
  <2>5. e = IdOf(reg, c.symbol, c.expiry)
    BY <1>1, <2>2, <2>3, <2>4, IdFacts DEF LoopInv, DistinctExpiries
  <2>6. c.expiry \in reg.queue[c.symbol] /\ <<c.symbol, e>> \notin Overran
    BY <2>4, <2>5 DEF Retired, PastEnds
  <2>7. DOMAIN metas = {}
    BY <2>1
  <2>8. e \in DOMAIN batches[c.symbol]
    BY <1>1, <2>1, <2>2, <2>3, <2>6, <2>7 DEF LoopInv, Inv, ServeInv, Served, PendingSlice
  <2>9. ToSet(reg.contracts[c.symbol][e]) \subseteq ToSet(batches[c.symbol][e])
    <3>1. \A i \in DOMAIN reg.contracts[c.symbol][e] :
            reg.contracts[c.symbol][e][i] \in ToSet(batches[c.symbol][e])
      BY <1>1, <2>2, <2>6, <2>7, <2>8 DEF LoopInv, Inv, SliceInv, Whole, HasMeta
    <3> QED  BY <3>1 DEF ToSet
  <2>10. PICK k \in {StoredKey(c), LookupKey(c)} : k \in ToSet(batches[c.symbol][e])
    BY <2>3, <2>9
  <2>11. <<c.symbol, e, k>> \in PricedByTick
    BY <2>8, <2>10 DEF PricedByTick
  <2> QED  BY <2>3, <2>10, <2>11 DEF IsPriced
<1> QED  BY <1>1, LoopInvariance, PTL

(***************************************************************************)
(* No batch is priced out of its time, where expiry - as_of wraps around,  *)
(* except for a stale pointer or an order that came too late.              *)
(***************************************************************************)
THEOREM WrapsOnlyInGraceThm == LoopSpec => []WrapsOnlyInGrace
<1>1. ASSUME LoopInv PROVE WrapsOnlyInGrace
  <2> SUFFICES ASSUME loop = "tick", NEW e \in DOMAIN batches[Priced], Priced \notin strayed,
                      <<Priced, e>> \notin late, ~(e > known[Priced])
               PROVE  data[1].asOf < reg.expiries[Priced][e] + Grace
    BY DEF WrapsOnlyInGrace
  <2>1. data # <<>> /\ pc # "boot" /\ metas = <<>> /\ Flushed
    BY <1>1 DEF LoopInv, PlacesInv, Flushed
  <2>2. Priced \in Symbols
    BY <1>1, <2>1 DEF LoopInv, FeedsInv, Priced
  <2>3. e \in DOMAIN reg.expiries[Priced]
    BY <1>1, <2>2 DEF LoopInv, Inv, TypeInv, TypeOK
  <2>4. reg.expiries[Priced][e] \in reg.queue[Priced]
    BY <1>1, <2>1, <2>2, <2>3 DEF LoopInv, Inv, ServeInv, Served
  <2>5. e <= known[Priced]
    <3>1. e \in Nat /\ known[Priced] \in Nat
      BY <1>1, <2>2, <2>3, ExpiriesTyped, LenProperties DEF LoopInv, GraceInv
    <3> QED  BY <3>1
  <2> QED  BY <1>1, <2>1, <2>3, <2>4, <2>5 DEF LoopInv, GraceInv, Priced
<1> QED  BY <1>1, LoopInvariance, PTL
=============================================================================
