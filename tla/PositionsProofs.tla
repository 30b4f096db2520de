--------------------------- MODULE PositionsProofs ---------------------------
(***************************************************************************)
(* Theorems of Positions, for any requests, orders, contracts and bounds.  *)
(***************************************************************************)
EXTENDS Positions, FiniteSetTheorems, SequenceTheorems, WellFoundedInduction, TLAPS

\* A request that may still write to Redis.
Working(r) == pc[r] \in {"ask", "decide", "execute"}

\* What Redis answered is what was last seen; it may be stale, but a position
\* that was there still is.
AnswerInv(r) ==
  pc[r] = "decide" =>
    /\ size[r] = saw[r][Order(r).key]
    /\ size[r] = {} => Order(r).key \notin began[r]
    /\ size[r] # {} =>
         Order(r).key \in DOMAIN positions /\ \E v \in size[r] : size[r] = {v}

\* HSET is only for contracts that the core will be told of and that were not
\* open when the request began, HINCRBY only for open positions.
PipeInv(r) ==
  Working(r) =>
    /\ began[r] \subseteq DOMAIN positions
    /\ \A i \in DOMAIN pipe[r] :
         IF pipe[r][i].set
         THEN pipe[r][i].key \in ToSet(new[r]) /\ pipe[r][i].key \notin began[r]
         ELSE pipe[r][i].key \in DOMAIN positions

Single(r, k) == Cardinality(OrdersOn(r, k)) = 1

\* The units that were seen when the command was queued cover it.
Covered(r, c) ==
  IF c.set THEN saw[r][c.key] = {} /\ c.delta >= 0
  ELSE \E v \in saw[r][c.key] : saw[r][c.key] = {v} /\ v + c.delta >= 0

\* A contract with one order has at most one command, and no later answer.
SaleInv(r) ==
  Working(r) =>
    /\ \A i \in DOMAIN pipe[r] :
         \E j \in DOMAIN OrdersOf[r] : j < n[r] /\ OrdersOf[r][j].key = pipe[r][i].key
    /\ \A i, j \in DOMAIN pipe[r] :
         pipe[r][i].key = pipe[r][j].key /\ Single(r, pipe[r][i].key) => i = j
    /\ \A i \in DOMAIN pipe[r] : Single(r, pipe[r][i].key) => Covered(r, pipe[r][i])

RequestInv(r) ==
  /\ pc[r] \in {"idle", "ask", "decide"} => n[r] \in DOMAIN OrdersOf[r]
  /\ pc[r] = "idle" => pipe[r] = <<>> /\ new[r] = <<>>
  /\ AnswerInv(r) /\ PipeInv(r) /\ SaleInv(r)

OneStream == \A r, s \in Requests : pc[r] = "stream" /\ pc[s] = "stream" => r = s

Inv ==
  /\ TypeOK
  /\ OneStream
  /\ \A r \in Requests : RequestInv(r)
  /\ NoPositionForgotten

-----------------------------------------------------------------------------
(* Induction, by a least counterexample.                                    *)

LEMMA Induct ==
  ASSUME NEW S, 0 \in S, \A x \in Nat : x \in S => x + 1 \in S
  PROVE  \A x \in Nat : x \in S
<1> DEFINE T == Nat \ S
<1>1. T \subseteq Nat
  OBVIOUS
<1>2. ASSUME T # {} PROVE FALSE
  <2>1. PICK x \in T : \A y \in T : <<y, x>> \notin OpToRel(<, Nat)
    <3> HIDE DEF T
    <3> QED  BY <1>1, <1>2, NatLessThanWellFounded, WFMin
  <2>2. \A y \in T : ~(y < x)
    BY <1>1, <2>1 DEF OpToRel
  <2>3. x \in Nat /\ x \notin S
    BY <2>1
  <2>4. x # 0
    BY <2>3
  <2>5. x - 1 \in Nat /\ x - 1 < x /\ (x - 1) + 1 = x
    BY <2>3, <2>4
  <2>6. x - 1 \in S
    BY <2>2, <2>5
  <2> QED  BY <2>3, <2>5, <2>6
<1> QED  BY <1>2

\* What the commands of a transaction leave, one after the other.
After(p, q) ==
  CHOOSE f : f = [j \in 0 .. Len(q) |-> IF j = 0 THEN p ELSE Applied(f[j - 1], q[j])]

LEMMA AfterExists ==
  ASSUME NEW p, NEW q, Len(q) \in Nat
  PROVE  After(p, q) = [j \in 0 .. Len(q) |->
                          IF j = 0 THEN p ELSE Applied(After(p, q)[j - 1], q[j])]
<1> DEFINE Is(f, l) == f = [j \in 0 .. l |-> IF j = 0 THEN p ELSE Applied(f[j - 1], q[j])]
           S == {l \in Nat : \E f : Is(f, l)}
<1>1. 0 \in S
  <2>1. Is([j \in 0 .. 0 |-> p], 0)
    OBVIOUS
  <2> QED  BY <2>1
<1>2. ASSUME NEW l \in Nat, l \in S PROVE l + 1 \in S
  <2>1. PICK f : Is(f, l)
    BY <1>2
  <2> DEFINE g == [j \in 0 .. l + 1 |-> IF j = l + 1 THEN Applied(f[l], q[l + 1]) ELSE f[j]]
  <2>2. \A j \in 0 .. l + 1 : g[j] = IF j = 0 THEN p ELSE Applied(g[j - 1], q[j])
    <3> SUFFICES ASSUME NEW j \in 0 .. l + 1
                 PROVE  g[j] = IF j = 0 THEN p ELSE Applied(g[j - 1], q[j])
      OBVIOUS
    <3>1. CASE j = 0
      BY <2>1, <3>1
    <3>2. CASE j \in 1 .. l
      <4>1. g[j] = f[j] /\ g[j - 1] = f[j - 1]
        BY <3>2
      <4>2. f[j] = Applied(f[j - 1], q[j])
        BY <2>1, <3>2
      <4> QED  BY <3>2, <4>1, <4>2
    <3>3. CASE j = l + 1
      <4>1. g[j] = Applied(f[l], q[l + 1]) /\ g[j - 1] = f[l]
        BY <3>3
      <4> QED  BY <3>3, <4>1
    <3> QED  BY <3>1, <3>2, <3>3
  <2>3. Is(g, l + 1)
    <3> HIDE DEF g
    <3>1. g = [j \in 0 .. l + 1 |-> g[j]]
      BY DEF g
    <3> QED  BY <2>2, <3>1
  <2> QED  BY <2>3, l + 1 \in Nat
<1>3. Len(q) \in S
  <2> HIDE DEF S
  <2> QED  BY <1>1, <1>2, Induct
<1>4. \E f : Is(f, Len(q))
  BY <1>3
<1> QED  BY <1>4, Zenon DEF After

LEMMA AfterStep ==
  ASSUME NEW p, NEW q \in Seq(Commands)
  PROVE  /\ After(p, q)[0] = p
         /\ \A j \in 0 .. Len(q) - 1 :
              After(p, q)[j + 1] = Applied(After(p, q)[j], q[j + 1])
         /\ AppliedAll(p, q) = After(p, q)[Len(q)]
<1> DEFINE f == After(p, q)
<1>1. Len(q) \in Nat
  OBVIOUS
<1>2. f = [j \in 0 .. Len(q) |-> IF j = 0 THEN p ELSE Applied(f[j - 1], q[j])]
  BY <1>1, AfterExists
<1>3. AppliedAll(p, q) = f[Len(q)]
  BY DEF AppliedAll, After
<1> HIDE DEF f
<1>4. f[0] = p
  BY <1>1, <1>2
<1>5. ASSUME NEW j \in 0 .. Len(q) - 1 PROVE f[j + 1] = Applied(f[j], q[j + 1])
  <2>1. j + 1 \in 0 .. Len(q) /\ j + 1 # 0 /\ (j + 1) - 1 = j
    BY <1>1
  <2> QED  BY <1>2, <2>1
<1> QED  BY <1>3, <1>4, <1>5 DEF f

LEMMA AppliedFacts ==
  ASSUME NEW p, p \in [DOMAIN p -> Int], NEW c \in Commands
  PROVE  /\ Applied(p, c) \in [DOMAIN Applied(p, c) -> Int]
         /\ DOMAIN Applied(p, c) = DOMAIN p \cup {c.key}
         /\ \A k \in DOMAIN p : k # c.key => Applied(p, c)[k] = p[k]
         /\ Applied(p, c)[c.key] =
              IF c.set \/ c.key \notin DOMAIN p THEN c.delta ELSE p[c.key] + c.delta
<1> DEFINE v == IF c.set \/ c.key \notin DOMAIN p THEN c.delta ELSE p[c.key] + c.delta
<1>1. v \in Int
  BY DEF Commands
<1>2. Applied(p, c) = [x \in DOMAIN p \cup {c.key} |-> IF x = c.key THEN v ELSE p[x]]
  BY DEF Applied, Put
<1> HIDE DEF v
<1> QED  BY <1>1, <1>2 DEF v

\* The first j commands open the positions they name and close none.
LEMMA AfterFacts ==
  ASSUME NEW p, p \in [DOMAIN p -> Int], NEW q \in Seq(Commands)
  PROVE  \A j \in 0 .. Len(q) :
           /\ After(p, q)[j] \in [DOMAIN After(p, q)[j] -> Int]
           /\ DOMAIN After(p, q)[j] = DOMAIN p \cup {q[i].key : i \in 1 .. j}
<1> DEFINE f == After(p, q)
           D(j) == DOMAIN p \cup {q[i].key : i \in 1 .. j}
           S == {j \in Nat : j <= Len(q) => f[j] \in [DOMAIN f[j] -> Int] /\ DOMAIN f[j] = D(j)}
<1>1. Len(q) \in Nat /\ DOMAIN q = 1 .. Len(q)
  OBVIOUS
<1>2. 0 \in S
  <2>1. f[0] = p
    BY AfterStep
  <2>2. D(0) = DOMAIN p
    <3>1. 1 .. 0 = {}
      OBVIOUS
    <3> QED  BY <3>1
  <2> HIDE DEF f, D
  <2> QED  BY <2>1, <2>2
<1>3. ASSUME NEW j \in Nat, j \in S PROVE j + 1 \in S
  <2> SUFFICES ASSUME j + 1 <= Len(q)
               PROVE  f[j + 1] \in [DOMAIN f[j + 1] -> Int] /\ DOMAIN f[j + 1] = D(j + 1)
    OBVIOUS
  <2>1. f[j] \in [DOMAIN f[j] -> Int] /\ DOMAIN f[j] = D(j)
    BY <1>1, <1>3
  <2>2. j \in 0 .. Len(q) - 1 /\ j + 1 \in 1 .. Len(q)
    BY <1>1
  <2>3. f[j + 1] = Applied(f[j], q[j + 1])
    BY <2>2, AfterStep
  <2>4. q[j + 1] \in Commands
    BY <2>2
  <2>5. D(j + 1) = D(j) \cup {q[j + 1].key}
    <3>1. \A i \in 1 .. j + 1 : i \in 1 .. j \/ i = j + 1
      OBVIOUS
    <3>2. 1 .. j \subseteq 1 .. j + 1 /\ j + 1 \in 1 .. j + 1
      OBVIOUS
    <3> QED  BY <3>1, <3>2
  <2> DEFINE g == f[j]
             c == q[j + 1]
  <2>6. /\ Applied(g, c) \in [DOMAIN Applied(g, c) -> Int]
        /\ DOMAIN Applied(g, c) = DOMAIN g \cup {c.key}
    <3> HIDE DEF f, g, c, D
    <3>1. g \in [DOMAIN g -> Int] /\ c \in Commands
      BY <2>1, <2>4 DEF g, c
    <3> QED  BY <3>1, AppliedFacts
  <2> HIDE DEF f, D
  <2> QED  BY <2>1, <2>3, <2>5, <2>6
<1>4. \A j \in Nat : j \in S
  <2> HIDE DEF S
  <2> QED  BY <1>2, <1>3, Induct
<1> QED  BY <1>1, <1>4

\* So does the whole transaction.
LEMMA TransactionFacts ==
  ASSUME NEW p, p \in [DOMAIN p -> Int], NEW q \in Seq(Commands)
  PROVE  /\ AppliedAll(p, q) \in [DOMAIN AppliedAll(p, q) -> Int]
         /\ DOMAIN AppliedAll(p, q) = DOMAIN p \cup {q[i].key : i \in DOMAIN q}
<1>1. Len(q) \in 0 .. Len(q) /\ DOMAIN q = 1 .. Len(q)
  OBVIOUS
<1>2. AppliedAll(p, q) = After(p, q)[Len(q)]
  BY AfterStep
<1> QED  BY <1>1, <1>2, AfterFacts

\* A contract with one command in the transaction ends where that one puts it.
LEMMA AppliedOnce ==
  ASSUME NEW p, p \in [DOMAIN p -> Int], NEW q \in Seq(Commands), NEW m \in DOMAIN q,
         \A i \in DOMAIN q : q[i].key = q[m].key => i = m
  PROVE  AppliedAll(p, q)[q[m].key] =
           IF q[m].set \/ q[m].key \notin DOMAIN p
           THEN q[m].delta ELSE p[q[m].key] + q[m].delta
<1> DEFINE f == After(p, q)
           k == q[m].key
           v == IF q[m].set \/ k \notin DOMAIN p THEN q[m].delta ELSE p[k] + q[m].delta
           S == {j \in Nat : j <= Len(q) =>
                   IF j < m
                   THEN /\ k \in DOMAIN f[j] <=> k \in DOMAIN p
                        /\ k \in DOMAIN p => f[j][k] = p[k]
                   ELSE f[j][k] = v}
<1>1. Len(q) \in Nat /\ DOMAIN q = 1 .. Len(q) /\ m \in Nat /\ 1 <= m /\ m <= Len(q)
  OBVIOUS
<1>2. 0 \in S
  <2>1. f[0] = p
    BY AfterStep
  <2> HIDE DEF f, k, v
  <2> QED  BY <1>1, <2>1
<1>3. ASSUME NEW j \in Nat, j \in S PROVE j + 1 \in S
  <2> DEFINE g == f[j]
             c == q[j + 1]
  <2> SUFFICES ASSUME j + 1 <= Len(q)
               PROVE  IF j + 1 < m
                      THEN /\ k \in DOMAIN f[j + 1] <=> k \in DOMAIN p
                           /\ k \in DOMAIN p => f[j + 1][k] = p[k]
                      ELSE f[j + 1][k] = v
    <3> HIDE DEF f, k, v
    <3> QED  OBVIOUS
  <2>1. j \in 0 .. Len(q) - 1 /\ j \in 0 .. Len(q) /\ j + 1 \in DOMAIN q
    BY <1>1
  <2>2. f[j + 1] = Applied(g, c)
    BY <2>1, AfterStep
  <2>3. g \in [DOMAIN g -> Int] /\ c \in Commands
    BY <2>1, AfterFacts
  <2>4. c.key = k => j + 1 = m
    BY <2>1
  <2>5. IF j < m
        THEN /\ k \in DOMAIN g <=> k \in DOMAIN p
             /\ k \in DOMAIN p => g[k] = p[k]
        ELSE g[k] = v
    <3> HIDE DEF f, k, v
    <3> QED  BY <1>1, <1>3
  <2>6. j < m \/ k \in DOMAIN g
    <3>1. CASE j < m
      BY <3>1
    <3>2. CASE ~(j < m)
      <4>1. m \in 1 .. j
        BY <1>1, <3>2
      <4>2. DOMAIN g = DOMAIN p \cup {q[i].key : i \in 1 .. j}
        BY <2>1, AfterFacts
      <4> QED  BY <4>1, <4>2
    <3> QED  BY <3>1, <3>2
  <2>7. j + 1 = m => c = q[m] /\ c.key = k
    OBVIOUS
  <2> DEFINE w == IF c.set \/ c.key \notin DOMAIN g THEN c.delta ELSE g[c.key] + c.delta
  <2>8. /\ DOMAIN f[j + 1] = DOMAIN g \cup {c.key}
        /\ \A x \in DOMAIN g : x # c.key => f[j + 1][x] = g[x]
        /\ f[j + 1][c.key] = w
    <3> HIDE DEF f, g, c, k, v
    <3>1. /\ DOMAIN Applied(g, c) = DOMAIN g \cup {c.key}
          /\ \A x \in DOMAIN g : x # c.key => Applied(g, c)[x] = g[x]
          /\ Applied(g, c)[c.key] = w
      BY <2>3, AppliedFacts DEF w
    <3> QED  BY <2>2, <3>1
  <2>9. j + 1 = m => w = v
    <3> HIDE DEF g
    <3> QED  BY <1>1, <2>5, <2>7
  <2> HIDE DEF f, g, c, k, v, w
  <2>10. CASE j + 1 < m
    BY <1>1, <2>4, <2>5, <2>8, <2>10
  <2>11. CASE j + 1 = m
    BY <1>1, <2>7, <2>8, <2>9, <2>11
  <2>12. CASE m < j + 1
    BY <1>1, <2>4, <2>5, <2>6, <2>8, <2>12
  <2> QED  BY <1>1, <2>10, <2>11, <2>12
<1>4. Len(q) \in S
  <2> HIDE DEF S
  <2> QED  BY <1>1, <1>2, <1>3, Induct
<1>5. f[Len(q)][k] = v
  <2> HIDE DEF f, k, v
  <2> QED  BY <1>1, <1>4
<1>6. AppliedAll(p, q) = f[Len(q)]
  BY AfterStep
<1> QED  BY <1>5, <1>6

\* The units of k, command by command.
Sums(q, k) ==
  CHOOSE f : f = [j \in 0 .. Len(q) |->
                    IF j = 0 THEN 0
                    ELSE f[j - 1] + (IF q[j].key = k THEN q[j].delta ELSE 0)]

LEMMA SumsExist ==
  ASSUME NEW q, NEW k, Len(q) \in Nat
  PROVE  Sums(q, k) = [j \in 0 .. Len(q) |->
                         IF j = 0 THEN 0
                         ELSE Sums(q, k)[j - 1] + (IF q[j].key = k THEN q[j].delta ELSE 0)]
<1> DEFINE d(j) == IF q[j].key = k THEN q[j].delta ELSE 0
           Is(f, l) == f = [j \in 0 .. l |-> IF j = 0 THEN 0 ELSE f[j - 1] + d(j)]
           S == {l \in Nat : \E f : Is(f, l)}
<1>1. 0 \in S
  <2>1. Is([j \in 0 .. 0 |-> 0], 0)
    OBVIOUS
  <2> QED  BY <2>1
<1>2. ASSUME NEW l \in Nat, l \in S PROVE l + 1 \in S
  <2> HIDE DEF d
  <2>1. PICK f : Is(f, l)
    BY <1>2
  <2> DEFINE g == [j \in 0 .. l + 1 |-> IF j = l + 1 THEN f[l] + d(l + 1) ELSE f[j]]
  <2>2. \A j \in 0 .. l + 1 : g[j] = IF j = 0 THEN 0 ELSE g[j - 1] + d(j)
    <3> SUFFICES ASSUME NEW j \in 0 .. l + 1
                 PROVE  g[j] = IF j = 0 THEN 0 ELSE g[j - 1] + d(j)
      OBVIOUS
    <3>1. CASE j = 0
      BY <2>1, <3>1
    <3>2. CASE j \in 1 .. l
      <4>1. g[j] = f[j] /\ g[j - 1] = f[j - 1]
        BY <3>2
      <4>2. f[j] = f[j - 1] + d(j)
        BY <2>1, <3>2
      <4> QED  BY <3>2, <4>1, <4>2
    <3>3. CASE j = l + 1
      <4>1. g[j] = f[l] + d(l + 1) /\ g[j - 1] = f[l]
        BY <3>3
      <4> QED  BY <3>3, <4>1
    <3> QED  BY <3>1, <3>2, <3>3
  <2>3. Is(g, l + 1)
    <3> HIDE DEF g
    <3>1. g = [j \in 0 .. l + 1 |-> g[j]]
      BY DEF g
    <3> QED  BY <2>2, <3>1
  <2> QED  BY <2>3, l + 1 \in Nat
<1>3. Len(q) \in S
  <2> HIDE DEF S
  <2> QED  BY <1>1, <1>2, Induct
<1>4. \E f : Is(f, Len(q))
  BY <1>3
<1> QED  BY <1>4, Zenon DEF Sums

LEMMA SumsStep ==
  ASSUME NEW q \in Seq(Commands), NEW k
  PROVE  /\ Sums(q, k)[0] = 0
         /\ \A j \in 0 .. Len(q) - 1 :
              Sums(q, k)[j + 1] =
                Sums(q, k)[j] + (IF q[j + 1].key = k THEN q[j + 1].delta ELSE 0)
         /\ Units(q, k) = Sums(q, k)[Len(q)]
<1> DEFINE f == Sums(q, k)
           d(j) == IF q[j].key = k THEN q[j].delta ELSE 0
<1>1. Len(q) \in Nat
  OBVIOUS
<1>2. f = [j \in 0 .. Len(q) |-> IF j = 0 THEN 0 ELSE f[j - 1] + d(j)]
  BY <1>1, SumsExist
<1>3. Units(q, k) = f[Len(q)]
  BY DEF Units, Sums
<1> HIDE DEF f, d
<1>4. f[0] = 0
  BY <1>1, <1>2
<1>5. ASSUME NEW j \in 0 .. Len(q) - 1 PROVE f[j + 1] = f[j] + d(j + 1)
  <2>1. j + 1 \in 0 .. Len(q) /\ j + 1 # 0 /\ (j + 1) - 1 = j
    BY <1>1
  <2> QED  BY <1>2, <2>1
<1> QED  BY <1>3, <1>4, <1>5 DEF f, d

\* A position that is open and that no HSET is for gets its units added.
LEMMA AddedUp ==
  ASSUME NEW p, p \in [DOMAIN p -> Int], NEW q \in Seq(Commands), NEW k \in DOMAIN p,
         \A i \in DOMAIN q : q[i].key = k => ~q[i].set
  PROVE  AppliedAll(p, q)[k] = p[k] + Units(q, k)
<1> DEFINE f == After(p, q)
           s == Sums(q, k)
           S == {j \in Nat : j <= Len(q) => s[j] \in Int /\ f[j][k] = p[k] + s[j]}
<1>1. Len(q) \in Nat /\ DOMAIN q = 1 .. Len(q) /\ p[k] \in Int
  OBVIOUS
<1>2. 0 \in S
  <2>1. f[0] = p /\ s[0] = 0
    BY AfterStep, SumsStep
  <2> HIDE DEF f, s
  <2> QED  BY <1>1, <2>1
<1>3. ASSUME NEW j \in Nat, j \in S PROVE j + 1 \in S
  <2> DEFINE g == f[j]
             c == q[j + 1]
  <2> SUFFICES ASSUME j + 1 <= Len(q)
               PROVE  s[j + 1] \in Int /\ f[j + 1][k] = p[k] + s[j + 1]
    <3> HIDE DEF f, s
    <3> QED  OBVIOUS
  <2>1. j \in 0 .. Len(q) - 1 /\ j \in 0 .. Len(q) /\ j + 1 \in DOMAIN q
    BY <1>1
  <2>2. f[j + 1] = Applied(g, c) /\ s[j + 1] = s[j] + (IF c.key = k THEN c.delta ELSE 0)
    BY <2>1, AfterStep, SumsStep
  <2>3. g \in [DOMAIN g -> Int] /\ k \in DOMAIN g /\ c \in Commands
    BY <2>1, AfterFacts
  <2>4. c.key = k => ~c.set
    BY <2>1
  <2>5. s[j] \in Int /\ g[k] = p[k] + s[j] /\ c.delta \in Int
    <3>1. s[j] \in Int /\ g[k] = p[k] + s[j]
      <4> HIDE DEF f, s
      <4> QED  BY <1>1, <1>3
    <3> QED  BY <2>3, <3>1 DEF Commands
  <2>6. /\ k # c.key => f[j + 1][k] = g[k]
        /\ f[j + 1][c.key] =
             IF c.set \/ c.key \notin DOMAIN g THEN c.delta ELSE g[c.key] + c.delta
    <3> HIDE DEF f, g, c, s
    <3> DEFINE w == IF c.set \/ c.key \notin DOMAIN g THEN c.delta ELSE g[c.key] + c.delta
    <3>1. /\ \A x \in DOMAIN g : x # c.key => Applied(g, c)[x] = g[x]
          /\ Applied(g, c)[c.key] = w
      BY <2>3, AppliedFacts DEF w
    <3> QED  BY <2>2, <2>3, <3>1 DEF w
  <2> HIDE DEF f, g, c, s
  <2>7. CASE c.key = k
    BY <1>1, <2>2, <2>3, <2>4, <2>5, <2>6, <2>7
  <2>8. CASE c.key # k
    BY <1>1, <2>2, <2>5, <2>6, <2>8
  <2> QED  BY <2>7, <2>8
<1>4. Len(q) \in S
  <2> HIDE DEF S
  <2> QED  BY <1>1, <1>2, <1>3, Induct
<1>5. f[Len(q)][k] = p[k] + s[Len(q)]
  <2> HIDE DEF f, s
  <2> QED  BY <1>1, <1>4
<1> QED  BY <1>5, AfterStep, SumsStep

-----------------------------------------------------------------------------
(* Sequences, orders and streams.                                           *)

LEMMA SetOfAppend ==
  ASSUME NEW T, NEW q \in Seq(T), NEW e \in T
  PROVE  ToSet(Append(q, e)) = ToSet(q) \cup {e}
<1>1. /\ DOMAIN q = 1 .. Len(q) /\ DOMAIN Append(q, e) = 1 .. Len(q) + 1
      /\ \A i \in 1 .. Len(q) : Append(q, e)[i] = q[i]
      /\ Append(q, e)[Len(q) + 1] = e
      /\ Len(q) \in Nat
  OBVIOUS
<1>2. \A i \in 1 .. Len(q) + 1 : i \in 1 .. Len(q) \/ i = Len(q) + 1
  BY <1>1
<1> QED  BY <1>1, <1>2 DEF ToSet

LEMMA SetOfTail ==
  ASSUME NEW T, NEW q \in Seq(T), q # <<>>
  PROVE  Head(q) \in T /\ Tail(q) \in Seq(T) /\ ToSet(q) = {Head(q)} \cup ToSet(Tail(q))
<1>1. /\ Len(q) \in Nat /\ Len(q) >= 1 /\ DOMAIN q = 1 .. Len(q) /\ Head(q) = q[1]
      /\ DOMAIN Tail(q) = 1 .. Len(q) - 1
      /\ \A i \in 1 .. Len(q) - 1 : Tail(q)[i] = q[i + 1]
  BY SMT
<1>2. \A i \in 1 .. Len(q) : i = 1 \/ (i - 1 \in 1 .. Len(q) - 1 /\ (i - 1) + 1 = i)
  BY <1>1
<1>3. \A x \in ToSet(q) : x = Head(q) \/ x \in ToSet(Tail(q))
  <2> SUFFICES ASSUME NEW i \in 1 .. Len(q), i # 1
               PROVE  q[i] \in ToSet(Tail(q))
    BY <1>1 DEF ToSet
  <2>1. q[i] = Tail(q)[i - 1] /\ i - 1 \in DOMAIN Tail(q)
    BY <1>1, <1>2
  <2> QED  BY <2>1 DEF ToSet
<1>4. Head(q) \in ToSet(q)
  BY <1>1 DEF ToSet
<1>5. ToSet(Tail(q)) \subseteq ToSet(q)
  BY <1>1 DEF ToSet
<1> QED  BY <1>1, <1>3, <1>4, <1>5

LEMMA SetOfEmpty == ToSet(<<>>) = {}
BY DEF ToSet

LEMMA SetOfType ==
  ASSUME NEW T, NEW q \in Seq(T)
  PROVE  ToSet(q) \subseteq T
BY DEF ToSet

LEMMA OrderFacts ==
  ASSUME NEW r \in Requests, RequestInv(r), pc[r] \in {"idle", "ask", "decide"}
  PROVE  /\ n[r] \in DOMAIN OrdersOf[r] /\ n[r] \in Nat
         /\ Order(r) \in [key : Keys, delta : Int] /\ Order(r).key \in Keys
         /\ DOMAIN OrdersOf[r] = 1 .. Len(OrdersOf[r]) /\ Len(OrdersOf[r]) \in Nat
<1>1. OrdersOf[r] \in Seq([key : Keys, delta : Int])
  BY OrdersAssumption
<1>2. n[r] \in DOMAIN OrdersOf[r]
  BY DEF RequestInv
<1>3. DOMAIN OrdersOf[r] = 1 .. Len(OrdersOf[r]) /\ Len(OrdersOf[r]) \in Nat
  BY <1>1
<1>4. OrdersOf[r][n[r]] \in [key : Keys, delta : Int]
  <2> DEFINE q == OrdersOf[r]
             T == [key : Keys, delta : Int]
  <2>1. q \in Seq(T) /\ n[r] \in 1 .. Len(q)
    BY <1>1, <1>2, <1>3
  <2> HIDE DEF q, T
  <2>2. q[n[r]] \in T
    BY <2>1
  <2> QED  BY <2>2 DEF q, T
<1> QED  BY <1>2, <1>3, <1>4 DEF Order

LEMMA OneOrder ==
  ASSUME NEW r \in Requests, NEW k, Single(r, k),
         NEW i \in OrdersOn(r, k), NEW j \in OrdersOn(r, k)
  PROVE  i = j
<1>1. OrdersOf[r] \in Seq([key : Keys, delta : Int])
  BY OrdersAssumption
<1>2. DOMAIN OrdersOf[r] = 1 .. Len(OrdersOf[r]) /\ Len(OrdersOf[r]) \in Int /\ 1 \in Int
  BY <1>1
<1>3. IsFiniteSet(DOMAIN OrdersOf[r])
  BY <1>2, FS_Interval, Zenon
<1>4. IsFiniteSet(OrdersOn(r, k))
  BY <1>3, FS_Subset DEF OrdersOn
<1>5. PICK x : OrdersOn(r, k) = {x}
  BY <1>4, FS_Singleton DEF Single
<1> QED  BY <1>5

LEMMA StreamCount ==
  ASSUME NEW S, NEW f,
         \A r, s \in S : f[r] = "stream" /\ f[s] = "stream" => r = s
  PROVE  Cardinality({r \in S : f[r] = "stream"}) <= 1
<1> DEFINE T == {r \in S : f[r] = "stream"}
<1>1. CASE T = {}
  BY <1>1, FS_EmptySet
<1>2. CASE T # {}
  <2>1. PICK x : T = {x}
    BY <1>2
  <2>2. Cardinality(T) = 1
    BY <2>1, FS_Singleton
  <2> QED  BY <2>2
<1> QED  BY <1>1, <1>2

-----------------------------------------------------------------------------
(* What a step leaves alone.                                                *)

\* The parts of request s that RequestInv is about.
Still(s) ==
  /\ pc'[s] = pc[s] /\ n'[s] = n[s] /\ size'[s] = size[s] /\ pipe'[s] = pipe[s]
  /\ new'[s] = new[s] /\ began'[s] = began[s] /\ saw'[s] = saw[s]

LEMMA Elsewhere ==
  ASSUME NEW s \in Requests, RequestInv(s), Still(s),
         DOMAIN positions \subseteq DOMAIN positions'
  PROVE  RequestInv(s)'
<1>1. Order(s)' = Order(s) /\ Working(s)' = Working(s)
  BY DEF Still, Order, Working
<1>2. AnswerInv(s)'
  BY <1>1 DEF RequestInv, AnswerInv, Still
<1>3. PipeInv(s)'
  BY <1>1 DEF RequestInv, PipeInv, Still
<1>4. SaleInv(s)'
  <2>1. \A c : Covered(s, c)' = Covered(s, c)
    BY DEF Covered, Still
  <2>2. \A k : Single(s, k)' = Single(s, k)
    BY DEF Single, OrdersOn
  <2> QED  BY <1>1, <2>1, <2>2 DEF RequestInv, SaleInv, Still
<1> QED  BY <1>2, <1>3, <1>4 DEF RequestInv, Still

\* A request that stopped, for an answer or an error, is under no obligation.
LEMMA Stopped ==
  ASSUME NEW s \in Requests, pc'[s] \notin {"idle", "ask", "decide", "execute"}
  PROVE  RequestInv(s)'
BY DEF RequestInv, AnswerInv, PipeInv, SaleInv, Working

LEMMA StillKnown ==
  ASSUME NoPositionForgotten,
         \A k \in DOMAIN positions' : k \in DOMAIN positions \/ OnItsWay(k)' \/ k \in dropped',
         \A k : OnItsWay(k) => OnItsWay(k)' \/ k \in dropped',
         dropped \subseteq dropped'
  PROVE  NoPositionForgotten'
BY DEF NoPositionForgotten

-----------------------------------------------------------------------------
(* One lemma per action.                                                    *)

LEMMA BeginStep ==
  ASSUME Inv, NEW r \in Requests, Begin(r)
  PROVE  Inv'
<1> USE DEF Begin, core
<1>1. TypeOK
  BY DEF Inv
<1>2. OneStream'
  BY <1>1 DEF Inv, OneStream, TypeOK
<1>3. TypeOK'
  <2>1. Cardinality({s \in Requests : pc'[s] = "stream"}) <= 1
    BY <1>2, StreamCount DEF OneStream
  <2> QED  BY <1>1, <2>1 DEF TypeOK
<1>4. RequestInv(r)'
  <2>1. pc'[r] = "ask" /\ began'[r] = DOMAIN positions
    BY <1>1 DEF TypeOK
  <2>2. pipe[r] = <<>> /\ n[r] \in DOMAIN OrdersOf[r]
    BY DEF Inv, RequestInv
  <2> QED  BY <2>1, <2>2 DEF RequestInv, AnswerInv, PipeInv, SaleInv, Working
<1>5. ASSUME NEW s \in Requests, s # r PROVE RequestInv(s)'
  <2>1. Still(s)
    BY <1>1, <1>5 DEF TypeOK, Still
  <2> QED  BY <2>1, Elsewhere DEF Inv
<1>6. NoPositionForgotten'
  <2>1. \A k : OnItsWay(k) => OnItsWay(k)'
    BY <1>1 DEF OnItsWay, TypeOK
  <2> QED  BY <2>1, StillKnown DEF Inv
<1> QED  BY <1>2, <1>3, <1>4, <1>5, <1>6 DEF Inv

LEMMA AnswerStep ==
  ASSUME Inv, NEW r \in Requests, Answer(r)
  PROVE  Inv'
<1> USE DEF Answer, core
<1> DEFINE k == Order(r).key
           v == IF k \in DOMAIN positions THEN {positions[k]} ELSE {}
<1>1. TypeOK
  BY DEF Inv
<1>2. n[r] \in DOMAIN OrdersOf[r] /\ Order(r) \in [key : Keys, delta : Int]
  BY OrderFacts DEF Inv
<1>3. /\ size' = [size EXCEPT ![r] = v]
      /\ saw' = [saw EXCEPT ![r][k] = v]
      /\ k \in Keys /\ v \subseteq Int
  BY <1>1, <1>2 DEF TypeOK
<1>4. OneStream'
  BY <1>1 DEF Inv, OneStream, TypeOK
<1>5. TypeOK'
  <2>1. Cardinality({s \in Requests : pc'[s] = "stream"}) <= 1
    BY <1>4, StreamCount DEF OneStream
  <2>2. size' \in [Requests -> SUBSET Int]
    BY <1>1, <1>3 DEF TypeOK
  <2>3. saw' \in [Requests -> [Keys -> SUBSET Int]]
    <3> HIDE DEF k, v, Answer
    <3>1. saw' = [saw EXCEPT ![r] = [saw[r] EXCEPT ![k] = v]]
      BY <1>3
    <3>2. [saw[r] EXCEPT ![k] = v] \in [Keys -> SUBSET Int]
      BY <1>1, <1>3 DEF TypeOK
    <3> QED  BY <1>1, <3>1, <3>2 DEF TypeOK
  <2>4. pc' \in [Requests -> {"idle", "ask", "decide", "execute", "executed", "stream",
                              "replied", "error"}]
    BY <1>1 DEF TypeOK
  <2> QED  BY <1>1, <2>1, <2>2, <2>3, <2>4 DEF TypeOK
<1>6. RequestInv(r)'
  <2>1. Working(r) /\ pc'[r] = "decide" /\ UNCHANGED <<positions, n, pipe, new, began>>
    BY <1>1 DEF TypeOK, Working
  <2>2. /\ size'[r] = v /\ saw'[r][k] = v
        /\ \A x : x # k => saw'[r][x] = saw[r][x]
    BY <1>1, <1>2, <1>3 DEF TypeOK
  <2>3. PipeInv(r) /\ SaleInv(r)
    BY DEF Inv, RequestInv
  <2>4. Order(r)' = Order(r)
    BY <2>1 DEF Order
  <2>5. AnswerInv(r)'
    <3>1. v = {} => k \notin began[r]
      BY <2>1, <2>3 DEF PipeInv
    <3> QED  BY <2>1, <2>2, <2>4, <3>1 DEF AnswerInv
  <2>6. PipeInv(r)'
    BY <2>1, <2>3 DEF PipeInv, Working
  <2>7. ASSUME NEW i \in DOMAIN pipe[r], Single(r, pipe[r][i].key)
        PROVE  Covered(r, pipe[r][i])'
    <3>1. pipe[r][i].key # k
      <4> SUFFICES ASSUME pipe[r][i].key = k PROVE FALSE
        OBVIOUS
      <4>1. PICK j \in DOMAIN OrdersOf[r] : j < n[r] /\ OrdersOf[r][j].key = k
        BY <2>1, <2>3 DEF SaleInv
      <4>2. n[r] \in OrdersOn(r, k) /\ j \in OrdersOn(r, k)
        BY <1>2, <4>1 DEF OrdersOn, Order
      <4>3. n[r] = j
        BY <2>7, <4>2, OneOrder
      <4> QED  BY <1>1, <4>1, <4>3 DEF TypeOK
    <3>2. Covered(r, pipe[r][i])
      BY <2>1, <2>3, <2>7 DEF SaleInv
    <3> HIDE DEF k
    <3> QED  BY <2>1, <2>2, <3>1, <3>2 DEF Covered
  <2>8. SaleInv(r)'
    <3>1. \A x : Single(r, x)' = Single(r, x)
      BY DEF Single, OrdersOn
    <3> QED  BY <2>1, <2>3, <2>7, <3>1 DEF SaleInv, Working
  <2> QED  BY <1>2, <2>1, <2>5, <2>6, <2>8 DEF RequestInv
<1>7. ASSUME NEW s \in Requests, s # r PROVE RequestInv(s)'
  <2>1. Still(s)
    BY <1>1, <1>3, <1>7 DEF TypeOK, Still
  <2> QED  BY <2>1, Elsewhere DEF Inv
<1>8. NoPositionForgotten'
  <2>1. \A x : OnItsWay(x) => OnItsWay(x)'
    BY <1>1 DEF OnItsWay, TypeOK
  <2> QED  BY <2>1, StillKnown DEF Inv
<1> QED  BY <1>4, <1>5, <1>6, <1>7, <1>8 DEF Inv

LEMMA AnswerFailsStep ==
  ASSUME Inv, NEW r \in Requests, AnswerFails(r)
  PROVE  Inv'
<1> USE DEF AnswerFails, core
<1>1. TypeOK
  BY DEF Inv
<1>2. OneStream'
  BY <1>1 DEF Inv, OneStream, TypeOK
<1>3. TypeOK'
  <2>1. Cardinality({s \in Requests : pc'[s] = "stream"}) <= 1
    BY <1>2, StreamCount DEF OneStream
  <2> QED  BY <1>1, <2>1 DEF TypeOK
<1>4. RequestInv(r)'
  BY <1>1, Stopped DEF TypeOK
<1>5. ASSUME NEW s \in Requests, s # r PROVE RequestInv(s)'
  <2>1. Still(s)
    BY <1>1, <1>5 DEF TypeOK, Still
  <2> QED  BY <2>1, Elsewhere DEF Inv
<1>6. NoPositionForgotten'
  <2>1. \A k : OnItsWay(k) => OnItsWay(k)'
    BY <1>1 DEF OnItsWay, TypeOK
  <2> QED  BY <2>1, StillKnown DEF Inv
<1> QED  BY <1>2, <1>3, <1>4, <1>5, <1>6 DEF Inv

LEMMA DecideStep ==
  ASSUME Inv, NEW r \in Requests, Decide(r)
  PROVE  Inv'
<1> DEFINE k == Order(r).key
           c == Command(r)
<1>1. TypeOK
  BY DEF Inv
<1>2. n[r] \in DOMAIN OrdersOf[r] /\ Order(r) \in [key : Keys, delta : Int]
  BY OrderFacts DEF Inv, Decide
<1>3. DOMAIN OrdersOf[r] = 1 .. Len(OrdersOf[r]) /\ Len(OrdersOf[r]) \in Nat
  BY OrdersAssumption
<1>4. c \in Commands /\ c.key = k /\ c.set = IsNew(r) /\ c.delta = Order(r).delta
  BY <1>2 DEF Command, Commands, IsNew
<1>5. /\ Short(r) => pipe'[r] = pipe[r] /\ new'[r] = new[r]
      /\ ~Short(r) => pipe'[r] = Append(pipe[r], c) /\ new'[r] = NewWith(r)
      /\ n'[r] = n[r] + 1 /\ pc'[r] \in {"ask", "execute"}
      /\ pc'[r] = "ask" => n[r] # Len(OrdersOf[r])
  BY <1>1 DEF TypeOK, Decide
<1>6. /\ ToSet(new[r]) \subseteq ToSet(new'[r])
      /\ ~Short(r) /\ IsNew(r) => k \in ToSet(new'[r])
  <2>1. new[r] \in Seq(Keys) /\ k \in Keys
    BY <1>1, <1>2 DEF TypeOK
  <2>2. ToSet(Append(new[r], k)) = ToSet(new[r]) \cup {k}
    BY <2>1, SetOfAppend
  <2> QED  BY <1>5, <2>1, <2>2 DEF NewWith
<1>7. OneStream'
  BY <1>1 DEF Inv, OneStream, TypeOK, Decide
<1>8. TypeOK'
  <2>1. Cardinality({s \in Requests : pc'[s] = "stream"}) <= 1
    BY <1>7, StreamCount DEF OneStream
  <2>2. pipe' \in [Requests -> Seq(Commands)] /\ new' \in [Requests -> Seq(Keys)]
    <3> HIDE DEF c
    <3>1. pipe \in [Requests -> Seq(Commands)] /\ new \in [Requests -> Seq(Keys)]
      BY <1>1 DEF TypeOK
    <3>2. Append(pipe[r], c) \in Seq(Commands) /\ NewWith(r) \in Seq(Keys)
      BY <1>2, <1>4, <3>1 DEF NewWith
    <3>3. CASE Short(r)
      BY <3>1, <3>3 DEF Decide
    <3>4. CASE ~Short(r)
      <4>1. /\ pipe' = [pipe EXCEPT ![r] = Append(pipe[r], c)]
            /\ new' = [new EXCEPT ![r] = NewWith(r)]
        BY <3>4 DEF Decide, c
      <4> QED  BY <3>1, <3>2, <4>1
    <3> QED  BY <3>3, <3>4
  <2>3. n' \in [Requests -> Nat \ {0}]
    BY <1>1 DEF TypeOK, Decide
  <2>4. failed' \in [Requests -> SUBSET Nat]
    BY <1>1 DEF TypeOK, Decide
  <2>5. \A s \in Requests : n'[s] <= Len(OrdersOf[s]) + 1 /\ failed'[s] \subseteq DOMAIN OrdersOf[s]
    BY <1>1, <1>2, <1>3 DEF TypeOK, Decide
  <2>6. pc' \in [Requests -> {"idle", "ask", "decide", "execute", "executed", "stream",
                              "replied", "error"}]
    BY <1>1 DEF TypeOK, Decide
  <2> QED  BY <1>1, <2>1, <2>2, <2>3, <2>4, <2>5, <2>6 DEF TypeOK, Decide, core
<1>9. RequestInv(r)'
  <2>1. Working(r) /\ pc[r] = "decide" /\ UNCHANGED <<positions, size, began, saw>>
    BY DEF Working, Decide, core
  <2>2. AnswerInv(r) /\ PipeInv(r) /\ SaleInv(r)
    BY DEF Inv, RequestInv
  <2>3. n'[r] \in Nat /\ n[r] < n'[r] /\ (pc'[r] = "ask" => n'[r] \in DOMAIN OrdersOf[r])
    BY <1>2, <1>3, <1>5
  <2>4. pipe[r] \in Seq(Commands)
    BY <1>1 DEF TypeOK, Decide
  <2> DEFINE last == Len(pipe[r]) + 1
  <2>5. /\ DOMAIN pipe[r] \subseteq DOMAIN pipe'[r]
        /\ \A i \in DOMAIN pipe[r] : pipe'[r][i] = pipe[r][i]
        /\ \A i \in DOMAIN pipe'[r] :
             i \in DOMAIN pipe[r] \/ (i = last /\ ~Short(r) /\ pipe'[r][i] = c)
    <3> HIDE DEF c
    <3>1. CASE Short(r)
      BY <1>5, <3>1
    <3>2. CASE ~Short(r)
      <4>1. pipe'[r] = Append(pipe[r], c)
        BY <1>5, <3>2
      <4> QED  BY <2>4, <3>2, <4>1
    <3> QED  BY <3>1, <3>2
  <2>6. AnswerInv(r)'
    BY <1>5 DEF AnswerInv
  <2>7. PipeInv(r)'
    <3>1. began'[r] \subseteq DOMAIN positions'
      BY <2>1, <2>2 DEF PipeInv
    <3>2. ASSUME NEW i \in DOMAIN pipe'[r]
          PROVE  IF pipe'[r][i].set
                 THEN pipe'[r][i].key \in ToSet(new'[r]) /\ pipe'[r][i].key \notin began'[r]
                 ELSE pipe'[r][i].key \in DOMAIN positions'
      <4> HIDE DEF c, k
      <4>1. CASE i \in DOMAIN pipe[r]
        BY <1>6, <2>1, <2>2, <2>5, <4>1 DEF PipeInv
      <4>2. CASE i \notin DOMAIN pipe[r]
        <5>1. ~Short(r) /\ pipe'[r][i] = c
          BY <2>5, <4>2
        <5>2. CASE IsNew(r)
          <6>1. k \notin began[r]
            BY <2>1, <2>2, <5>2 DEF AnswerInv, IsNew, k
          <6> QED  BY <1>4, <1>6, <2>1, <5>1, <5>2, <6>1
        <5>3. CASE ~IsNew(r)
          <6>1. k \in DOMAIN positions
            BY <2>1, <2>2, <5>3 DEF AnswerInv, IsNew, k
          <6> QED  BY <1>4, <2>1, <5>1, <5>3, <6>1
        <5> QED  BY <5>2, <5>3
      <4> QED  BY <4>1, <4>2
    <3> QED  BY <3>1, <3>2 DEF PipeInv
  <2>8. SaleInv(r)'
    <3>1. \A x : Single(r, x)' = Single(r, x)
      BY DEF Single, OrdersOn
    <3>2. \A x : Covered(r, x)' = Covered(r, x)
      BY <2>1 DEF Covered
    <3>3. \A i \in DOMAIN pipe'[r] :
            \E j \in DOMAIN OrdersOf[r] : j < n'[r] /\ OrdersOf[r][j].key = pipe'[r][i].key
      <4> SUFFICES ASSUME NEW i \in DOMAIN pipe'[r]
                   PROVE  \E j \in DOMAIN OrdersOf[r] :
                            j < n'[r] /\ OrdersOf[r][j].key = pipe'[r][i].key
        OBVIOUS
      <4>1. CASE i \in DOMAIN pipe[r]
        <5>1. PICK j \in DOMAIN OrdersOf[r] : j < n[r] /\ OrdersOf[r][j].key = pipe[r][i].key
          BY <2>1, <2>2, <4>1 DEF SaleInv
        <5>2. j < n'[r]
          BY <1>2, <1>3, <2>3, <5>1
        <5> QED  BY <2>5, <4>1, <5>1, <5>2
      <4>2. CASE i \notin DOMAIN pipe[r]
        <5>1. pipe'[r][i].key = OrdersOf[r][n[r]].key
          <6>1. pipe'[r][i] = c
            BY <2>5, <4>2
          <6> QED  BY <1>4, <6>1 DEF Order
        <5> QED  BY <1>2, <2>3, <5>1
      <4> QED  BY <4>1, <4>2
    <3>4. ASSUME NEW i \in DOMAIN pipe[r], pipe[r][i].key = k PROVE ~Single(r, k)
      <4>1. PICK j \in DOMAIN OrdersOf[r] : j < n[r] /\ OrdersOf[r][j].key = k
        BY <2>1, <2>2, <3>4 DEF SaleInv
      <4>2. n[r] \in OrdersOn(r, k) /\ j \in OrdersOn(r, k)
        BY <1>2, <4>1 DEF OrdersOn, Order
      <4>3. Single(r, k) => n[r] = j
        BY <4>2, OneOrder
      <4> QED  BY <1>1, <4>1, <4>3 DEF TypeOK
    <3>5. ~Short(r) => Covered(r, c)
      <4>1. size[r] = saw[r][k]
        BY <2>1, <2>2 DEF AnswerInv
      <4>2. CASE IsNew(r)
        <5>1. ~Short(r) => c.delta >= 0
          BY <1>2, <1>4, <4>2 DEF Short
        <5>2. saw[r][c.key] = {} /\ c.set
          BY <1>4, <4>1, <4>2 DEF IsNew
        <5> HIDE DEF c
        <5> QED  BY <5>1, <5>2 DEF Covered
      <4>3. CASE ~IsNew(r)
        <5>1. PICK v \in size[r] : size[r] = {v}
          BY <2>1, <2>2, <4>3 DEF AnswerInv, IsNew
        <5>2. v \in Int
          BY <1>1, <5>1 DEF TypeOK
        <5>3. ~Short(r) => v + c.delta >= 0
          BY <1>2, <1>4, <5>1, <5>2 DEF Short
        <5> HIDE DEF c, k
        <5> QED  BY <1>4, <4>1, <4>3, <5>1, <5>3 DEF Covered
      <4> QED  BY <4>2, <4>3
    <3> HIDE DEF c, k, last
    <3>6. \A i, j \in DOMAIN pipe'[r] :
            pipe'[r][i].key = pipe'[r][j].key /\ Single(r, pipe'[r][i].key) => i = j
      BY <1>4, <2>1, <2>2, <2>5, <3>4 DEF SaleInv
    <3>7. \A i \in DOMAIN pipe'[r] : Single(r, pipe'[r][i].key) => Covered(r, pipe'[r][i])
      BY <2>1, <2>2, <2>5, <3>5 DEF SaleInv
    <3> QED  BY <3>1, <3>2, <3>3, <3>6, <3>7 DEF SaleInv
  <2> QED  BY <1>5, <2>3, <2>6, <2>7, <2>8 DEF RequestInv
<1>10. ASSUME NEW s \in Requests, s # r PROVE RequestInv(s)'
  <2>1. Still(s)
    BY <1>1, <1>10 DEF TypeOK, Still, Decide
  <2> QED  BY <2>1, Elsewhere DEF Inv, Decide
<1>11. NoPositionForgotten'
  <2>1. \A x : OnItsWay(x) => OnItsWay(x)'
    BY <1>1 DEF OnItsWay, TypeOK, Decide, core
  <2> QED  BY <2>1, StillKnown DEF Inv, Decide
<1> QED  BY <1>7, <1>8, <1>9, <1>10, <1>11 DEF Inv

\* What a transaction does, whether or not it is reported to the request.
LEMMA ExecutedFacts ==
  ASSUME Inv, NEW r \in Requests, pc[r] = "execute"
  PROVE  /\ Executed(r) \in [DOMAIN Executed(r) -> Int]
         /\ DOMAIN positions \subseteq DOMAIN Executed(r)
         /\ DOMAIN Executed(r) \subseteq Keys
         /\ \A k \in DOMAIN Executed(r) : k \in DOMAIN positions \/ k \in ToSet(new[r])
<1>1. TypeOK
  BY DEF Inv
<1>2. positions \in [DOMAIN positions -> Int] /\ pipe[r] \in Seq(Commands)
  BY <1>1 DEF TypeOK
<1>3. /\ Executed(r) \in [DOMAIN Executed(r) -> Int]
      /\ DOMAIN Executed(r) = DOMAIN positions \cup {pipe[r][i].key : i \in DOMAIN pipe[r]}
  BY <1>2, TransactionFacts DEF Executed
<1>4. \A i \in DOMAIN pipe[r] : pipe[r][i].key \in DOMAIN positions \/ pipe[r][i].key \in ToSet(new[r])
  BY DEF Inv, RequestInv, PipeInv, Working
<1>5. ToSet(new[r]) \subseteq Keys
  BY <1>1, SetOfType DEF TypeOK
<1>6. DOMAIN positions \subseteq Keys
  BY <1>1 DEF TypeOK
<1> QED  BY <1>3, <1>4, <1>5, <1>6

LEMMA ExecuteStep ==
  ASSUME Inv, NEW r \in Requests, Execute(r)
  PROVE  Inv'
<1>1. TypeOK
  BY DEF Inv
<1>2. OneStream'
  BY <1>1 DEF Inv, OneStream, TypeOK, Execute
<1>3. /\ positions' \in [DOMAIN positions' -> Int]
      /\ DOMAIN positions \subseteq DOMAIN positions'
      /\ DOMAIN positions' \subseteq Keys
      /\ \A k \in DOMAIN positions' : k \in DOMAIN positions \/ k \in ToSet(new[r])
  BY ExecutedFacts DEF Execute
<1>4. TypeOK'
  <2>1. Cardinality({s \in Requests : pc'[s] = "stream"}) <= 1
    BY <1>2, StreamCount DEF OneStream
  <2>2. pc' \in [Requests -> {"idle", "ask", "decide", "execute", "executed", "stream",
                              "replied", "error"}]
    BY <1>1 DEF TypeOK, Execute
  <2> QED  BY <1>1, <1>3, <2>1, <2>2 DEF TypeOK, Execute, core
<1>5. RequestInv(r)'
  BY <1>1, Stopped DEF TypeOK, Execute
<1>6. ASSUME NEW s \in Requests, s # r PROVE RequestInv(s)'
  <2>1. Still(s)
    BY <1>1, <1>6 DEF TypeOK, Still, Execute
  <2> QED  BY <1>3, <2>1, Elsewhere DEF Inv
<1>7. NoPositionForgotten'
  <2>1. /\ pc'[r] = "executed" /\ \A s \in Requests : s # r => pc'[s] = pc[s]
        /\ UNCHANGED <<new, tracked, opened, dropped>> /\ pc[r] = "execute"
    BY <1>1 DEF TypeOK, Execute, core
  <2>2. \A k : OnItsWay(k) => OnItsWay(k)'
    BY <2>1 DEF OnItsWay
  <2>3. \A k \in DOMAIN positions' : k \in DOMAIN positions \/ OnItsWay(k)'
    BY <1>3, <2>1 DEF OnItsWay
  <2> QED  BY <2>1, <2>2, <2>3, StillKnown DEF Inv
<1> QED  BY <1>2, <1>4, <1>5, <1>6, <1>7 DEF Inv

LEMMA ExecuteFailsStep ==
  ASSUME Inv, NEW r \in Requests, ExecuteFails(r)
  PROVE  Inv'
<1>1. TypeOK
  BY DEF Inv
<1>2. OneStream'
  BY <1>1 DEF Inv, OneStream, TypeOK, ExecuteFails
<1>3. /\ positions' \in [DOMAIN positions' -> Int]
      /\ DOMAIN positions \subseteq DOMAIN positions'
      /\ DOMAIN positions' \subseteq Keys
      /\ \A k \in DOMAIN positions' : k \in DOMAIN positions \/ k \in ToSet(new[r])
  <2>1. CASE positions' = positions
    BY <1>1, <2>1 DEF TypeOK
  <2>2. CASE positions' = Executed(r)
    BY <2>2, ExecutedFacts DEF ExecuteFails
  <2> QED  BY <2>1, <2>2 DEF ExecuteFails
<1>4. TypeOK'
  <2>1. Cardinality({s \in Requests : pc'[s] = "stream"}) <= 1
    BY <1>2, StreamCount DEF OneStream
  <2>2. pc' \in [Requests -> {"idle", "ask", "decide", "execute", "executed", "stream",
                              "replied", "error"}]
    BY <1>1 DEF TypeOK, ExecuteFails
  <2>3. ToSet(new[r]) \subseteq Keys
    BY <1>1, SetOfType DEF TypeOK
  <2> QED  BY <1>1, <1>3, <2>1, <2>2, <2>3 DEF TypeOK, ExecuteFails, core
<1>5. RequestInv(r)'
  BY <1>1, Stopped DEF TypeOK, ExecuteFails
<1>6. ASSUME NEW s \in Requests, s # r PROVE RequestInv(s)'
  <2>1. Still(s)
    BY <1>1, <1>6 DEF TypeOK, Still, ExecuteFails
  <2> QED  BY <1>3, <2>1, Elsewhere DEF Inv
<1>7. NoPositionForgotten'
  <2>1. /\ \A s \in Requests : s # r => pc'[s] = pc[s]
        /\ UNCHANGED <<new, tracked, opened>> /\ pc[r] = "execute"
        /\ dropped' = dropped \cup ToSet(new[r])
    BY <1>1 DEF TypeOK, ExecuteFails, core
  <2>2. \A k : OnItsWay(k) => OnItsWay(k)'
    BY <2>1 DEF OnItsWay
  <2> QED  BY <1>3, <2>1, <2>2, StillKnown DEF Inv
<1> QED  BY <1>2, <1>4, <1>5, <1>6, <1>7 DEF Inv

LEMMA OpenStreamStep ==
  ASSUME Inv, NEW r \in Requests, OpenStream(r)
  PROVE  Inv'
<1>1. TypeOK
  BY DEF Inv
<1>2. OneStream'
  BY <1>1 DEF OneStream, TypeOK, OpenStream, Blocked
<1>3. TypeOK'
  <2>1. Cardinality({s \in Requests : pc'[s] = "stream"}) <= 1
    BY <1>2, StreamCount DEF OneStream
  <2>2. pc' \in [Requests -> {"idle", "ask", "decide", "execute", "executed", "stream",
                              "replied", "error"}]
    BY <1>1 DEF TypeOK, OpenStream
  <2> QED  BY <1>1, <2>1, <2>2 DEF TypeOK, OpenStream, core
<1>4. RequestInv(r)'
  BY <1>1, Stopped DEF TypeOK, OpenStream
<1>5. ASSUME NEW s \in Requests, s # r PROVE RequestInv(s)'
  <2>1. Still(s)
    BY <1>1, <1>5 DEF TypeOK, Still, OpenStream
  <2> QED  BY <2>1, Elsewhere DEF Inv, OpenStream
<1>6. NoPositionForgotten'
  <2>1. \A k : OnItsWay(k) => OnItsWay(k)'
    BY <1>1 DEF OnItsWay, TypeOK, OpenStream, core
  <2> QED  BY <2>1, StillKnown DEF Inv, OpenStream
<1> QED  BY <1>2, <1>3, <1>4, <1>5, <1>6 DEF Inv

LEMMA ReadContractStep ==
  ASSUME Inv, NEW r \in Requests, ReadContract(r)
  PROVE  Inv'
<1> DEFINE k == Head(new[r])
<1>1. TypeOK
  BY DEF Inv
<1>2. new[r] \in Seq(Keys) /\ new[r] # <<>> /\ pc[r] = "stream"
  BY <1>1 DEF TypeOK, ReadContract
<1>3. k \in Keys /\ Tail(new[r]) \in Seq(Keys) /\ ToSet(new[r]) = {k} \cup ToSet(Tail(new[r]))
  BY <1>2, SetOfTail
<1>4. OneStream'
  BY DEF Inv, OneStream, ReadContract
<1>5. /\ opened' \in Seq(Keys) /\ Len(opened') <= Capacity /\ ToSet(opened) \subseteq ToSet(opened')
      /\ dropped \subseteq dropped' /\ dropped' \subseteq Keys
      /\ ok' \in [Requests -> BOOLEAN]
      /\ k \in ToSet(opened') \cup dropped'
  <2>1. opened \in Seq(Keys) /\ dropped \subseteq Keys /\ ok \in [Requests -> BOOLEAN]
    BY <1>1 DEF TypeOK
  <2> HIDE DEF k
  <2>2. CASE k \notin Unparsable /\ WriteAvailable
    <3>1. opened' = Append(opened, k) /\ ok' = ok /\ dropped' = dropped
      BY <2>2 DEF ReadContract, k
    <3>2. ToSet(opened') = ToSet(opened) \cup {k}
      BY <1>3, <2>1, <3>1, SetOfAppend
    <3> QED  BY <1>3, <2>1, <2>2, <3>1, <3>2, CapacityAssumption DEF WriteAvailable
  <2>3. CASE ~(k \notin Unparsable /\ WriteAvailable)
    <3>1. opened' = opened /\ ok' = [ok EXCEPT ![r] = FALSE] /\ dropped' = dropped \cup {k}
      BY <2>3 DEF ReadContract, k
    <3>2. Len(opened) <= Capacity
      BY <1>1 DEF TypeOK
    <3> QED  BY <1>3, <2>1, <3>1, <3>2
  <2> QED  BY <2>2, <2>3
<1>6. TypeOK'
  <2>1. Cardinality({s \in Requests : pc'[s] = "stream"}) <= 1
    BY <1>4, StreamCount DEF OneStream
  <2>2. new' \in [Requests -> Seq(Keys)]
    BY <1>1, <1>3 DEF TypeOK, ReadContract
  <2> QED  BY <1>1, <1>5, <2>1, <2>2 DEF TypeOK, ReadContract
<1>7. RequestInv(r)'
  BY <1>2, Stopped DEF ReadContract
<1>8. ASSUME NEW s \in Requests, s # r PROVE RequestInv(s)'
  <2>1. Still(s)
    BY <1>1, <1>8 DEF TypeOK, Still, ReadContract
  <2> QED  BY <2>1, Elsewhere DEF Inv, ReadContract
<1>9. NoPositionForgotten'
  <2>1. /\ new'[r] = Tail(new[r]) /\ \A s \in Requests : s # r => new'[s] = new[s]
        /\ UNCHANGED <<positions, pc, tracked>>
    BY <1>1 DEF TypeOK, ReadContract
  <2> HIDE DEF k
  <2>2. \A x : OnItsWay(x) => OnItsWay(x)' \/ x \in dropped'
    BY <1>3, <1>5, <2>1 DEF OnItsWay
  <2> QED  BY <1>5, <2>1, <2>2, StillKnown DEF Inv
<1> QED  BY <1>4, <1>6, <1>7, <1>8, <1>9 DEF Inv

\* However a stream ends, what it has not sent is dropped.
LEMMA RepliedStep ==
  ASSUME Inv, NEW r \in Requests, NEW res \in BOOLEAN, pc[r] = "stream", Replied(r, res),
         dropped' \subseteq Keys, dropped \cup ToSet(new[r]) \subseteq dropped'
  PROVE  Inv'
<1>1. TypeOK
  BY DEF Inv
<1>2. OneStream'
  BY <1>1 DEF Inv, OneStream, TypeOK, Replied
<1>3. TypeOK'
  <2>1. Cardinality({s \in Requests : pc'[s] = "stream"}) <= 1
    BY <1>2, StreamCount DEF OneStream
  <2>2. pc' \in [Requests -> {"idle", "ask", "decide", "execute", "executed", "stream",
                              "replied", "error"}]
    BY <1>1 DEF TypeOK, Replied
  <2>3. reply' \in [Requests -> [changed : {-1, 0}, success : BOOLEAN]]
    <3>1. [changed |-> Changed(r), success |-> Changed(r) = Len(OrdersOf[r]) /\ res]
            \in [changed : {-1, 0}, success : BOOLEAN]
      BY DEF Changed
    <3>2. reply \in [Requests -> [changed : {-1, 0}, success : BOOLEAN]]
      BY <1>1 DEF TypeOK
    <3> QED  BY <3>1, <3>2 DEF Replied
  <2> QED  BY <1>1, <2>1, <2>2, <2>3 DEF TypeOK, Replied, core
<1>4. RequestInv(r)'
  BY <1>1, Stopped DEF TypeOK, Replied
<1>5. ASSUME NEW s \in Requests, s # r PROVE RequestInv(s)'
  <2>1. Still(s)
    BY <1>1, <1>5 DEF TypeOK, Still, Replied
  <2> QED  BY <2>1, Elsewhere DEF Inv, Replied
<1>6. NoPositionForgotten'
  <2>1. /\ \A s \in Requests : s # r => pc'[s] = pc[s]
        /\ UNCHANGED <<positions, new, tracked, opened>>
    BY <1>1 DEF TypeOK, Replied, core
  <2>2. \A k : OnItsWay(k) => OnItsWay(k)' \/ k \in dropped'
    BY <2>1 DEF OnItsWay
  <2> QED  BY <2>1, <2>2, StillKnown DEF Inv
<1> QED  BY <1>2, <1>3, <1>4, <1>5, <1>6 DEF Inv

LEMMA CloseStreamStep ==
  ASSUME Inv, NEW r \in Requests, CloseStream(r)
  PROVE  Inv'
<1>1. dropped \subseteq Keys /\ ok[r] \in BOOLEAN
  BY DEF Inv, TypeOK
<1>2. dropped \cup ToSet(new[r]) \subseteq dropped' /\ dropped' = dropped
  BY SetOfEmpty DEF CloseStream
<1> QED  BY <1>1, <1>2, RepliedStep DEF CloseStream

LEMMA BreakStreamStep ==
  ASSUME Inv, NEW r \in Requests, BreakStream(r)
  PROVE  Inv'
<1>1. dropped \subseteq Keys /\ ToSet(new[r]) \subseteq Keys
  BY SetOfType DEF Inv, TypeOK
<1> QED  BY <1>1, RepliedStep DEF BreakStream

LEMMA CrashStep ==
  ASSUME Inv, Crash
  PROVE  Inv'
<1>1. TypeOK
  BY DEF Inv
<1>2. /\ \A s \in Active : pc'[s] = "error"
      /\ \A s \in Requests \ Active : pc'[s] = pc[s] /\ pc[s] \in {"idle", "replied", "error"}
      /\ UNCHANGED <<positions, n, size, pipe, new, failed, ok, reply, began, saw, core>>
  BY <1>1 DEF Crash, Active
<1>3. OneStream'
  BY <1>2 DEF OneStream
<1>4. dropped \subseteq dropped' /\ dropped' \subseteq Keys
      /\ \A s \in Active : ToSet(new[s]) \subseteq dropped'
  <2>1. \A s \in Requests : ToSet(new[s]) \subseteq Keys
    BY <1>1, SetOfType DEF TypeOK
  <2> QED  BY <1>1, <2>1 DEF TypeOK, Crash, Active
<1>5. TypeOK'
  <2>1. Cardinality({s \in Requests : pc'[s] = "stream"}) <= 1
    BY <1>3, StreamCount DEF OneStream
  <2>2. pc' \in [Requests -> {"idle", "ask", "decide", "execute", "executed", "stream",
                              "replied", "error"}]
    BY <1>1 DEF TypeOK, Crash
  <2> QED  BY <1>1, <1>2, <1>4, <2>1, <2>2 DEF TypeOK, core
<1>6. ASSUME NEW s \in Requests PROVE RequestInv(s)'
  <2>1. CASE s \in Active
    BY <1>2, <2>1, Stopped
  <2>2. CASE s \notin Active
    <3>1. Still(s)
      BY <1>2, <2>2 DEF Still
    <3> QED  BY <1>2, <3>1, Elsewhere DEF Inv
  <2> QED  BY <2>1, <2>2
<1>7. NoPositionForgotten'
  <2>1. \A k : OnItsWay(k) => OnItsWay(k)' \/ k \in dropped'
    BY <1>2, <1>4 DEF OnItsWay, core, Active
  <2> QED  BY <1>2, <1>4, <2>1, StillKnown DEF Inv
<1> QED  BY <1>3, <1>5, <1>6, <1>7 DEF Inv

LEMMA TrackStep ==
  ASSUME Inv, Track
  PROVE  Inv'
<1>1. TypeOK
  BY DEF Inv
<1>2. opened \in Seq(Keys) /\ opened # <<>>
  BY <1>1 DEF TypeOK, Track
<1>3. /\ Head(opened) \in Keys /\ Tail(opened) \in Seq(Keys)
      /\ ToSet(opened) = {Head(opened)} \cup ToSet(Tail(opened))
  BY <1>2, SetOfTail
<1>4. OneStream'
  BY DEF Inv, OneStream, Track, request
<1>5. TypeOK'
  <2>1. Cardinality({s \in Requests : pc'[s] = "stream"}) <= 1
    BY <1>4, StreamCount DEF OneStream
  <2>2. Len(opened') <= Capacity
    <3>1. Len(opened) <= Capacity /\ Len(Tail(opened)) = Len(opened) - 1 /\ Len(opened) \in Nat
      BY <1>1, <1>2 DEF TypeOK
    <3> QED  BY <3>1, CapacityAssumption DEF Track
  <2> QED  BY <1>1, <1>3, <2>1, <2>2 DEF TypeOK, Track, request
<1>6. ASSUME NEW s \in Requests PROVE RequestInv(s)'
  <2>1. Still(s)
    BY DEF Still, Track, request
  <2> QED  BY <2>1, Elsewhere DEF Inv, Track
<1>7. NoPositionForgotten'
  <2>1. \A k : OnItsWay(k) => OnItsWay(k)'
    BY <1>3 DEF OnItsWay, Track, request
  <2> QED  BY <2>1, StillKnown DEF Inv, Track
<1> QED  BY <1>4, <1>5, <1>6, <1>7 DEF Inv

\* Whatever makes the core forget: a restart, or the end of its process.
LEMMA ForgetStep ==
  ASSUME Inv, Forget, thread' \in {"up", "hung", "dead"}, restarts' \in 0 .. MaxRestarts
  PROVE  Inv'
<1>1. TypeOK
  BY DEF Inv
<1>2. OneStream'
  BY DEF Inv, OneStream, Forget, request
<1>3. TypeOK'
  <2>1. Cardinality({s \in Requests : pc'[s] = "stream"}) <= 1
    BY <1>2, StreamCount DEF OneStream
  <2>2. /\ opened' \in Seq(Keys) /\ Len(opened') <= Capacity
        /\ tracked' \subseteq Keys
    BY <1>1, CapacityAssumption DEF TypeOK, Forget
  <2>3. dropped' \subseteq Keys
    <3>1. ToSet(opened) \subseteq Keys
      BY <1>1, SetOfType DEF TypeOK
    <3> QED  BY <1>1, <3>1 DEF TypeOK, Forget
  <2> QED  BY <1>1, <2>1, <2>2, <2>3 DEF TypeOK, Forget, request
<1>4. ASSUME NEW s \in Requests PROVE RequestInv(s)'
  <2>1. Still(s)
    BY DEF Still, Forget, request
  <2> QED  BY <2>1, Elsewhere DEF Inv, Forget
<1>5. NoPositionForgotten'
  <2>1. \A k : OnItsWay(k) => OnItsWay(k)' \/ k \in dropped'
    BY DEF OnItsWay, Forget, request
  <2> QED  BY <2>1, StillKnown DEF Inv, Forget
<1> QED  BY <1>2, <1>3, <1>4, <1>5 DEF Inv

LEMMA CoreStep ==
  ASSUME Inv, Core
  PROVE  Inv'
<1>1. thread \in {"up", "hung", "dead"} /\ restarts \in 0 .. MaxRestarts /\ TypeOK
  BY DEF Inv, TypeOK
<1>2. CASE Throw \/ HangEnds \/ Restart
  <2>1. Forget /\ thread' \in {"up", "hung", "dead"}
    BY <1>2 DEF Throw, HangEnds, Restart
  <2>2. restarts' \in 0 .. MaxRestarts
    BY <1>1, <1>2, RestartsAssumption DEF Throw, HangEnds, Restart
  <2> QED  BY <2>1, <2>2, ForgetStep
<1>3. CASE Hang
  <2>1. TypeOK' /\ OneStream'
    BY <1>1, <1>3 DEF Inv, TypeOK, OneStream, Hang, request
  <2>2. \A s \in Requests : Still(s)
    BY <1>3 DEF Still, Hang, request
  <2>3. \A s \in Requests : RequestInv(s)'
    BY <1>3, <2>2, Elsewhere DEF Inv, Hang
  <2>4. \A k : OnItsWay(k) => OnItsWay(k)'
    BY <1>3 DEF OnItsWay, Hang, request
  <2>5. NoPositionForgotten'
    BY <1>3, <2>4, StillKnown DEF Inv, Hang
  <2> QED  BY <2>1, <2>3, <2>5 DEF Inv
<1> QED  BY <1>2, <1>3, TrackStep DEF Core

-----------------------------------------------------------------------------
\* Only Execute takes a request from "execute" to "executed".
LEMMA ExecutesIsExecute ==
  ASSUME Inv, [Next]_vars, NEW r \in Requests, Executes(r)
  PROVE  positions' = Executed(r)
<1>1. TypeOK /\ pc[r] = "execute" /\ pc'[r] = "executed"
  BY DEF Inv, Executes
<1>2. pc \in [Requests -> {"idle", "ask", "decide", "execute", "executed", "stream",
                        "replied", "error"}]
  BY <1>1 DEF TypeOK
<1>3. ASSUME NEW s \in Requests, Begin(s) PROVE FALSE
  BY <1>1, <1>2, <1>3 DEF Begin
<1>4. ASSUME NEW s \in Requests, Work(s) \/ Stream(s) PROVE Execute(s) /\ s = r
  BY <1>1, <1>2, <1>4 DEF Work, Stream, Answer, AnswerFails, Decide, Execute, ExecuteFails,
     OpenStream, ReadContract, CloseStream, BreakStream, Replied
<1>5. ~(Crash \/ Core \/ UNCHANGED vars)
  BY <1>1, <1>2 DEF Crash, Active, Core, Track, Throw, Hang, HangEnds, Restart, Forget, vars,
     request
<1> QED  BY <1>3, <1>4, <1>5 DEF Next, Execute

LEMMA InitInv == Init => Inv
<1> SUFFICES ASSUME Init PROVE Inv
  OBVIOUS
<1> USE DEF Init
<1>1. OneStream
  BY DEF OneStream
<1>2. \A r \in Requests : DOMAIN OrdersOf[r] = 1 .. Len(OrdersOf[r])
                          /\ Len(OrdersOf[r]) \in Nat /\ Len(OrdersOf[r]) >= 1
  <2> SUFFICES ASSUME NEW r \in Requests
               PROVE  DOMAIN OrdersOf[r] = 1 .. Len(OrdersOf[r])
                      /\ Len(OrdersOf[r]) \in Nat /\ Len(OrdersOf[r]) >= 1
    OBVIOUS
  <2>1. OrdersOf[r] # <<>> /\ OrdersOf[r] \in Seq([key : Keys, delta : Int])
    BY OrdersAssumption
  <2> HIDE DEF Init
  <2> QED  BY <2>1, SMT
<1>3. TypeOK
  <2>1. Cardinality({s \in Requests : pc[s] = "stream"}) <= 1
    BY <1>1, StreamCount DEF OneStream
  <2>2. positions \in [DOMAIN positions -> Int] /\ DOMAIN positions = {}
    OBVIOUS
  <2>3. reply \in [Requests -> [changed : {-1, 0}, success : BOOLEAN]]
    BY DEF NoReply
  <2>4. \A r \in Requests : n[r] <= Len(OrdersOf[r]) + 1 /\ failed[r] \subseteq DOMAIN OrdersOf[r]
    BY <1>2
  <2>5. saw \in [Requests -> [Keys -> SUBSET Int]]
    OBVIOUS
  <2>6. /\ pipe \in [Requests -> Seq(Commands)] /\ new \in [Requests -> Seq(Keys)]
        /\ opened \in Seq(Keys) /\ Len(opened) <= Capacity /\ restarts \in 0 .. MaxRestarts
    BY CapacityAssumption, RestartsAssumption
  <2>7. /\ pc \in [Requests -> {"idle", "ask", "decide", "execute", "executed", "stream",
                              "replied", "error"}]
        /\ n \in [Requests -> Nat \ {0}] /\ size \in [Requests -> SUBSET Int]
        /\ failed \in [Requests -> SUBSET Nat] /\ ok \in [Requests -> BOOLEAN]
        /\ began \in [Requests -> SUBSET Keys] /\ tracked \subseteq Keys /\ dropped \subseteq Keys
    OBVIOUS
  <2> QED  BY <2>1, <2>2, <2>3, <2>4, <2>5, <2>6, <2>7 DEF TypeOK
<1>4. \A r \in Requests : RequestInv(r)
  BY <1>2 DEF RequestInv, AnswerInv, PipeInv, SaleInv, Working
<1>5. NoPositionForgotten
  BY DEF NoPositionForgotten
<1> QED  BY <1>1, <1>3, <1>4, <1>5 DEF Inv

LEMMA StepInv == Inv /\ [Next]_vars => Inv'
<1> SUFFICES ASSUME Inv, [Next]_vars PROVE Inv'
  OBVIOUS
<1>1. ASSUME NEW r \in Requests, Begin(r) PROVE Inv'
  BY <1>1, BeginStep
<1>2. ASSUME NEW r \in Requests, Work(r) \/ Stream(r) PROVE Inv'
  BY <1>2, AnswerStep, AnswerFailsStep, DecideStep, ExecuteStep, ExecuteFailsStep,
     OpenStreamStep, ReadContractStep, CloseStreamStep, BreakStreamStep
     DEF Work, Stream
<1>3. CASE Crash
  BY <1>3, CrashStep
<1>4. CASE Core
  BY <1>4, CoreStep
<1>5. CASE UNCHANGED vars
  <2>1. Inv' <=> Inv
    BY <1>5 DEF vars, request, core, Inv, TypeOK, OneStream, RequestInv, AnswerInv, PipeInv,
                SaleInv, Working, Order, Covered, Single, OrdersOn, NoPositionForgotten, OnItsWay
  <2> QED  BY <2>1
<1> QED  BY <1>1, <1>2, <1>3, <1>4, <1>5 DEF Next

LEMMA Invariance == Spec => []Inv
BY InitInv, StepInv, PTL DEF Spec

-----------------------------------------------------------------------------
(***************************************************************************)
(* The hash, the pipelines and the core's queue keep their types: the      *)
(* queue never outgrows its capacity, one stream at a time is open, and    *)
(* whatever is dropped is a contract.                                      *)
(***************************************************************************)
THEOREM TypeCorrect == Spec => []TypeOK
<1>1. Inv => TypeOK
  BY DEF Inv
<1> QED  BY <1>1, Invariance, PTL

(***************************************************************************)
(* However the requests interleave, fail and crash, no open position's     *)
(* contract is lost on its way to the core without a failure that the      *)
(* history names.                                                          *)
(***************************************************************************)
THEOREM NoPositionForgottenThm == Spec => []NoPositionForgotten
<1>1. Inv => NoPositionForgotten
  BY DEF Inv
<1> QED  BY <1>1, Invariance, PTL

(***************************************************************************)
(* A pipeline adds its units to every position that was open when its      *)
(* request began: the race of two requests loses no units, for any number  *)
(* of requests with any orders.                                            *)
(***************************************************************************)
THEOREM UnitsAreAddedUpThm == Spec => UnitsAreAddedUp
<1>1. ASSUME Inv, [Next]_vars, NEW r \in Requests, Executes(r), NEW k \in began[r]
      PROVE  positions'[k] = positions[k] + Units(pipe[r], k)
  <2>1. positions' = Executed(r)
    BY <1>1, ExecutesIsExecute
  <2>2. positions \in [DOMAIN positions -> Int] /\ pipe[r] \in Seq(Commands)
    BY <1>1 DEF Inv, TypeOK
  <2>3. k \in DOMAIN positions /\ \A i \in DOMAIN pipe[r] : pipe[r][i].key = k => ~pipe[r][i].set
    BY <1>1 DEF Inv, RequestInv, PipeInv, Working, Executes
  <2> QED  BY <2>1, <2>2, <2>3, AddedUp DEF Executed
<1>2. Inv /\ [Next]_vars =>
        [\A r \in Requests : Executes(r) =>
           \A k \in began[r] : positions'[k] = positions[k] + Units(pipe[r], k)]_vars
  BY <1>1
<1> QED  BY <1>2, Invariance, PTL DEF Spec, UnitsAreAddedUp

(***************************************************************************)
(* The check of a sale is as good as the answer it rests on: a request     *)
(* with one order for the contract never leaves a short position, unless   *)
(* the position changed after its answer.                                  *)
(***************************************************************************)
THEOREM CheckedSalesAreCoveredThm == Spec => CheckedSalesAreCovered
<1>1. ASSUME Inv, [Next]_vars, NEW r \in Requests, Executes(r), NEW c \in ToSet(pipe[r]),
             Cardinality(OrdersOn(r, c.key)) = 1,
             saw[r][c.key] = (IF c.key \in DOMAIN positions THEN {positions[c.key]} ELSE {})
      PROVE  positions'[c.key] >= 0
  <2>1. positions' = Executed(r)
    BY <1>1, ExecutesIsExecute
  <2>2. positions \in [DOMAIN positions -> Int] /\ pipe[r] \in Seq(Commands)
    BY <1>1 DEF Inv, TypeOK
  <2>3. PICK m \in DOMAIN pipe[r] : c = pipe[r][m]
    BY <1>1 DEF ToSet
  <2>4. SaleInv(r) /\ Working(r)
    BY <1>1 DEF Inv, RequestInv, Working, Executes
  <2>5. \A i \in DOMAIN pipe[r] : pipe[r][i].key = pipe[r][m].key => i = m
    BY <1>1, <2>3, <2>4 DEF SaleInv, Single
  <2>6. Covered(r, c)
    BY <1>1, <2>3, <2>4 DEF SaleInv, Single
  <2>7. positions'[c.key] =
          IF c.set \/ c.key \notin DOMAIN positions
          THEN c.delta ELSE positions[c.key] + c.delta
    BY <2>1, <2>2, <2>3, <2>5, AppliedOnce DEF Executed
  <2> QED  BY <1>1, <2>2, <2>6, <2>7 DEF Covered
<1>2. Inv /\ [Next]_vars =>
        [\A r \in Requests : Executes(r) =>
           \A c \in ToSet(pipe[r]) :
             /\ Cardinality(OrdersOn(r, c.key)) = 1
             /\ saw[r][c.key] =
                  (IF c.key \in DOMAIN positions THEN {positions[c.key]} ELSE {})
             => positions'[c.key] >= 0]_vars
  BY <1>1
<1> QED  BY <1>2, Invariance, PTL DEF Spec, CheckedSalesAreCovered
=============================================================================
