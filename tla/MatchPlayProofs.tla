--------------------------- MODULE MatchPlayProofs ---------------------------
(***************************************************************************)
(* Proofs about Draw, Standings and MatchPlay. For every field, the pools  *)
(* are fair, play round robins and queue on their courts; the bracket      *)
(* spares and pairs the seeds as it should, is played in the order of its  *)
(* rounds and has the links of a bracket. Pools that have played out have  *)
(* a table each, the lots at the cut lines keep it one, and the bracket    *)
(* takes exactly the teams above the cut that the public standings show.   *)
(* For every such draw, a final result is one the rules allow, a decided   *)
(* match stays as it is, the bracket holds the winners of its feeders and, *)
(* where nothing feeds it, the seeds of the standings, and when all is     *)
(* played everyone is placed as the bracket and the pools went.            *)
(***************************************************************************)
EXTENDS MatchPlayFacts, FiniteSetTheorems, SequenceTheorems, TLAPS

-----------------------------------------------------------------------------
(* The pools. *)

\* The cardinality of the draw is that of the finite sets.
LEMMA DrawCardinality ==
  ASSUME NEW T
  PROVE  D!Cardinality(T) = Cardinality(T)
  BY DEF D!Cardinality, Cardinality

\* A quotient and a remainder are the only ones.
LEMMA DivModUnique ==
  ASSUME NEW c \in Nat \ {0}, NEW q \in Nat, NEW r \in 0..(c - 1)
  PROVE  (c * q + r) \div c = q /\ (c * q + r) % c = r
<1> DEFINE z == c * q + r
           a == z \div c
           b == z % c
<1>1. z \in Nat /\ a \in Nat /\ b \in 0..(c - 1) /\ z = c * a + b
  OBVIOUS
<1>2. z = c * q + r
  OBVIOUS
<1> HIDE DEF a, b, z
<1>3. ASSUME NEW x \in Nat, NEW y \in Nat, x < y
      PROVE  c * y >= c * x + c
  <2>1. PICK d \in Nat : y = x + 1 + d
    <3>1. y - x - 1 \in Nat /\ y = x + 1 + (y - x - 1)
      BY <1>3
    <3> QED
      BY <3>1
  <2>2. c * y = c * x + c + c * d /\ c * d \in Nat
    BY <2>1
  <2>3. c * x \in Nat
    OBVIOUS
  <2> QED
    BY <2>2, <2>3
<1>4. c * a \in Nat /\ c * q \in Nat
  BY <1>1
<1>5. ~(a < q)
  BY <1>1, <1>2, <1>3, <1>4
<1>6. ~(q < a)
  BY <1>1, <1>2, <1>3, <1>4
<1>7. a = q /\ b = r
  BY <1>1, <1>2, <1>4, <1>5, <1>6
<1> QED
  BY <1>7 DEF a, b, z

\* The k-th place of a pool is dealt to that pool, and within its pass.
LEMMA PlaceIsDealt ==
  ASSUME NEW c \in Nat \ {0}, NEW p \in 1..c, NEW k \in Nat \ {0}
  PROVE  /\ PlaceOf(p, k, c) \in Nat \ {0}
         /\ c * (k - 1) \in Nat
         /\ PlaceOf(p, k, c) > c * (k - 1) /\ PlaceOf(p, k, c) <= c * k
         /\ D!PoolOf(PlaceOf(p, k, c), c) = p
<1> DEFINE x == IF k % 2 = 1 THEN p ELSE c + 1 - p
           q == k - 1
           i == PlaceOf(p, k, c)
<1>1. q \in Nat /\ x \in 1..c /\ x - 1 \in 0..(c - 1)
  OBVIOUS
<1>2. c * q \in Nat /\ c * k = c * q + c
  BY <1>1
<1>3. i = c * q + x
  BY DEF PlaceOf
<1>4. k % 2 = 1 <=> q % 2 = 0
  OBVIOUS
<1>5. /\ k % 2 = 1 => x = p
      /\ k % 2 # 1 => x = c + 1 - p
  OBVIOUS
<1> HIDE DEF x, q, i
<1>6. i - 1 = c * q + (x - 1)
  BY <1>1, <1>2, <1>3
<1>7. (i - 1) \div c = q /\ (i - 1) % c = x - 1
  BY <1>1, <1>6, DivModUnique
<1>8. D!PoolOf(i, c) = IF q % 2 = 0 THEN 1 + (x - 1) ELSE c - (x - 1)
  BY <1>7 DEF D!PoolOf
<1>9. D!PoolOf(i, c) = p
  BY <1>1, <1>4, <1>5, <1>8
<1> QED
  BY <1>1, <1>2, <1>3, <1>9 DEF i, q

\* Every place is some pool's, in some pass.
LEMMA DealtIsPlace ==
  ASSUME NEW c \in Nat \ {0}, NEW i \in Nat \ {0}
  PROVE  \E p \in 1..c, k \in Nat \ {0} : i = PlaceOf(p, k, c)
<1> DEFINE q == (i - 1) \div c
           r == (i - 1) % c
<1>1. q \in Nat /\ r \in 0..(c - 1) /\ i - 1 = c * q + r
  OBVIOUS
<1> HIDE DEF q, r
<1> DEFINE k == q + 1
           p == IF k % 2 = 1 THEN r + 1 ELSE c - r
<1>2. k \in Nat \ {0} /\ p \in 1..c /\ k - 1 = q
  BY <1>1
<1>3. (IF k % 2 = 1 THEN p ELSE c + 1 - p) = r + 1
  BY <1>1
<1> HIDE DEF k, p
<1>4. PlaceOf(p, k, c) = c * q + (r + 1)
  BY <1>2, <1>3 DEF PlaceOf
<1>5. c * q \in Nat
  BY <1>1
<1>6. i = PlaceOf(p, k, c)
  BY <1>1, <1>4, <1>5
<1> QED
  BY <1>2, <1>6

\* A later pass deals a later place.
LEMMA PlacesGoOn ==
  ASSUME NEW c \in Nat \ {0}, NEW p \in 1..c, NEW s \in 1..c,
         NEW k \in Nat \ {0}, NEW l \in Nat \ {0}, k < l
  PROVE  PlaceOf(p, k, c) < PlaceOf(s, l, c)
<1>1. PlaceOf(p, k, c) \in Nat /\ PlaceOf(p, k, c) <= c * k
  BY PlaceIsDealt
<1>2. PlaceOf(s, l, c) \in Nat /\ PlaceOf(s, l, c) > c * (l - 1)
  BY PlaceIsDealt
<1>3. PICK d \in Nat : l - 1 = k + d
  <2>1. l - 1 - k \in Nat /\ l - 1 = k + (l - 1 - k)
    OBVIOUS
  <2> QED
    BY <2>1
<1>4. c * (l - 1) = c * k + c * d /\ c * d \in Nat /\ c * k \in Nat
  BY <1>3
<1> QED
  BY <1>1, <1>2, <1>4

\* The first m places of a pool are m.
LEMMA PlacesCount ==
  ASSUME NEW c \in Nat \ {0}, NEW p \in 1..c, NEW m \in Nat
  PROVE  /\ IsFiniteSet({PlaceOf(p, k, c) : k \in 1..m})
         /\ Cardinality({PlaceOf(p, k, c) : k \in 1..m}) = m
<1> DEFINE T == {PlaceOf(p, k, c) : k \in 1..m}
           f == [k \in 1..m |-> PlaceOf(p, k, c)]
<1>1. ASSUME NEW k \in 1..m, NEW l \in 1..m, PlaceOf(p, k, c) = PlaceOf(p, l, c)
      PROVE  k = l
  <2>1. k \in Nat \ {0} /\ l \in Nat \ {0}
    OBVIOUS
  <2>2. PlaceOf(p, k, c) \in Nat /\ PlaceOf(p, l, c) \in Nat
    BY <2>1, PlaceIsDealt
  <2>3. ~(k < l) /\ ~(l < k)
    BY <1>1, <2>1, <2>2, PlacesGoOn
  <2> QED
    BY <2>1, <2>3
<1>2. f \in Bijection(1..m, T)
  <2>1. f \in [1..m -> T]
    OBVIOUS
  <2>2. \A k, l \in 1..m : f[k] = f[l] => k = l
    BY <1>1
  <2>3. \A y \in T : \E k \in 1..m : f[k] = y
    OBVIOUS
  <2> QED
    BY ONLY <2>1, <2>2, <2>3 DEF Bijection, Injection, Surjection, IsInjective
<1>3. ExistsBijection(1..m, T)
  BY <1>2 DEF ExistsBijection
<1>4. Cardinality(1..m) = m
  BY FS_Interval
<1>5. IsFiniteSet(1..m)
  BY FS_Interval
<1> HIDE DEF T, f
<1>6. IsFiniteSet(T)
  BY <1>3, <1>5, FS_Bijection
<1>7. Cardinality(T) = m
  BY <1>3, <1>4, <1>5, FS_Bijection
<1> QED
  BY <1>6, <1>7 DEF T

\* The places of a pool are those of the first passes.
LEMMA PlacesOfPool ==
  ASSUME NEW c \in Nat \ {0}, NEW p \in 1..c, NEW n \in Nat
  PROVE  /\ PoolLen(n, c, p) \in Nat
         /\ PoolLen(n, c, p) \in {n \div c, (n \div c) + 1}
         /\ \A k \in Nat \ {0} : PlaceOf(p, k, c) <= n <=> k <= PoolLen(n, c, p)
         /\ {i \in 1..n : D!PoolOf(i, c) = p} = {PlaceOf(p, k, c) : k \in 1..PoolLen(n, c, p)}
<1> DEFINE r == n \div c
           m == PoolLen(n, c, p)
<1>1. r \in Nat /\ n % c \in 0..(c - 1) /\ n = c * r + (n % c)
  OBVIOUS
<1>2. m = IF PlaceOf(p, r + 1, c) <= n THEN r + 1 ELSE r
  BY DEF PoolLen
<1> HIDE DEF r, m
<1>3. m \in Nat /\ m \in {r, r + 1}
  BY <1>1, <1>2
<1>4. PlaceOf(p, r + 1, c) \in Nat
  BY <1>1, PlaceIsDealt
<1>5. ASSUME NEW k \in Nat \ {0}
      PROVE  PlaceOf(p, k, c) <= n <=> k <= m
  <2>1. PlaceOf(p, k, c) \in Nat /\ PlaceOf(p, k, c) <= c * k /\ PlaceOf(p, k, c) > c * (k - 1)
    BY PlaceIsDealt
  <2>2. CASE k <= r
    <3>1. PICK d \in Nat : r = k + d
      <4>1. r - k \in Nat /\ r = k + (r - k)
        BY <1>1, <2>2
      <4> QED
        BY <4>1
    <3>2. c * r = c * k + c * d /\ c * d \in Nat /\ c * k \in Nat
      BY <3>1
    <3>3. PlaceOf(p, k, c) <= n
      BY <1>1, <2>1, <3>2
    <3> QED
      BY <1>1, <1>3, <2>2, <3>3
  <2>3. CASE k = r + 1
    BY <1>1, <1>2, <2>3
  <2>4. CASE k > r + 1
    <3>1. PICK d \in Nat : k - 1 = r + 1 + d
      <4>1. k - 2 - r \in Nat /\ k - 1 = r + 1 + (k - 2 - r)
        BY <1>1, <2>4
      <4> QED
        BY <4>1
    <3>2. c * (k - 1) = c * r + c + c * d /\ c * d \in Nat /\ c * r \in Nat
      BY <1>1, <3>1
    <3>3. ~(PlaceOf(p, k, c) <= n)
      BY <1>1, <2>1, <3>2
    <3> QED
      BY <1>1, <1>3, <2>4, <3>3
  <2> QED
    BY <1>1, <2>2, <2>3, <2>4
<1>6. ASSUME NEW i \in 1..n, D!PoolOf(i, c) = p
      PROVE  i \in {PlaceOf(p, k, c) : k \in 1..m}
  <2>1. i \in Nat \ {0}
    OBVIOUS
  <2>2. PICK s \in 1..c, k \in Nat \ {0} : i = PlaceOf(s, k, c)
    BY <2>1, DealtIsPlace
  <2>3. s = p
    BY <1>6, <2>2, PlaceIsDealt
  <2>4. PlaceOf(p, k, c) <= n
    BY <2>2, <2>3
  <2>5. k \in 1..m
    BY <1>3, <1>5, <2>4
  <2> QED
    BY <2>2, <2>3, <2>5
<1>7. ASSUME NEW k \in 1..m
      PROVE  PlaceOf(p, k, c) \in {i \in 1..n : D!PoolOf(i, c) = p}
  <2>1. k \in Nat \ {0} /\ k <= m
    BY <1>3
  <2>2. PlaceOf(p, k, c) <= n
    BY <1>5, <2>1
  <2>3. PlaceOf(p, k, c) \in Nat \ {0} /\ D!PoolOf(PlaceOf(p, k, c), c) = p
    BY <2>1, PlaceIsDealt
  <2> QED
    BY <2>2, <2>3
<1>8. {i \in 1..n : D!PoolOf(i, c) = p} = {PlaceOf(p, k, c) : k \in 1..m}
  BY <1>6, <1>7
<1> QED
  BY <1>3, <1>5, <1>8 DEF m, r

\* A pool lists its places in the order of the passes.
LEMMA PoolsAreDealt ==
  ASSUME NEW line, NEW n \in Nat, n = Len(line), DOMAIN line = 1..n,
         NEW size, NEW c \in Nat \ {0}, c = D!PoolCount(n, size)
  PROVE  D!PartitionIntoPools(line, size)
           = [p \in 1..c |-> [k \in 1..PoolLen(n, c, p) |-> line[PlaceOf(p, k, c)]]]
<1> DEFINE Places(p) == {i \in 1..n : D!PoolOf(i, c) = p}
           At(p, k) == CHOOSE i \in Places(p) : Cardinality({j \in Places(p) : j <= i}) = k
<1>1. ASSUME NEW p \in 1..c, NEW l \in 1..PoolLen(n, c, p)
      PROVE  At(p, l) = PlaceOf(p, l, c)
  <2> DEFINE m == PoolLen(n, c, p)
  <2>1. m \in Nat /\ Places(p) = {PlaceOf(p, k, c) : k \in 1..m}
    BY PlacesOfPool
  <2> HIDE DEF Places
  <2>2. ASSUME NEW x \in 1..m
        PROVE  Cardinality({j \in Places(p) : j <= PlaceOf(p, x, c)}) = x
    <3>1. x \in Nat /\ x \in Nat \ {0} /\ x <= m
      BY <2>1
    <3>2. ASSUME NEW k \in 1..m
          PROVE  PlaceOf(p, k, c) <= PlaceOf(p, x, c) <=> k <= x
      <4>1. k \in Nat \ {0}
        BY <2>1
      <4>2. PlaceOf(p, k, c) \in Nat /\ PlaceOf(p, x, c) \in Nat
        BY <3>1, <4>1, PlaceIsDealt
      <4>3. k < x => PlaceOf(p, k, c) < PlaceOf(p, x, c)
        BY <3>1, <4>1, PlacesGoOn
      <4>4. x < k => PlaceOf(p, x, c) < PlaceOf(p, k, c)
        BY <3>1, <4>1, PlacesGoOn
      <4> QED
        BY <3>1, <4>1, <4>2, <4>3, <4>4
    <3>3. {j \in Places(p) : j <= PlaceOf(p, x, c)} = {PlaceOf(p, k, c) : k \in 1..x}
      BY <2>1, <3>1, <3>2
    <3>4. Cardinality({PlaceOf(p, k, c) : k \in 1..x}) = x
      BY ONLY c \in Nat \ {0}, p \in 1..c, <3>1, PlacesCount, Zenon
    <3> QED
      BY ONLY <3>3, <3>4
  <2>3. PlaceOf(p, l, c) \in Places(p)
    BY <2>1
  <2>4. ASSUME NEW i \in Places(p), Cardinality({j \in Places(p) : j <= i}) = l
        PROVE  i = PlaceOf(p, l, c)
    <3>1. PICK x \in 1..m : i = PlaceOf(p, x, c)
      BY <2>1
    <3>2. x = l
      BY <2>2, <2>4, <3>1
    <3> QED
      BY <3>1, <3>2
  <2>5. Cardinality({j \in Places(p) : j <= PlaceOf(p, l, c)}) = l
    BY <2>2
  <2> QED
    BY <2>3, <2>4, <2>5
<1>2. ASSUME NEW p \in 1..c
      PROVE  Cardinality(Places(p)) = PoolLen(n, c, p)
  <2>1. PICK m \in Nat : m = PoolLen(n, c, p)
    BY PlacesOfPool
  <2>2. Places(p) = {PlaceOf(p, k, c) : k \in 1..m}
    BY ONLY c \in Nat \ {0}, p \in 1..c, n \in Nat, <2>1, PlacesOfPool, Zenon
  <2>3. Cardinality({PlaceOf(p, k, c) : k \in 1..m}) = m
    BY ONLY c \in Nat \ {0}, p \in 1..c, <2>1, PlacesCount, Zenon
  <2> HIDE DEF Places
  <2> QED
    BY ONLY <2>1, <2>2, <2>3
<1> DEFINE Nth(p, k) == CHOOSE i \in Places(p) : D!Cardinality({j \in Places(p) : j <= i}) = k
<1>3. D!PartitionIntoPools(line, size)
        = [p \in 1..c |-> [k \in 1..D!Cardinality(Places(p)) |-> line[Nth(p, k)]]]
  BY DEF D!PartitionIntoPools
<1>4. ASSUME NEW p, NEW k
      PROVE  Nth(p, k) = At(p, k)
  BY DrawCardinality
<1>5. ASSUME NEW p
      PROVE  D!Cardinality(Places(p)) = Cardinality(Places(p))
  BY DrawCardinality
<1> HIDE DEF Places, At, Nth
<1> QED
  BY <1>1, <1>2, <1>3, <1>4, <1>5

\* The pools are enough for the size, and each has two full passes.
LEMMA PoolCountFits ==
  ASSUME NEW n \in Nat, NEW size \in Nat, D!Partitionable(n, size)
  PROVE  /\ D!PoolCount(n, size) \in Nat \ {0}
         /\ size * D!PoolCount(n, size) >= n
         /\ n \div D!PoolCount(n, size) >= 2
<1> DEFINE c == D!PoolCount(n, size)
<1>1. size >= 2 /\ n >= 2 /\ n \div c >= 2
  BY DEF D!Partitionable, D!SmallestPool
<1>2. PICK z : z = n + size - 1
  OBVIOUS
<1>3. c = z \div size
  BY <1>2 DEF D!PoolCount, D!CeilDiv
<1> HIDE DEF c
<1>4. z \in Nat /\ size \in Nat \ {0}
  BY <1>1, <1>2
<1>5. c \in Nat /\ z % size \in 0..(size - 1) /\ z = size * c + (z % size)
  BY <1>3, <1>4
<1>6. size * c \in Nat
  BY <1>5
<1>7. size * c >= n
  BY <1>2, <1>5, <1>6
<1>8. c # 0
  BY <1>1, <1>7
<1> QED
  BY <1>1, <1>5, <1>7, <1>8 DEF c

\* Every pool has at least two teams and at most the size.
LEMMA PoolLenFits ==
  ASSUME NEW n \in Nat, NEW size \in Nat, D!Partitionable(n, size),
         NEW c, c = D!PoolCount(n, size), NEW p \in 1..c
  PROVE  PoolLen(n, c, p) \in 2..size
<1>1. c \in Nat \ {0} /\ size * c >= n /\ n \div c >= 2
  BY PoolCountFits
<1>2. PICK m, r : m = PoolLen(n, c, p) /\ r = n \div c
  OBVIOUS
<1>3. r \in Nat /\ r >= 2 /\ n % c \in 0..(c - 1) /\ n = c * r + (n % c)
  BY <1>1, <1>2
<1>4. m \in Nat /\ m \in {r, r + 1}
  BY <1>1, <1>2, PlacesOfPool
<1>5. m <= PoolLen(n, c, p) /\ m \in Nat \ {0}
  BY <1>2, <1>3, <1>4
<1>6. PlaceOf(p, m, c) <= n
  BY <1>1, <1>5, PlacesOfPool
<1>7. PlaceOf(p, m, c) \in Nat /\ PlaceOf(p, m, c) > c * (m - 1)
  BY <1>1, <1>5, PlaceIsDealt
<1>8. c * (m - 1) \in Nat /\ c * (m - 1) < c * size
  BY <1>1, <1>5, <1>6, <1>7
<1>9. ~(m > size)
  <2> SUFFICES ASSUME m > size PROVE FALSE
    OBVIOUS
  <2>1. PICK d \in Nat : m - 1 = size + d
    <3>1. m - 1 - size \in Nat /\ m - 1 = size + (m - 1 - size)
      BY <1>5
    <3> QED
      BY <3>1
  <2>2. c * (m - 1) = c * size + c * d /\ c * d \in Nat /\ c * size \in Nat
    BY <1>1, <2>1
  <2> QED
    BY <1>8, <2>2
<1> QED
  BY <1>2, <1>3, <1>4, <1>9

\* The pools of the draw are fair: they divide the seed line, none is larger
\* than asked for or a team alone, no two differ by more than a team, and over
\* any two passes each gets the same strength (partitionIntoPools).
THEOREM PoolsAreFair ==
  ASSUME NEW n \in Nat, NEW size \in Nat, D!Partitionable(n, size)
  PROVE  D!FairPools(n, size, D!PartitionIntoPools([i \in 1..n |-> i], size))
<1>1. PICK line : line = [i \in 1..n |-> i]
  OBVIOUS
<1>2. PICK c : c = D!PoolCount(n, size)
  OBVIOUS
<1>3. c \in Nat \ {0} /\ n \div c >= 2
  BY <1>2, PoolCountFits
<1>4. PICK pools : pools = D!PartitionIntoPools(line, size)
  OBVIOUS
<1>5. pools = [p \in 1..c |-> [k \in 1..PoolLen(n, c, p) |-> line[PlaceOf(p, k, c)]]]
  <2>1. DOMAIN line = 1..n /\ Len(line) = n
    BY <1>1
  <2> QED
    BY <1>2, <1>3, <1>4, <2>1, PoolsAreDealt
<1>6. ASSUME NEW p \in 1..c
      PROVE  /\ PoolLen(n, c, p) \in 2..size
             /\ PoolLen(n, c, p) \in {n \div c, (n \div c) + 1}
             /\ pools[p] = [k \in 1..PoolLen(n, c, p) |-> PlaceOf(p, k, c)]
             /\ D!MembersOf(pools[p]) = {i \in 1..n : D!PoolOf(i, c) = p}
             /\ DOMAIN pools[p] = 1..PoolLen(n, c, p)
             /\ Len(pools[p]) = PoolLen(n, c, p)
  <2>1. PICK m : m = PoolLen(n, c, p)
    OBVIOUS
  <2>2. m \in 2..size
    BY <1>2, <2>1, PoolLenFits
  <2>3. m \in {n \div c, (n \div c) + 1}
    BY <1>3, <2>1, PlacesOfPool
  <2>4. {i \in 1..n : D!PoolOf(i, c) = p} = {PlaceOf(p, k, c) : k \in 1..m}
    BY <1>3, <2>1, PlacesOfPool
  <2>5. pools[p] = [k \in 1..m |-> PlaceOf(p, k, c)]
    <3>1. \A k \in 1..m : PlaceOf(p, k, c) \in 1..n
      BY <2>4
    <3>2. pools[p] = [k \in 1..m |-> line[PlaceOf(p, k, c)]]
      BY <1>5, <2>1
    <3> QED
      BY <1>1, <3>1, <3>2
  <2>6. D!MembersOf(pools[p]) = {PlaceOf(p, k, c) : k \in 1..m}
    BY <2>5 DEF D!MembersOf
  <2>7. m \in Nat /\ DOMAIN pools[p] = 1..m
    BY <2>2, <2>5
  <2>8. Len(pools[p]) = m
    BY <2>5, <2>7
  <2> QED
    BY <2>1, <2>2, <2>3, <2>4, <2>5, <2>6, <2>7, <2>8
<1>7. DOMAIN pools = 1..c
  BY <1>5
<1>8. UNION {D!MembersOf(pools[p]) : p \in DOMAIN pools} = 1..n
  <2>1. ASSUME NEW i \in 1..n
        PROVE  \E p \in 1..c : i \in {j \in 1..n : D!PoolOf(j, c) = p}
    <3>1. i \in Nat \ {0}
      OBVIOUS
    <3>2. PICK p \in 1..c, k \in Nat \ {0} : i = PlaceOf(p, k, c)
      BY <1>3, <3>1, DealtIsPlace
    <3>3. D!PoolOf(i, c) = p
      BY <1>3, <3>2, PlaceIsDealt
    <3> QED
      BY <3>3
  <2>2. \A p \in 1..c : D!MembersOf(pools[p]) = {j \in 1..n : D!PoolOf(j, c) = p}
    BY <1>6
  <2>3. ASSUME NEW i \in 1..n
        PROVE  i \in UNION {D!MembersOf(pools[p]) : p \in DOMAIN pools}
    <3>1. PICK p \in 1..c : i \in {j \in 1..n : D!PoolOf(j, c) = p}
      BY <2>1
    <3>2. i \in D!MembersOf(pools[p])
      BY <2>2, <3>1
    <3> QED
      BY <1>7, <3>2
  <2>4. ASSUME NEW p \in DOMAIN pools
        PROVE  D!MembersOf(pools[p]) \subseteq 1..n
    BY <1>7, <2>2
  <2> QED
    BY ONLY <2>3, <2>4
<1>9. \A p, q \in DOMAIN pools : p # q => D!MembersOf(pools[p]) \cap D!MembersOf(pools[q]) = {}
  BY <1>6, <1>7
<1>10. \A p \in DOMAIN pools : \A k, l \in DOMAIN pools[p] : k < l => pools[p][k] < pools[p][l]
  <2> SUFFICES ASSUME NEW p \in 1..c, NEW k \in 1..PoolLen(n, c, p), NEW l \in 1..PoolLen(n, c, p), k < l
               PROVE  pools[p][k] < pools[p][l]
    BY <1>6, <1>7
  <2>1. k \in Nat \ {0} /\ l \in Nat \ {0}
    BY <1>6
  <2>2. PlaceOf(p, k, c) < PlaceOf(p, l, c)
    BY <1>3, <2>1, PlacesGoOn
  <2> QED
    BY <1>6, <2>2
<1>11. \A p \in DOMAIN pools : Len(pools[p]) \in 2..size
  BY <1>6, <1>7
<1>12. \A p, q \in DOMAIN pools : Len(pools[p]) - Len(pools[q]) <= 1
  <2>1. n \div c \in Nat
    BY <1>3
  <2> QED
    BY <1>6, <1>7, <2>1
<1>13. \A p, q \in DOMAIN pools : \A k \in 1..(Len(pools[p]) \div 2) :
         2 * k <= Len(pools[q]) =>
           pools[p][2 * k - 1] + pools[p][2 * k] = pools[q][2 * k - 1] + pools[q][2 * k]
  <2>1. ASSUME NEW p \in 1..c, NEW k \in Nat \ {0}, 2 * k <= Len(pools[p])
        PROVE  pools[p][2 * k - 1] + pools[p][2 * k] = 2 * (c * (2 * k - 2)) + 2 * c + 1
    <3>1. 2 * k - 1 \in DOMAIN pools[p] /\ 2 * k \in DOMAIN pools[p]
      BY <1>6, <2>1
    <3>2. pools[p][2 * k - 1] = PlaceOf(p, 2 * k - 1, c) /\ pools[p][2 * k] = PlaceOf(p, 2 * k, c)
      BY <1>6, <3>1
    <3>3. (2 * k - 1) % 2 = 1 /\ (2 * k) % 2 # 1
      OBVIOUS
    <3>4. PlaceOf(p, 2 * k - 1, c) = c * (2 * k - 2) + p
      BY <3>3 DEF PlaceOf
    <3>5. PlaceOf(p, 2 * k, c) = c * (2 * k - 1) + (c + 1 - p)
      BY <3>3 DEF PlaceOf
    <3>6. c * (2 * k - 1) = c * (2 * k - 2) + c /\ c * (2 * k - 2) \in Nat
      BY <1>3
    <3> QED
      BY <1>3, <3>2, <3>4, <3>5, <3>6
  <2> SUFFICES ASSUME NEW p \in 1..c, NEW q \in 1..c, NEW k \in 1..(Len(pools[p]) \div 2),
                      2 * k <= Len(pools[q])
               PROVE  pools[p][2 * k - 1] + pools[p][2 * k] = pools[q][2 * k - 1] + pools[q][2 * k]
    BY <1>7
  <2>2. k \in Nat \ {0} /\ 2 * k <= Len(pools[p])
    <3>1. PICK m : m = Len(pools[p])
      OBVIOUS
    <3>2. k \in 1..(m \div 2)
      BY <3>1
    <3>3. m \in Nat
      <4>1. PoolLen(n, c, p) \in 2..size /\ Len(pools[p]) = PoolLen(n, c, p)
        BY <1>6
      <4> QED
        BY ONLY <3>1, <4>1
    <3>4. k \in Nat \ {0} /\ 2 * k <= m
      BY ONLY <3>2, <3>3
    <3> QED
      BY <3>1, <3>4
  <2> QED
    BY <2>1, <2>2
<1> QED
  <2>1. D!FairPools(n, size, pools)
    BY <1>8, <1>9, <1>10, <1>11, <1>12, <1>13 DEF D!FairPools
  <2> QED
    BY <1>1, <1>4, <2>1

-----------------------------------------------------------------------------
(* The circle method. *)

\* A remainder taken less than two turns from zero.
LEMMA ModOfTurn ==
  ASSUME NEW m \in Nat \ {0}, NEW z \in 0..(2 * m - 1)
  PROVE  z % m = IF z < m THEN z ELSE z - m
<1> DEFINE q == z \div m
           r == z % m
<1>1. q \in Nat /\ r \in 0..(m - 1) /\ z = m * q + r
  OBVIOUS
<1> HIDE DEF q, r
<1>2. q \in {0, 1}
  <2> SUFFICES ASSUME q >= 2 PROVE FALSE
    BY <1>1
  <2>1. PICK k \in Nat : q = k + 2
    <3>1. q - 2 \in Nat /\ q = (q - 2) + 2
      BY <1>1
    <3> QED
      BY <3>1
  <2>2. m * q = m * k + 2 * m /\ m * k \in Nat
    BY <2>1
  <2> QED
    BY <1>1, <2>2
<1>3. m * q = IF q = 0 THEN 0 ELSE m
  BY <1>2
<1>4. r = IF z < m THEN z ELSE z - m
  BY <1>1, <1>2, <1>3
<1> QED
  BY <1>4 DEF r

\* Every position but the first moves by one each turn, round the end.
LEMMA SpotValue ==
  ASSUME NEW n \in Nat, n >= 2, NEW q \in 0..(n - 2), NEW i \in 1..n
  PROVE  /\ Spot(n, q, i) \in 1..n
         /\ i = 1 => Spot(n, q, i) = 1
         /\ i # 1 => Spot(n, q, i) = IF i >= q + 2 THEN i - q ELSE i - q + (n - 1)
<1>1. CASE i = 1
  BY <1>1 DEF Spot
<1>2. CASE i # 1
  <2>1. PICK m, z : m = n - 1 /\ z = i - 2 + (n - 1) - q
    OBVIOUS
  <2>2. m \in Nat \ {0} /\ z \in 0..(2 * m - 1)
    BY <1>2, <2>1
  <2>3. z % m = IF z < m THEN z ELSE z - m
    BY <2>2, ModOfTurn
  <2>4. Spot(n, q, i) = 2 + (z % m)
    BY <1>2, <2>1 DEF Spot
  <2>5. Spot(n, q, i) = IF i >= q + 2 THEN i - q ELSE i - q + (n - 1)
    BY <1>2, <2>1, <2>2, <2>3, <2>4
  <2> QED
    BY <1>2, <2>5
<1> QED
  BY <1>1, <1>2

\* No two positions hold the same place.
LEMMA SpotsDiffer ==
  ASSUME NEW n \in Nat, n >= 2, NEW q \in 0..(n - 2), NEW i \in 1..n, NEW j \in 1..n,
         Spot(n, q, i) = Spot(n, q, j)
  PROVE  i = j
<1>1. PICK a, b : a = Spot(n, q, i) /\ b = Spot(n, q, j)
  OBVIOUS
<1>2. /\ a \in 1..n /\ i = 1 => a = 1
      /\ i # 1 => a = IF i >= q + 2 THEN i - q ELSE i - q + (n - 1)
  BY <1>1, SpotValue
<1>3. /\ b \in 1..n /\ j = 1 => b = 1
      /\ j # 1 => b = IF j >= q + 2 THEN j - q ELSE j - q + (n - 1)
  BY <1>1, SpotValue
<1> QED
  BY <1>1, <1>2, <1>3

\* Two places face each other in one turn at most, from one position each.
LEMMA SpotsMeetOnce ==
  ASSUME NEW n \in Nat, n >= 2, NEW h \in Nat, n = 2 * h,
         NEW q \in 0..(n - 2), NEW i \in 1..n, NEW r \in 0..(n - 2), NEW j \in 1..n,
         Spot(n, q, i) = Spot(n, r, j), Spot(n, q, n + 1 - i) = Spot(n, r, n + 1 - j)
  PROVE  q = r /\ i = j
<1>1. PICK k, l, a, b, c, d :
        /\ k = n + 1 - i /\ l = n + 1 - j
        /\ a = Spot(n, q, i) /\ b = Spot(n, q, k) /\ c = Spot(n, r, j) /\ d = Spot(n, r, l)
  OBVIOUS
<1>2. k \in 1..n /\ l \in 1..n
  BY <1>1
<1>3. /\ a \in 1..n
      /\ i = 1 => a = 1
      /\ i # 1 => a = IF i >= q + 2 THEN i - q ELSE i - q + (n - 1)
  BY <1>1, SpotValue
<1>4. /\ b \in 1..n
      /\ k = 1 => b = 1
      /\ k # 1 => b = IF k >= q + 2 THEN k - q ELSE k - q + (n - 1)
  BY <1>1, <1>2, SpotValue
<1>5. /\ c \in 1..n
      /\ j = 1 => c = 1
      /\ j # 1 => c = IF j >= r + 2 THEN j - r ELSE j - r + (n - 1)
  BY <1>1, SpotValue
<1>6. /\ d \in 1..n
      /\ l = 1 => d = 1
      /\ l # 1 => d = IF l >= r + 2 THEN l - r ELSE l - r + (n - 1)
  BY <1>1, <1>2, SpotValue
<1>7. a = c /\ b = d
  BY <1>1
<1>8. k = n + 1 - i /\ l = n + 1 - j
  BY <1>1
<1>9. q \in Nat /\ r \in Nat /\ q <= n - 2 /\ r <= n - 2 /\ h \in Nat /\ n = 2 * h
  OBVIOUS
<1> QED
  BY ONLY <1>2, <1>3, <1>4, <1>5, <1>6, <1>7, <1>8, <1>9, i \in 1..n, j \in 1..n

\* Two places do face each other in some turn.
LEMMA SpotsMeet ==
  ASSUME NEW n \in Nat, n >= 2, NEW h \in Nat, n = 2 * h, NEW a \in 1..n, NEW b \in 1..n, a < b
  PROVE  \E q \in 0..(n - 2), i \in 1..n : Spot(n, q, i) = a /\ Spot(n, q, n + 1 - i) = b
<1>1. CASE a = 1
  <2> DEFINE q == n - b
  <2>1. q \in 0..(n - 2) /\ 1 \in 1..n /\ n \in 1..n /\ n + 1 - 1 = n /\ n # 1 /\ n >= q + 2 /\ n - q = b
    BY <1>1
  <2> HIDE DEF q
  <2>2. Spot(n, q, 1) = 1 /\ Spot(n, q, n) = b
    BY <2>1, SpotValue
  <2> QED
    BY <1>1, <2>1, <2>2
<1>2. ASSUME a # 1, NEW e \in Nat, b = a + 2 * e + 1
      PROVE  \E q \in 0..(n - 2), i \in 1..n : Spot(n, q, i) = a /\ Spot(n, q, n + 1 - i) = b
  <2> DEFINE i == h - e
             j == h + 1 + e
             q == IF i >= a THEN i - a ELSE i - a + (n - 1)
  <2>1. i \in 2..n /\ j \in 2..n /\ n + 1 - i = j /\ q \in 0..(n - 2)
    BY <1>2
  <2>2. /\ (IF i >= q + 2 THEN i - q ELSE i - q + (n - 1)) = a
        /\ (IF j >= q + 2 THEN j - q ELSE j - q + (n - 1)) = b
    BY <1>2, <2>1
  <2> HIDE DEF i, j, q
  <2>3. i \in 1..n /\ j \in 1..n /\ i # 1 /\ j # 1
    BY <2>1
  <2>4. Spot(n, q, i) = a /\ Spot(n, q, j) = b
    BY <2>1, <2>2, <2>3, SpotValue
  <2> QED
    BY <2>1, <2>3, <2>4
<1>3. ASSUME a # 1, NEW e \in Nat \ {0}, b = a + 2 * e
      PROVE  \E q \in 0..(n - 2), i \in 1..n : Spot(n, q, i) = a /\ Spot(n, q, n + 1 - i) = b
  <2> DEFINE i == n - e
             j == e + 1
             q == n + e - b
  <2>1. i \in 2..n /\ j \in 2..n /\ n + 1 - i = j /\ q \in 0..(n - 2)
    BY <1>3
  <2>2. /\ (IF i >= q + 2 THEN i - q ELSE i - q + (n - 1)) = a
        /\ (IF j >= q + 2 THEN j - q ELSE j - q + (n - 1)) = b
    BY <1>3, <2>1
  <2> HIDE DEF i, j, q
  <2>3. i \in 1..n /\ j \in 1..n /\ i # 1 /\ j # 1
    BY <2>1
  <2>4. Spot(n, q, i) = a /\ Spot(n, q, j) = b
    BY <2>1, <2>2, <2>3, SpotValue
  <2> QED
    BY <2>1, <2>3, <2>4
<1>4. \E e \in Nat : b = a + 2 * e + 1 \/ (b = a + 2 * e /\ e # 0)
  <2>1. PICK d : d = b - a /\ d \in Nat \ {0}
    BY a < b
  <2>2. PICK e : e = d \div 2 /\ e \in Nat /\ (d = 2 * e \/ d = 2 * e + 1)
    BY <2>1
  <2> QED
    BY <2>1, <2>2
<1> QED
  BY <1>1, <1>2, <1>3, <1>4

\* There is a round for each place but one.
LEMMA RingIsEven ==
  ASSUME NEW ids, Len(ids) \in Nat, Len(ids) >= 2
  PROVE  /\ RingSize(ids) \in Nat /\ RingSize(ids) >= 2
         /\ RingSize(ids) \in {Len(ids), Len(ids) + 1}
         /\ \E h \in Nat : RingSize(ids) = 2 * h /\ RingSize(ids) \div 2 = h
         /\ D!RoundCount(ids) = RingSize(ids) - 1
<1> DEFINE n == RingSize(ids)
<1>1. PICK l \in Nat : l = Len(ids) /\ l >= 2
  OBVIOUS
<1>2. n = IF l % 2 = 1 THEN l + 1 ELSE l
  BY <1>1 DEF RingSize
<1>3. D!RoundCount(ids) = IF l % 2 = 1 THEN l ELSE l - 1
  BY <1>1 DEF D!RoundCount
<1> HIDE DEF n
<1>4. PICK h : h = n \div 2
  OBVIOUS
<1>5. h \in Nat /\ n = 2 * h
  <2>1. PICK e \in Nat : l = 2 * e \/ l = 2 * e + 1
    <3>1. l \div 2 \in Nat /\ (l = 2 * (l \div 2) \/ l = 2 * (l \div 2) + 1)
      BY <1>1
    <3> QED
      BY <3>1
  <2>2. n = 2 * e \/ n = 2 * (e + 1)
    BY <1>1, <1>2, <2>1
  <2> QED
    BY <1>4, <2>1, <2>2
<1>6. n \in Nat /\ n >= 2 /\ n \in {l, l + 1}
  BY <1>1, <1>2
<1>7. D!RoundCount(ids) = n - 1
  BY <1>1, <1>2, <1>3
<1> QED
  BY <1>1, <1>4, <1>5, <1>6, <1>7 DEF n

\* A round puts together the teams that started at the places now opposite.
LEMMA PairsOfRound ==
  ASSUME NEW T, NEW ids \in Seq(T), Len(ids) >= 2, NEW r \in 1..D!RoundCount(ids),
         NEW n, n = RingSize(ids), NEW h \in Nat, n = 2 * h
  PROVE  /\ DOMAIN D!RoundPairs(ids, r) = 1..h
         /\ \A i \in 1..h :
              D!RoundPairs(ids, r)[i] =
                IF r % 2 = 1 THEN <<Seat(ids, Spot(n, r - 1, i)), Seat(ids, Spot(n, r - 1, n + 1 - i))>>
                ELSE <<Seat(ids, Spot(n, r - 1, n + 1 - i)), Seat(ids, Spot(n, r - 1, i))>>
<1>1. Len(ids) \in Nat
  OBVIOUS
<1>2. n \in Nat /\ n >= 2 /\ D!RoundCount(ids) = n - 1
  BY <1>1, RingIsEven
<1>3. PICK q : q = r - 1
  OBVIOUS
<1>4. q \in 0..(n - 2)
  BY <1>2, <1>3
<1>5. PICK ring : ring = IF Len(ids) % 2 = 1 THEN Append(ids, None) ELSE ids
  OBVIOUS
<1>6. Len(ring) = n
  BY <1>5 DEF RingSize
<1>7. \A i \in 1..n : ring[i] = Seat(ids, i)
  BY <1>1, <1>5 DEF RingSize, Seat
<1>8. D!RingAt(ids, q) =
        [i \in 1..n |-> IF i = 1 THEN ring[1] ELSE ring[2 + ((i - 2 + (n - 1) - q) % (n - 1))]]
  BY <1>5, <1>6 DEF D!RingAt
<1>9. ASSUME NEW i \in 1..n
      PROVE  D!RingAt(ids, q)[i] = Seat(ids, Spot(n, q, i))
  <2>1. D!RingAt(ids, q)[i] = ring[Spot(n, q, i)]
    BY <1>8 DEF Spot
  <2>2. Spot(n, q, i) \in 1..n
    BY <1>2, <1>4, SpotValue
  <2> QED
    BY <1>7, <2>1, <2>2
<1>10. PICK turned : turned = D!RingAt(ids, q)
  OBVIOUS
<1>11. Len(turned) = n
  BY <1>2, <1>8, <1>10
<1>12. D!RoundPairs(ids, r) =
         [i \in 1..h |-> IF r % 2 = 1 THEN <<turned[i], turned[n + 1 - i]>>
                         ELSE <<turned[n + 1 - i], turned[i]>>]
  <2>1. n \div 2 = h
    BY n = 2 * h
  <2> QED
    BY <1>3, <1>10, <1>11, <2>1 DEF D!RoundPairs
<1>13. ASSUME NEW i \in 1..h
       PROVE  turned[i] = Seat(ids, Spot(n, q, i)) /\ turned[n + 1 - i] = Seat(ids, Spot(n, q, n + 1 - i))
  <2>1. i \in 1..n /\ n + 1 - i \in 1..n
    BY n = 2 * h
  <2> QED
    BY <1>9, <1>10, <2>1
<1>14. \A i \in 1..h :
         D!RoundPairs(ids, r)[i] =
           IF r % 2 = 1 THEN <<Seat(ids, Spot(n, q, i)), Seat(ids, Spot(n, q, n + 1 - i))>>
           ELSE <<Seat(ids, Spot(n, q, n + 1 - i)), Seat(ids, Spot(n, q, i))>>
  BY <1>12, <1>13
<1> QED
  BY <1>3, <1>12, <1>14

\* A game is played by the teams of two places that face each other.
LEMMA GameIsOfPlaces ==
  ASSUME NEW ids, IsPool(ids), NEW n, n = RingSize(ids), NEW h \in Nat, n = 2 * h, NEW r, NEW i
  PROVE  IsGame(ids, r, i) <=>
           /\ r \in 1..(n - 1)
           /\ i \in 1..h
           /\ Spot(n, r - 1, i) \in DOMAIN ids
           /\ Spot(n, r - 1, n + 1 - i) \in DOMAIN ids
<1> DEFINE T == {ids[x] : x \in DOMAIN ids}
<1>1. ids \in Seq(T) /\ Len(ids) \in Nat /\ Len(ids) >= 2 /\ DOMAIN ids = 1..Len(ids)
  BY DEF IsPool
<1>2. n \in Nat /\ n >= 2 /\ D!RoundCount(ids) = n - 1 /\ n \in {Len(ids), Len(ids) + 1}
  BY <1>1, RingIsEven, Zenon
<1>3. ASSUME NEW x \in 1..n
      PROVE  Seat(ids, x) # None <=> x \in DOMAIN ids
  <2>1. PICK l \in Nat : l = Len(ids) /\ DOMAIN ids = 1..l
    BY <1>1, Zenon
  <2>2. \A y \in DOMAIN ids : ids[y] # None
    BY DEF IsPool
  <2>3. Seat(ids, x) = IF x <= l THEN ids[x] ELSE None
    BY <2>1 DEF Seat
  <2>4. x \in DOMAIN ids <=> x <= l
    BY <1>2, <2>1
  <2> QED
    BY ONLY <2>2, <2>3, <2>4, Zenon
<1>4. ASSUME r \in 1..(n - 1)
      PROVE  /\ DOMAIN D!RoundPairs(ids, r) = 1..h
             /\ \A x \in 1..h : TeamsOfGame(ids, r, x)
                                  = {Seat(ids, Spot(n, r - 1, x)), Seat(ids, Spot(n, r - 1, n + 1 - x))}
  <2> HIDE DEF T
  <2>1. r \in 1..D!RoundCount(ids) /\ Len(ids) >= 2
    BY <1>1, <1>2, <1>4, Zenon
  <2>2. DOMAIN D!RoundPairs(ids, r) = 1..h
    BY <1>1, <2>1, PairsOfRound
  <2>3. \A x \in 1..h :
          D!RoundPairs(ids, r)[x] =
            IF r % 2 = 1 THEN <<Seat(ids, Spot(n, r - 1, x)), Seat(ids, Spot(n, r - 1, n + 1 - x))>>
            ELSE <<Seat(ids, Spot(n, r - 1, n + 1 - x)), Seat(ids, Spot(n, r - 1, x))>>
    BY <1>1, <2>1, PairsOfRound
  <2> QED
    BY <2>2, <2>3 DEF TeamsOfGame
<1>5. ASSUME r \in 1..(n - 1), i \in 1..h
      PROVE  Spot(n, r - 1, i) \in 1..n /\ Spot(n, r - 1, n + 1 - i) \in 1..n
  <2>1. r - 1 \in 0..(n - 2) /\ i \in 1..n /\ n + 1 - i \in 1..n
    BY <1>2, <1>5, n = 2 * h
  <2> QED
    BY <1>2, <2>1, SpotValue
<1>6. IsGame(ids, r, i) <=> r \in 1..(n - 1) /\ i \in 1..h /\ None \notin TeamsOfGame(ids, r, i)
  BY <1>2, <1>4 DEF IsGame, TeamsOfGame
<1> QED
  BY <1>3, <1>4, <1>5, <1>6

\* The facts the next lemmas start from.
LEMMA PoolHasRing ==
  ASSUME NEW ids, IsPool(ids)
  PROVE  \E n \in Nat, h \in Nat :
           /\ n = RingSize(ids) /\ n = 2 * h /\ n >= 2
           /\ DOMAIN ids \subseteq 1..n
<1>1. Len(ids) \in Nat /\ Len(ids) >= 2 /\ DOMAIN ids = 1..Len(ids)
  BY DEF IsPool
<1>2. PICK n : n = RingSize(ids)
  OBVIOUS
<1>3. n \in Nat /\ n >= 2 /\ n \in {Len(ids), Len(ids) + 1}
  BY <1>1, <1>2, RingIsEven
<1>4. PICK h \in Nat : n = 2 * h
  BY <1>1, <1>2, RingIsEven
<1>5. DOMAIN ids \subseteq 1..n
  <2>1. PICK l \in Nat : l = Len(ids)
    BY ONLY <1>1, Zenon
  <2>2. n \in Nat /\ n \in {l, l + 1} /\ DOMAIN ids = 1..l
    BY <1>1, <1>3, <2>1, Zenon
  <2> QED
    BY ONLY <2>1, <2>2
<1> QED
  BY <1>2, <1>3, <1>4, <1>5

\* The teams of a game are those of the two places.
LEMMA TeamsAreOfPlaces ==
  ASSUME NEW ids, IsPool(ids), NEW r, NEW i, IsGame(ids, r, i)
  PROVE  TeamsOfGame(ids, r, i) = {ids[Spot(RingSize(ids), r - 1, i)],
                                   ids[Spot(RingSize(ids), r - 1, RingSize(ids) + 1 - i)]}
<1> PICK n \in Nat, h \in Nat : n = RingSize(ids) /\ n = 2 * h
  BY PoolHasRing
<1> PICK a, b : a = Spot(n, r - 1, i) /\ b = Spot(n, r - 1, n + 1 - i)
  OBVIOUS
<1> DEFINE T == {ids[x] : x \in DOMAIN ids}
<1>1. ids \in Seq(T) /\ Len(ids) \in Nat /\ Len(ids) >= 2 /\ DOMAIN ids = 1..Len(ids)
  BY DEF IsPool
<1> HIDE DEF T
<1>2. r \in 1..D!RoundCount(ids) /\ i \in DOMAIN D!RoundPairs(ids, r)
  BY DEF IsGame
<1>3. DOMAIN D!RoundPairs(ids, r) = 1..h
  BY <1>1, <1>2, PairsOfRound
<1>4. \A x \in 1..h :
        D!RoundPairs(ids, r)[x] =
          IF r % 2 = 1 THEN <<Seat(ids, Spot(n, r - 1, x)), Seat(ids, Spot(n, r - 1, n + 1 - x))>>
          ELSE <<Seat(ids, Spot(n, r - 1, n + 1 - x)), Seat(ids, Spot(n, r - 1, x))>>
  BY <1>1, <1>2, PairsOfRound
<1>5. TeamsOfGame(ids, r, i) = {Seat(ids, a), Seat(ids, b)}
  BY <1>2, <1>3, <1>4 DEF TeamsOfGame
<1>6. None \notin {Seat(ids, a), Seat(ids, b)}
  BY <1>5 DEF IsGame, TeamsOfGame
<1> QED
  BY <1>5, <1>6 DEF Seat

\* The two teams of a game are different teams of the pool.
LEMMA GameIsOfThePool ==
  ASSUME NEW ids, IsPool(ids), NEW r, NEW i, IsGame(ids, r, i)
  PROVE  /\ D!RoundPairs(ids, r)[i][1] # D!RoundPairs(ids, r)[i][2]
         /\ TeamsOfGame(ids, r, i) \subseteq D!MembersOf(ids)
<1>1. PICK n \in Nat, h \in Nat : n = RingSize(ids) /\ n = 2 * h /\ n >= 2
  BY PoolHasRing
<1>2. PICK x, y, j : j = n + 1 - i /\ x = Spot(n, r - 1, i) /\ y = Spot(n, r - 1, j)
  OBVIOUS
<1>3. r \in 1..(n - 1) /\ i \in 1..h /\ x \in DOMAIN ids /\ y \in DOMAIN ids
  BY <1>1, <1>2, GameIsOfPlaces
<1>4. TeamsOfGame(ids, r, i) = {ids[x], ids[y]}
  BY ONLY IsPool(ids), IsGame(ids, r, i), <1>1, <1>2, TeamsAreOfPlaces
<1>5. r - 1 \in 0..(n - 2) /\ i \in 1..n /\ j \in 1..n /\ i # j
  BY <1>1, <1>2, <1>3
<1>6. x # y
  BY <1>1, <1>2, <1>5, SpotsDiffer
<1>7. ids[x] # ids[y]
  BY <1>3, <1>6 DEF IsPool
<1> QED
  BY <1>3, <1>4, <1>7 DEF TeamsOfGame, D!MembersOf

\* Two teams meet in one game only.
LEMMA TeamsMeetOnce ==
  ASSUME NEW ids, IsPool(ids), NEW r, NEW i, IsGame(ids, r, i), NEW s, NEW j, IsGame(ids, s, j),
         TeamsOfGame(ids, r, i) = TeamsOfGame(ids, s, j)
  PROVE  r = s /\ i = j
<1>1. PICK n \in Nat, h \in Nat : n = RingSize(ids) /\ n = 2 * h /\ n >= 2
  BY PoolHasRing
<1>2. PICK k, l, a, b, c, d :
        /\ k = n + 1 - i /\ l = n + 1 - j
        /\ a = Spot(n, r - 1, i) /\ b = Spot(n, r - 1, k)
        /\ c = Spot(n, s - 1, j) /\ d = Spot(n, s - 1, l)
  OBVIOUS
<1>3. r \in 1..(n - 1) /\ i \in 1..h /\ a \in DOMAIN ids /\ b \in DOMAIN ids
  BY <1>1, <1>2, GameIsOfPlaces
<1>4. s \in 1..(n - 1) /\ j \in 1..h /\ c \in DOMAIN ids /\ d \in DOMAIN ids
  BY <1>1, <1>2, GameIsOfPlaces
<1>5. TeamsOfGame(ids, r, i) = {ids[a], ids[b]} /\ TeamsOfGame(ids, s, j) = {ids[c], ids[d]}
  <2>1. /\ TeamsOfGame(ids, r, i) = {ids[Spot(n, r - 1, i)], ids[Spot(n, r - 1, n + 1 - i)]}
        /\ TeamsOfGame(ids, s, j) = {ids[Spot(n, s - 1, j)], ids[Spot(n, s - 1, n + 1 - j)]}
    BY <1>1, TeamsAreOfPlaces
  <2> QED
    BY ONLY <1>2, <2>1
<1>6. {ids[a], ids[b]} = {ids[c], ids[d]}
  BY <1>5
<1>7. \A x, y \in DOMAIN ids : ids[x] = ids[y] => x = y
  BY DEF IsPool
<1>8. \/ a = c /\ b = d
      \/ a = d /\ b = c
  BY ONLY <1>3, <1>4, <1>6, <1>7
<1>9. r - 1 \in 0..(n - 2) /\ s - 1 \in 0..(n - 2) /\ i \in 1..n /\ j \in 1..n /\ l \in 1..n
  BY <1>1, <1>2, <1>3, <1>4
<1>10. CASE a = c /\ b = d
  <2>1. r - 1 = s - 1 /\ i = j
    BY <1>1, <1>2, <1>9, <1>10, SpotsMeetOnce
  <2> QED
    BY <1>3, <1>4, <2>1
<1>11. CASE a = d /\ b = c
  <2>1. n + 1 - l = j
    BY <1>2, <1>4
  <2>2. i = l
    BY <1>1, <1>2, <1>9, <1>11, <2>1, SpotsMeetOnce
  <2>3. FALSE
    BY <1>1, <1>2, <1>3, <1>4, <2>2
  <2> QED
    BY <2>3
<1> QED
  BY <1>8, <1>10, <1>11

\* No team plays twice in a round.
LEMMA RoundIsDisjoint ==
  ASSUME NEW ids, IsPool(ids), NEW r, NEW i, IsGame(ids, r, i), NEW j, IsGame(ids, r, j), i # j
  PROVE  TeamsOfGame(ids, r, i) \cap TeamsOfGame(ids, r, j) = {}
<1>1. PICK n \in Nat, h \in Nat : n = RingSize(ids) /\ n = 2 * h /\ n >= 2
  BY PoolHasRing
<1>2. PICK k, l, a, b, c, d :
        /\ k = n + 1 - i /\ l = n + 1 - j
        /\ a = Spot(n, r - 1, i) /\ b = Spot(n, r - 1, k)
        /\ c = Spot(n, r - 1, j) /\ d = Spot(n, r - 1, l)
  OBVIOUS
<1>3. r \in 1..(n - 1) /\ i \in 1..h /\ a \in DOMAIN ids /\ b \in DOMAIN ids
  BY <1>1, <1>2, GameIsOfPlaces
<1>4. j \in 1..h /\ c \in DOMAIN ids /\ d \in DOMAIN ids
  BY <1>1, <1>2, GameIsOfPlaces
<1>5. TeamsOfGame(ids, r, i) = {ids[a], ids[b]} /\ TeamsOfGame(ids, r, j) = {ids[c], ids[d]}
  <2>1. TeamsOfGame(ids, r, i) = {ids[a], ids[b]}
    BY ONLY IsPool(ids), IsGame(ids, r, i), <1>1, <1>2, TeamsAreOfPlaces
  <2>2. TeamsOfGame(ids, r, j) = {ids[c], ids[d]}
    BY ONLY IsPool(ids), IsGame(ids, r, j), <1>1, <1>2, TeamsAreOfPlaces
  <2> QED
    BY <2>1, <2>2
<1>6. r - 1 \in 0..(n - 2) /\ i \in 1..n /\ j \in 1..n /\ k \in 1..n /\ l \in 1..n
  BY <1>1, <1>2, <1>3, <1>4
<1>7. i # j /\ i # l /\ k # j /\ k # l
  BY <1>1, <1>2, <1>3, <1>4
<1>8. a # c /\ a # d /\ b # c /\ b # d
  BY <1>1, <1>2, <1>6, <1>7, SpotsDiffer
<1>9. \A x, y \in DOMAIN ids : ids[x] = ids[y] => x = y
  BY DEF IsPool
<1> QED
  BY ONLY <1>3, <1>4, <1>5, <1>8, <1>9

\* Every two teams of the pool do meet.
LEMMA TeamsMeet ==
  ASSUME NEW ids, IsPool(ids), NEW s \in D!MembersOf(ids), NEW t \in D!MembersOf(ids), s # t
  PROVE  \E r \in Nat, i \in Nat : IsGame(ids, r, i) /\ TeamsOfGame(ids, r, i) = {s, t}
<1>1. PICK n \in Nat, h \in Nat :
        n = RingSize(ids) /\ n = 2 * h /\ n >= 2 /\ DOMAIN ids \subseteq 1..n
  BY PoolHasRing
<1>2. ASSUME NEW x \in DOMAIN ids, NEW y \in DOMAIN ids, x < y
      PROVE  \E r \in Nat, i \in Nat : IsGame(ids, r, i) /\ TeamsOfGame(ids, r, i) = {ids[x], ids[y]}
  <2>1. x \in 1..n /\ y \in 1..n
    BY <1>1
  <2>2. PICK q \in 0..(n - 2), j \in 1..n : Spot(n, q, j) = x /\ Spot(n, q, n + 1 - j) = y
    <3>1. n \in Nat /\ n >= 2 /\ n = 2 * h /\ h \in Nat
      BY <1>1
    <3> QED
      BY ONLY <1>2, <2>1, <3>1, SpotsMeet, SMTT(10)
  <2>3. PICK r, i : r = q + 1 /\ i = IF j <= h THEN j ELSE n + 1 - j
    OBVIOUS
  <2>4. /\ r \in 1..(n - 1) /\ i \in 1..h /\ r - 1 = q
        /\ \/ i = j /\ n + 1 - i = n + 1 - j
           \/ i = n + 1 - j /\ n + 1 - i = j
    BY <1>1, <2>3
  <2>5. {Spot(n, r - 1, i), Spot(n, r - 1, n + 1 - i)} = {x, y}
    BY <2>2, <2>4
  <2>6. Spot(n, r - 1, i) \in DOMAIN ids /\ Spot(n, r - 1, n + 1 - i) \in DOMAIN ids
    BY <2>5
  <2>7. IsGame(ids, r, i)
    BY <1>1, <2>4, <2>6, GameIsOfPlaces
  <2>8. TeamsOfGame(ids, r, i) = {ids[Spot(n, r - 1, i)], ids[Spot(n, r - 1, n + 1 - i)]}
    BY <1>1, <2>7, TeamsAreOfPlaces
  <2>9. TeamsOfGame(ids, r, i) = {ids[x], ids[y]}
    BY ONLY <2>5, <2>8
  <2>10. r \in Nat /\ i \in Nat
    BY <2>4
  <2> QED
    BY <2>7, <2>9, <2>10
<1>3. PICK x \in DOMAIN ids, y \in DOMAIN ids : s = ids[x] /\ t = ids[y]
  BY DEF D!MembersOf
<1>4. x \in Nat /\ y \in Nat /\ x # y
  BY <1>1, <1>3
<1>5. CASE x < y
  BY <1>2, <1>3, <1>5
<1>6. CASE y < x
  BY <1>2, <1>3, <1>6
<1> QED
  BY <1>4, <1>5, <1>6

-----------------------------------------------------------------------------
(* The fixtures of the pools. *)

\* The fixtures are the games of every pool.
LEMMA FixturesAreGames ==
  ASSUME NEW pools, NEW courts
  PROVE  \A f : f \in D!PoolFixtures(pools, courts) <=>
           \E p \in DOMAIN pools : \E r, i : IsGame(pools[p], r, i) /\ f = FixtureOf(pools, courts, p, r, i)
<1> DEFINE Rounds(ids) == D!RoundRobinRounds(ids)
           Games(ids, r) == {i \in DOMAIN D!RoundPairs(ids, r) :
                               None \notin {D!RoundPairs(ids, r)[i][1], D!RoundPairs(ids, r)[i][2]}}
           Listed(ids, r, i) == [nth |-> i, a |-> D!RoundPairs(ids, r)[i][1], b |-> D!RoundPairs(ids, r)[i][2]]
           Placed(p, r, x) == [pool |-> p, round |-> r, nth |-> x.nth, a |-> x.a, b |-> x.b,
                               court |-> D!CourtOf(p, courts)]
<1>1. \A ids : Rounds(ids) = [r \in 1..D!RoundCount(ids) |-> {Listed(ids, r, i) : i \in Games(ids, r)}]
  BY DEF D!RoundRobinRounds
<1>2. D!PoolFixtures(pools, courts)
        = UNION {UNION {{Placed(p, r, x) : x \in Rounds(pools[p])[r]} : r \in DOMAIN Rounds(pools[p])}
                   : p \in DOMAIN pools}
  BY DEF D!PoolFixtures
<1>3. ASSUME NEW ids
      PROVE  /\ DOMAIN Rounds(ids) = 1..D!RoundCount(ids)
             /\ \A r \in 1..D!RoundCount(ids) : Rounds(ids)[r] = {Listed(ids, r, i) : i \in Games(ids, r)}
  <2> HIDE DEF Rounds, Listed, Games
  <2> QED
    BY <1>1
<1>4. ASSUME NEW ids, NEW r, NEW i
      PROVE  IsGame(ids, r, i) <=> r \in 1..D!RoundCount(ids) /\ i \in Games(ids, r)
  BY DEF IsGame
<1>5. ASSUME NEW p, NEW r, NEW i
      PROVE  Placed(p, r, Listed(pools[p], r, i)) = FixtureOf(pools, courts, p, r, i)
  BY DEF FixtureOf
<1> HIDE DEF Rounds, Games, Listed, Placed
<1>6. ASSUME NEW f
      PROVE  f \in D!PoolFixtures(pools, courts) <=>
               \E p \in DOMAIN pools : \E r \in 1..D!RoundCount(pools[p]) : \E i \in Games(pools[p], r) :
                 f = Placed(p, r, Listed(pools[p], r, i))
  <2>1. f \in D!PoolFixtures(pools, courts) <=>
          \E p \in DOMAIN pools : \E r \in DOMAIN Rounds(pools[p]) : \E x \in Rounds(pools[p])[r] :
            f = Placed(p, r, x)
    BY <1>2
  <2>2. ASSUME NEW p, NEW r \in 1..D!RoundCount(pools[p])
        PROVE  (\E x \in Rounds(pools[p])[r] : f = Placed(p, r, x))
                 <=> \E i \in Games(pools[p], r) : f = Placed(p, r, Listed(pools[p], r, i))
    BY <1>3
  <2>3. \A p : DOMAIN Rounds(pools[p]) = 1..D!RoundCount(pools[p])
    BY <1>3
  <2> QED
    BY <2>1, <2>2, <2>3
<1> QED
  BY <1>4, <1>5, <1>6

\* The image of a finite set is finite.
LEMMA ImageIsFinite ==
  ASSUME NEW T, IsFiniteSet(T), NEW f
  PROVE  IsFiniteSet({f[x] : x \in T})
<1> DEFINE g == [x \in T |-> f[x]]
           I == {f[x] : x \in T}
<1>1. g \in Surjection(T, I)
  BY DEF Surjection
<1> HIDE DEF g, I
<1>2. IsFiniteSet(I)
  BY <1>1, FS_Surjection
<1> QED
  BY <1>2 DEF I

\* The fixtures are finitely many.
LEMMA FixturesAreFinite ==
  ASSUME NEW pools, ArePools(pools), IsFiniteSet(DOMAIN pools), NEW courts
  PROVE  IsFiniteSet(D!PoolFixtures(pools, courts))
<1> DEFINE Games(p, r) == {i \in DOMAIN D!RoundPairs(pools[p], r) : IsGame(pools[p], r, i)}
           Listed(p, r) == [i \in Games(p, r) |-> FixtureOf(pools, courts, p, r, i)]
           OfRound(p) == [r \in 1..D!RoundCount(pools[p]) |-> {Listed(p, r)[i] : i \in Games(p, r)}]
           InPool == [p \in DOMAIN pools |-> UNION {OfRound(p)[r] : r \in 1..D!RoundCount(pools[p])}]
<1>1. ASSUME NEW p \in DOMAIN pools
      PROVE  IsFiniteSet(InPool[p])
  <2>1. IsPool(pools[p])
    BY DEF ArePools
  <2>2. PICK n \in Nat, h \in Nat : n = RingSize(pools[p]) /\ n = 2 * h /\ n >= 2
    BY <2>1, PoolHasRing
  <2>3. D!RoundCount(pools[p]) = n - 1
    <3>1. Len(pools[p]) \in Nat /\ Len(pools[p]) >= 2
      BY <2>1 DEF IsPool
    <3> QED
      BY <2>2, <3>1, RingIsEven
  <2>4. ASSUME NEW r \in 1..(n - 1)
        PROVE  IsFiniteSet(OfRound(p)[r])
    <3>1. Games(p, r) \subseteq 1..h
      BY <2>1, <2>2, GameIsOfPlaces
    <3>2. IsFiniteSet(1..h)
      BY FS_Interval
    <3> HIDE DEF Games, Listed
    <3>3. IsFiniteSet(Games(p, r))
      BY <3>1, <3>2, FS_Subset
    <3>4. IsFiniteSet({Listed(p, r)[i] : i \in Games(p, r)})
      BY <3>3, ImageIsFinite
    <3> QED
      BY <2>3, <3>4
  <2>5. IsFiniteSet(1..(n - 1))
    BY <2>2, FS_Interval
  <2> HIDE DEF OfRound, Games, Listed
  <2>6. IsFiniteSet({OfRound(p)[r] : r \in 1..(n - 1)})
    BY <2>5, ImageIsFinite
  <2>7. \A T \in {OfRound(p)[r] : r \in 1..(n - 1)} : IsFiniteSet(T)
    BY <2>4
  <2>8. IsFiniteSet(UNION {OfRound(p)[r] : r \in 1..(n - 1)})
    BY <2>6, <2>7, FS_UNION
  <2> QED
    BY <2>3, <2>8
<1>2. IsFiniteSet(UNION {InPool[p] : p \in DOMAIN pools})
  <2> HIDE DEF InPool
  <2>1. IsFiniteSet({InPool[p] : p \in DOMAIN pools})
    BY ImageIsFinite
  <2>2. \A T \in {InPool[p] : p \in DOMAIN pools} : IsFiniteSet(T)
    BY <1>1
  <2> QED
    BY <2>1, <2>2, FS_UNION
<1>3. D!PoolFixtures(pools, courts) \subseteq UNION {InPool[p] : p \in DOMAIN pools}
  <2> SUFFICES ASSUME NEW f \in D!PoolFixtures(pools, courts)
               PROVE  f \in UNION {InPool[p] : p \in DOMAIN pools}
    OBVIOUS
  <2>1. PICK p \in DOMAIN pools : \E r, i : IsGame(pools[p], r, i) /\ f = FixtureOf(pools, courts, p, r, i)
    BY FixturesAreGames
  <2>2. PICK r, i : IsGame(pools[p], r, i) /\ f = FixtureOf(pools, courts, p, r, i)
    BY <2>1
  <2>3. r \in 1..D!RoundCount(pools[p]) /\ i \in Games(p, r)
    BY <2>2 DEF IsGame
  <2>4. f = Listed(p, r)[i]
    BY <2>2, <2>3
  <2>5. f \in OfRound(p)[r]
    <3> HIDE DEF Listed, Games
    <3> QED
      BY <2>3, <2>4
  <2>6. f \in InPool[p]
    <3> HIDE DEF OfRound
    <3> QED
      BY <2>3, <2>5
  <2> HIDE DEF InPool
  <2> QED
    BY <2>6
<1> HIDE DEF InPool
<1> QED
  BY <1>2, <1>3, FS_Subset

\* A fixture tells which game of which pool it is, and is between two teams of
\* that pool.
LEMMA FixturesAreTold ==
  ASSUME NEW pools, ArePools(pools), NEW courts, NEW f \in D!PoolFixtures(pools, courts)
  PROVE  /\ f.pool \in DOMAIN pools
         /\ IsGame(pools[f.pool], f.round, f.nth)
         /\ f = FixtureOf(pools, courts, f.pool, f.round, f.nth)
         /\ {f.a, f.b} = TeamsOfGame(pools[f.pool], f.round, f.nth)
         /\ {f.a, f.b} \subseteq D!MembersOf(pools[f.pool])
         /\ f.a # f.b
         /\ f.round \in 1..D!RoundCount(pools[f.pool]) /\ f.round \in Nat /\ f.nth \in Nat
         /\ f.court = D!CourtOf(f.pool, courts)
<1>1. PICK p \in DOMAIN pools : \E r, i : IsGame(pools[p], r, i) /\ f = FixtureOf(pools, courts, p, r, i)
  BY FixturesAreGames
<1>2. PICK r, i : IsGame(pools[p], r, i) /\ f = FixtureOf(pools, courts, p, r, i)
  BY <1>1
<1>3. /\ f.pool = p /\ f.round = r /\ f.nth = i
      /\ f.a = D!RoundPairs(pools[p], r)[i][1] /\ f.b = D!RoundPairs(pools[p], r)[i][2]
      /\ f.court = D!CourtOf(p, courts)
  BY <1>2 DEF FixtureOf
<1>4. IsPool(pools[p])
  BY DEF ArePools
<1>5. f.a # f.b
  BY <1>2, <1>3, <1>4, GameIsOfThePool
<1>6. {f.a, f.b} = TeamsOfGame(pools[p], r, i)
  BY <1>3 DEF TeamsOfGame
<1>7. TeamsOfGame(pools[p], r, i) \subseteq D!MembersOf(pools[p])
  BY <1>2, <1>4, GameIsOfThePool
<1>8. PICK n \in Nat, h \in Nat : n = RingSize(pools[p]) /\ n = 2 * h /\ n >= 2
  BY <1>4, PoolHasRing
<1>9. r \in 1..(n - 1) /\ i \in 1..h
  BY <1>2, <1>4, <1>8, GameIsOfPlaces
<1>10. r \in Nat /\ i \in Nat
  BY <1>8, <1>9
<1>11. r \in 1..D!RoundCount(pools[p])
  BY <1>2 DEF IsGame
<1> QED
  BY <1>2, <1>3, <1>5, <1>6, <1>7, <1>10, <1>11

\* Fixtures that share a team are of one pool and not of one round.
LEMMA FixturesOfATeam ==
  ASSUME NEW pools, ArePools(pools), NEW courts,
         NEW f \in D!PoolFixtures(pools, courts), NEW g \in D!PoolFixtures(pools, courts),
         f # g, {f.a, f.b} \cap {g.a, g.b} # {}
  PROVE  f.pool = g.pool /\ f.round # g.round /\ {f.a, f.b} # {g.a, g.b}
<1>1. PICK p, r, i, s, j : p = f.pool /\ r = f.round /\ i = f.nth /\ s = g.round /\ j = g.nth
  OBVIOUS
<1>2. /\ p \in DOMAIN pools /\ IsGame(pools[p], r, i) /\ f = FixtureOf(pools, courts, p, r, i)
      /\ {f.a, f.b} = TeamsOfGame(pools[p], r, i) /\ {f.a, f.b} \subseteq D!MembersOf(pools[p])
  BY <1>1, FixturesAreTold
<1>3. /\ g.pool \in DOMAIN pools /\ {g.a, g.b} \subseteq D!MembersOf(pools[g.pool])
  BY FixturesAreTold
<1>4. g.pool = p
  BY <1>2, <1>3 DEF ArePools
<1>5. /\ IsGame(pools[p], s, j) /\ g = FixtureOf(pools, courts, p, s, j)
      /\ {g.a, g.b} = TeamsOfGame(pools[p], s, j)
  BY <1>1, <1>4, FixturesAreTold
<1>6. IsPool(pools[p])
  BY <1>2 DEF ArePools
<1>7. ~(r = s /\ i = j)
  BY <1>2, <1>5
<1>8. r # s
  <2> SUFFICES ASSUME r = s PROVE FALSE
    OBVIOUS
  <2>1. TeamsOfGame(pools[p], r, i) \cap TeamsOfGame(pools[p], r, j) = {}
    BY <1>2, <1>5, <1>6, <1>7, RoundIsDisjoint
  <2> QED
    BY <1>2, <1>5, <2>1
<1>9. TeamsOfGame(pools[p], r, i) # TeamsOfGame(pools[p], s, j)
  BY <1>2, <1>5, <1>6, <1>7, TeamsMeetOnce
<1> QED
  BY <1>1, <1>2, <1>4, <1>5, <1>8, <1>9

\* Every two teams of a pool have a fixture.
LEMMA FixtureOfTwo ==
  ASSUME NEW pools, ArePools(pools), NEW courts, NEW p \in DOMAIN pools,
         NEW s \in D!MembersOf(pools[p]), NEW t \in D!MembersOf(pools[p]), s # t
  PROVE  \E f \in D!PoolFixtures(pools, courts) : {f.a, f.b} = {s, t}
<1>1. IsPool(pools[p])
  BY DEF ArePools
<1>2. PICK r, i : IsGame(pools[p], r, i) /\ TeamsOfGame(pools[p], r, i) = {s, t}
  BY <1>1, TeamsMeet
<1>3. PICK f : f = FixtureOf(pools, courts, p, r, i)
  OBVIOUS
<1>4. f \in D!PoolFixtures(pools, courts)
  BY <1>2, <1>3, FixturesAreGames
<1>5. {f.a, f.b} = {s, t}
  BY <1>2, <1>3 DEF FixtureOf, TeamsOfGame
<1> QED
  BY <1>4, <1>5

-----------------------------------------------------------------------------
(* The queues of the courts. *)

\* Of two fixtures one is queued before the other, and nothing is queued
\* before itself.
LEMMA QueueIsOrdered ==
  ASSUME NEW pools, ArePools(pools), DOMAIN pools \subseteq Nat, NEW courts,
         NEW f \in D!PoolFixtures(pools, courts), NEW g \in D!PoolFixtures(pools, courts), f # g
  PROVE  /\ D!QueuedBefore(f, g) \/ D!QueuedBefore(g, f)
         /\ ~D!QueuedBefore(f, f)
<1>1. f.pool \in Nat /\ f.round \in Nat /\ f.nth \in Nat /\ f = FixtureOf(pools, courts, f.pool, f.round, f.nth)
  BY FixturesAreTold
<1>2. g.pool \in Nat /\ g.round \in Nat /\ g.nth \in Nat /\ g = FixtureOf(pools, courts, g.pool, g.round, g.nth)
  BY FixturesAreTold
<1>3. ~(f.pool = g.pool /\ f.round = g.round /\ f.nth = g.nth)
  BY <1>1, <1>2
<1> QED
  BY <1>1, <1>2, <1>3 DEF D!QueuedBefore

\* What is queued before a fixture is queued before what comes after it.
LEMMA QueueIsTransitive ==
  ASSUME NEW pools, ArePools(pools), DOMAIN pools \subseteq Nat, NEW courts,
         NEW f \in D!PoolFixtures(pools, courts), NEW g \in D!PoolFixtures(pools, courts),
         NEW h \in D!PoolFixtures(pools, courts), D!QueuedBefore(f, g), D!QueuedBefore(g, h)
  PROVE  D!QueuedBefore(f, h)
<1>1. f.pool \in Nat /\ f.round \in Nat /\ f.nth \in Nat
  BY FixturesAreTold
<1>2. g.pool \in Nat /\ g.round \in Nat /\ g.nth \in Nat
  BY FixturesAreTold
<1>3. h.pool \in Nat /\ h.round \in Nat /\ h.nth \in Nat
  BY FixturesAreTold
<1> QED
  BY <1>1, <1>2, <1>3 DEF D!QueuedBefore

\* What is queued before a fixture of the same court has an earlier slot.
LEMMA SlotsFollowTheQueue ==
  ASSUME NEW pools, ArePools(pools), DOMAIN pools \subseteq Nat, IsFiniteSet(DOMAIN pools), NEW courts,
         NEW F, F = D!PoolFixtures(pools, courts), NEW f \in F, NEW g \in F,
         f.court = g.court, f # g, D!QueuedBefore(f, g)
  PROVE  /\ D!CourtSlot(F, f) \in Nat /\ D!CourtSlot(F, g) \in Nat
         /\ D!CourtSlot(F, f) < D!CourtSlot(F, g)
<1> DEFINE A == {x \in F : x.court = f.court /\ D!QueuedBefore(x, f)}
           B == {x \in F : x.court = g.court /\ D!QueuedBefore(x, g)}
<1>1. IsFiniteSet(F)
  BY FixturesAreFinite
<1>2. A \subseteq B
  BY QueueIsTransitive
<1>3. f \in B /\ f \notin A
  BY QueueIsOrdered
<1>4. D!CourtSlot(F, f) = Cardinality(A)
  BY DrawCardinality DEF D!CourtSlot
<1>5. D!CourtSlot(F, g) = Cardinality(B)
  BY DrawCardinality DEF D!CourtSlot
<1>6. B \subseteq F
  OBVIOUS
<1> HIDE DEF A, B
<1>7. IsFiniteSet(B)
  BY <1>1, <1>6, FS_Subset
<1>8. IsFiniteSet(A)
  BY <1>2, <1>7, FS_Subset
<1>9. Cardinality(A) \in Nat /\ Cardinality(B) \in Nat
  BY <1>7, <1>8, FS_CardinalityType
<1>10. Cardinality(A) <= Cardinality(B)
  BY <1>2, <1>7, FS_Subset
<1>11. Cardinality(B) = Cardinality(A) => B = A
  BY <1>2, <1>7, FS_Subset
<1>12. Cardinality(A) # Cardinality(B)
  BY <1>3, <1>11
<1> QED
  BY <1>4, <1>5, <1>9, <1>10, <1>12

\* The pools dealt from a line of different teams are pools of a draw.
LEMMA DealtArePools ==
  ASSUME NEW T, NEW line \in Seq(T), NEW size \in Nat, D!Partitionable(Len(line), size),
         \A i, j \in DOMAIN line : line[i] = line[j] => i = j,
         \A i \in DOMAIN line : line[i] # None
  PROVE  /\ ArePools(D!PartitionIntoPools(line, size))
         /\ DOMAIN D!PartitionIntoPools(line, size) \subseteq Nat
         /\ IsFiniteSet(DOMAIN D!PartitionIntoPools(line, size))
<1>1. PICK n \in Nat : n = Len(line) /\ DOMAIN line = 1..n
  OBVIOUS
<1>2. D!Partitionable(n, size)
  BY <1>1
<1>3. PICK c \in Nat \ {0} : c = D!PoolCount(n, size)
  BY <1>2, PoolCountFits
<1>4. PICK pools : pools = D!PartitionIntoPools(line, size)
  OBVIOUS
<1>5. pools = [p \in 1..c |-> [k \in 1..PoolLen(n, c, p) |-> line[PlaceOf(p, k, c)]]]
  BY <1>1, <1>3, <1>4, PoolsAreDealt
<1>6. DOMAIN pools = 1..c
  BY <1>5
<1>7. ASSUME NEW p \in 1..c
      PROVE  /\ PoolLen(n, c, p) \in Nat /\ PoolLen(n, c, p) >= 2
             /\ pools[p] = [k \in 1..PoolLen(n, c, p) |-> line[PlaceOf(p, k, c)]]
             /\ \A k \in 1..PoolLen(n, c, p) :
                  /\ k \in Nat \ {0}
                  /\ PlaceOf(p, k, c) \in 1..n
                  /\ D!PoolOf(PlaceOf(p, k, c), c) = p
  <2>1. PICK m : m = PoolLen(n, c, p)
    OBVIOUS
  <2>2. m \in 2..size
    BY <1>2, <1>3, <2>1, PoolLenFits
  <2>3. m \in Nat /\ m >= 2
    BY <2>2
  <2>4. {i \in 1..n : D!PoolOf(i, c) = p} = {PlaceOf(p, k, c) : k \in 1..m}
    BY <1>3, <2>1, PlacesOfPool
  <2>5. \A k \in 1..m : PlaceOf(p, k, c) \in {i \in 1..n : D!PoolOf(i, c) = p}
    BY <2>4
  <2>6. \A k \in 1..m : k \in Nat \ {0}
    BY <2>3
  <2>7. pools[p] = [k \in 1..m |-> line[PlaceOf(p, k, c)]]
    BY <1>5, <2>1
  <2> QED
    BY <2>1, <2>3, <2>5, <2>6, <2>7
<1>8. ASSUME NEW p \in 1..c
      PROVE  IsPool(pools[p])
  <2>1. PICK m \in Nat : m = PoolLen(n, c, p) /\ m >= 2
    BY <1>7
  <2>2. PICK ids : ids = pools[p]
    OBVIOUS
  <2>3. ids = [k \in 1..m |-> line[PlaceOf(p, k, c)]]
    BY <1>7, <2>1, <2>2
  <2>4. \A k \in 1..m : k \in Nat \ {0} /\ PlaceOf(p, k, c) \in 1..n
    BY <1>7, <2>1
  <2>5. DOMAIN ids = 1..m
    BY <2>3
  <2>6. ids \in Seq({ids[k] : k \in DOMAIN ids}) /\ Len(ids) = m
    <3>1. PICK R : R = {ids[k] : k \in DOMAIN ids}
      OBVIOUS
    <3>2. ids \in [1..m -> R]
      BY <2>3, <2>5, <3>1
    <3>3. ids \in Seq(R)
      BY <2>1, <3>2
    <3>4. Len(ids) = m
      BY <2>1, <3>2
    <3> QED
      BY <3>1, <3>3, <3>4
  <2>7. ASSUME NEW k \in 1..m, NEW l \in 1..m, ids[k] = ids[l]
        PROVE  k = l
    <3>1. PICK x, y : x = PlaceOf(p, k, c) /\ y = PlaceOf(p, l, c)
      OBVIOUS
    <3>2. x \in DOMAIN line /\ y \in DOMAIN line /\ ids[k] = line[x] /\ ids[l] = line[y]
      BY <1>1, <2>3, <2>4, <3>1
    <3>3. x = y
      BY <2>7, <3>2
    <3>4. k < l => x < y
      BY <1>3, <2>4, <3>1, PlacesGoOn
    <3>5. l < k => y < x
      BY <1>3, <2>4, <3>1, PlacesGoOn
    <3>6. x \in Nat /\ y \in Nat
      BY <1>1, <3>2
    <3> QED
      BY <3>3, <3>4, <3>5, <3>6
  <2>8. ASSUME NEW k \in 1..m
        PROVE  ids[k] # None
    <3>1. PlaceOf(p, k, c) \in DOMAIN line /\ ids[k] = line[PlaceOf(p, k, c)]
      BY <1>1, <2>3, <2>4
    <3> QED
      BY <3>1
  <2>9. IsPool(ids)
    BY <2>1, <2>5, <2>6, <2>7, <2>8 DEF IsPool
  <2> QED
    BY <2>2, <2>9
<1>9. ASSUME NEW p \in 1..c, NEW q \in 1..c, NEW t, t \in D!MembersOf(pools[p]), t \in D!MembersOf(pools[q])
      PROVE  p = q
  <2>1. PICK k \in 1..PoolLen(n, c, p) : t = line[PlaceOf(p, k, c)]
    <3>1. PICK k \in DOMAIN pools[p] : t = pools[p][k]
      BY <1>9 DEF D!MembersOf
    <3>2. pools[p] = [j \in 1..PoolLen(n, c, p) |-> line[PlaceOf(p, j, c)]]
      BY <1>7
    <3> QED
      BY <3>1, <3>2
  <2>2. PICK l \in 1..PoolLen(n, c, q) : t = line[PlaceOf(q, l, c)]
    <3>1. PICK l \in DOMAIN pools[q] : t = pools[q][l]
      BY <1>9 DEF D!MembersOf
    <3>2. pools[q] = [j \in 1..PoolLen(n, c, q) |-> line[PlaceOf(q, j, c)]]
      BY <1>7
    <3> QED
      BY <3>1, <3>2
  <2>3. PlaceOf(p, k, c) \in DOMAIN line /\ D!PoolOf(PlaceOf(p, k, c), c) = p
    BY <1>1, <1>7
  <2>4. PlaceOf(q, l, c) \in DOMAIN line /\ D!PoolOf(PlaceOf(q, l, c), c) = q
    BY <1>1, <1>7
  <2>5. PlaceOf(p, k, c) = PlaceOf(q, l, c)
    BY <2>1, <2>2, <2>3, <2>4
  <2> QED
    BY <2>3, <2>4, <2>5
<1>10. ArePools(pools)
  BY <1>6, <1>8, <1>9 DEF ArePools
<1>11. DOMAIN pools \subseteq Nat
  BY <1>6
<1>12. IsFiniteSet(DOMAIN pools)
  <2>1. IsFiniteSet(1..c)
    BY FS_Interval
  <2> QED
    BY <1>6, <2>1
<1> QED
  BY <1>4, <1>10, <1>11, <1>12

\* The matches are the fixtures, each with its slot.
LEMMA MatchesAreFixtures ==
  ASSUME NEW line, NEW size, NEW courts,
         NEW F, F = D!PoolFixtures(D!PartitionIntoPools(line, size), courts)
  PROVE  \A m : m \in D!PoolMatches(line, size, courts) <=>
           \E f \in F : m = [pool |-> f.pool, round |-> f.round, a |-> f.a, b |-> f.b,
                             court |-> f.court, slot |-> D!CourtSlot(F, f)]
  BY DEF D!PoolMatches

\* Every two teams of a pool meet exactly once, no team plays twice in a
\* round, and there are no rounds but those (roundRobinRounds).
THEOREM PoolsPlayRoundRobins ==
  ASSUME NEW T, NEW line \in Seq(T), NEW size \in Nat, D!Partitionable(Len(line), size),
         \A i, j \in DOMAIN line : line[i] = line[j] => i = j,
         \A i \in DOMAIN line : line[i] # None,
         NEW courts \in Nat \ {0}
  PROVE  D!RoundRobin(D!PartitionIntoPools(line, size), D!PoolMatches(line, size, courts))
<1>1. PICK pools : pools = D!PartitionIntoPools(line, size)
  OBVIOUS
<1>2. ArePools(pools) /\ DOMAIN pools \subseteq Nat /\ IsFiniteSet(DOMAIN pools)
  BY <1>1, DealtArePools
<1>3. PICK F : F = D!PoolFixtures(pools, courts)
  OBVIOUS
<1>4. PICK M : M = D!PoolMatches(line, size, courts)
  OBVIOUS
<1> DEFINE Match(f) == [pool |-> f.pool, round |-> f.round, a |-> f.a, b |-> f.b,
                        court |-> f.court, slot |-> D!CourtSlot(F, f)]
<1>5. \A m : m \in M <=> \E f \in F : m = Match(f)
  BY <1>1, <1>3, <1>4, MatchesAreFixtures
<1>6. \A f : Match(f).pool = f.pool /\ Match(f).round = f.round /\ Match(f).a = f.a /\ Match(f).b = f.b
  OBVIOUS
<1> HIDE DEF Match
<1>7. ASSUME NEW p \in DOMAIN pools, NEW s \in D!MembersOf(pools[p]), NEW t \in D!MembersOf(pools[p]), s # t
      PROVE  D!Cardinality({m \in M : {m.a, m.b} = {s, t}}) = 1
  <2>1. PICK f \in F : {f.a, f.b} = {s, t}
    BY <1>2, <1>3, <1>7, FixtureOfTwo
  <2>2. ASSUME NEW g \in F, {g.a, g.b} = {s, t}
        PROVE  g = f
    <3> SUFFICES ASSUME g # f PROVE FALSE
      OBVIOUS
    <3>1. {g.a, g.b} \cap {f.a, f.b} # {}
      BY <2>1, <2>2
    <3>2. {g.a, g.b} # {f.a, f.b}
      BY <1>2, <1>3, <3>1, FixturesOfATeam
    <3> QED
      BY <2>1, <2>2, <3>2
  <2>3. Match(f) \in M /\ {Match(f).a, Match(f).b} = {s, t}
    BY <1>5, <1>6, <2>1
  <2>4. ASSUME NEW m \in M, {m.a, m.b} = {s, t}
        PROVE  m = Match(f)
    <3>1. PICK g \in F : m = Match(g)
      BY <1>5
    <3>2. {g.a, g.b} = {s, t}
      BY <1>6, <2>4, <3>1
    <3> QED
      BY <2>2, <3>1, <3>2
  <2>5. {m \in M : {m.a, m.b} = {s, t}} = {Match(f)}
    BY <2>3, <2>4
  <2>6. Cardinality({m \in M : {m.a, m.b} = {s, t}}) = 1
    BY <2>5, FS_Singleton
  <2> QED
    BY <2>6, DrawCardinality
<1>8. ASSUME NEW m \in M
      PROVE  /\ m.pool \in DOMAIN pools
             /\ {m.a, m.b} \subseteq D!MembersOf(pools[m.pool])
             /\ m.a # m.b
             /\ m.round \in 1..D!RoundCount(pools[m.pool])
  <2>1. PICK f \in F : m = Match(f)
    BY <1>5
  <2>2. /\ f.pool \in DOMAIN pools
        /\ {f.a, f.b} \subseteq D!MembersOf(pools[f.pool])
        /\ f.a # f.b
        /\ f.round \in 1..D!RoundCount(pools[f.pool])
    BY <1>2, <1>3, FixturesAreTold
  <2> QED
    BY <1>6, <2>1, <2>2
<1>9. ASSUME NEW x \in M, NEW y \in M, x # y, x.round = y.round
      PROVE  {x.a, x.b} \cap {y.a, y.b} = {}
  <2>1. PICK f \in F, g \in F : x = Match(f) /\ y = Match(g)
    BY <1>5
  <2>2. f # g /\ f.round = g.round
    BY <1>6, <1>9, <2>1
  <2>3. {f.a, f.b} \cap {g.a, g.b} = {}
    BY <1>2, <1>3, <2>2, FixturesOfATeam
  <2> QED
    BY <1>6, <2>1, <2>3
<1>10. D!RoundRobin(pools, M)
  BY <1>7, <1>8, <1>9 DEF D!RoundRobin
<1> QED
  BY <1>1, <1>4, <1>10

\* A court has one match at a time, and a team too, that of an earlier round
\* first (assignCourtSlots).
THEOREM PoolCourtsAreQueues ==
  ASSUME NEW T, NEW line \in Seq(T), NEW size \in Nat, D!Partitionable(Len(line), size),
         \A i, j \in DOMAIN line : line[i] = line[j] => i = j,
         \A i \in DOMAIN line : line[i] # None,
         NEW courts \in Nat \ {0}
  PROVE  D!OneMatchAtATime(D!PoolMatches(line, size, courts))
<1>1. PICK pools : pools = D!PartitionIntoPools(line, size)
  OBVIOUS
<1>2. ArePools(pools) /\ DOMAIN pools \subseteq Nat /\ IsFiniteSet(DOMAIN pools)
  BY <1>1, DealtArePools
<1>3. PICK F : F = D!PoolFixtures(pools, courts)
  OBVIOUS
<1>4. PICK M : M = D!PoolMatches(line, size, courts)
  OBVIOUS
<1> DEFINE Match(f) == [pool |-> f.pool, round |-> f.round, a |-> f.a, b |-> f.b,
                        court |-> f.court, slot |-> D!CourtSlot(F, f)]
<1>5. \A m : m \in M <=> \E f \in F : m = Match(f)
  BY <1>1, <1>3, <1>4, MatchesAreFixtures
<1>6. \A f : /\ Match(f).round = f.round /\ Match(f).a = f.a /\ Match(f).b = f.b
             /\ Match(f).court = f.court /\ Match(f).slot = D!CourtSlot(F, f)
  OBVIOUS
<1> HIDE DEF Match
<1>7. ASSUME NEW f \in F, NEW g \in F, f # g, f.court = g.court
      PROVE  /\ D!CourtSlot(F, f) # D!CourtSlot(F, g)
             /\ f.round < g.round => D!CourtSlot(F, f) < D!CourtSlot(F, g)
  <2>1. D!QueuedBefore(f, g) \/ D!QueuedBefore(g, f)
    BY <1>2, <1>3, <1>7, QueueIsOrdered
  <2>2. D!QueuedBefore(f, g) =>
          D!CourtSlot(F, f) \in Nat /\ D!CourtSlot(F, g) \in Nat /\ D!CourtSlot(F, f) < D!CourtSlot(F, g)
    BY <1>2, <1>3, <1>7, SlotsFollowTheQueue
  <2>3. D!QueuedBefore(g, f) =>
          D!CourtSlot(F, g) \in Nat /\ D!CourtSlot(F, f) \in Nat /\ D!CourtSlot(F, g) < D!CourtSlot(F, f)
    BY <1>2, <1>3, <1>7, SlotsFollowTheQueue
  <2>4. f.round < g.round => D!QueuedBefore(f, g)
    BY DEF D!QueuedBefore
  <2> QED
    BY <2>1, <2>2, <2>3, <2>4
<1>8. ASSUME NEW f \in F, NEW g \in F, f # g, {f.a, f.b} \cap {g.a, g.b} # {}
      PROVE  f.court = g.court
  <2>1. f.pool = g.pool
    BY <1>2, <1>3, <1>8, FixturesOfATeam
  <2>2. f.court = D!CourtOf(f.pool, courts)
    BY <1>2, <1>3, FixturesAreTold
  <2>3. g.court = D!CourtOf(g.pool, courts)
    BY <1>2, <1>3, FixturesAreTold
  <2> QED
    BY <2>1, <2>2, <2>3
<1>9. ASSUME NEW x \in M, NEW y \in M, x # y
      PROVE  /\ x.court = y.court => x.slot # y.slot
             /\ {x.a, x.b} \cap {y.a, y.b} # {} =>
                  x.slot # y.slot /\ (x.round < y.round => x.slot < y.slot)
  <2>1. PICK f \in F, g \in F : x = Match(f) /\ y = Match(g)
    BY <1>5
  <2>2. f # g
    BY <1>9, <2>1
  <2>3. f.court = g.court =>
          /\ D!CourtSlot(F, f) # D!CourtSlot(F, g)
          /\ f.round < g.round => D!CourtSlot(F, f) < D!CourtSlot(F, g)
    BY <1>7, <2>2
  <2>4. {f.a, f.b} \cap {g.a, g.b} # {} => f.court = g.court
    BY <1>8, <2>2
  <2>5. /\ x.round = f.round /\ x.a = f.a /\ x.b = f.b /\ x.court = f.court /\ x.slot = D!CourtSlot(F, f)
        /\ y.round = g.round /\ y.a = g.a /\ y.b = g.b /\ y.court = g.court /\ y.slot = D!CourtSlot(F, g)
    BY <1>6, <2>1
  <2> QED
    BY ONLY <2>3, <2>4, <2>5
<1>10. D!OneMatchAtATime(M)
  BY <1>9 DEF D!OneMatchAtATime
<1> QED
  BY <1>4, <1>10

-----------------------------------------------------------------------------
(* Sequences defined by their first value and the next. *)

\* What holds of zero, and of the successor of every number it holds of, holds
\* of every number.
LEMMA NumberInduction ==
  ASSUME NEW Good, 0 \in Good, \A n \in Nat : n \in Good => n + 1 \in Good
  PROVE  Nat \subseteq Good
<1> DEFINE Bad == Nat \ Good
<1> SUFFICES ASSUME Bad # {} PROVE FALSE
  OBVIOUS
<1>1. PICK n \in Bad : \A m \in Bad : <<m, n>> \notin OpToRel(<, Nat)
  <2>1. Bad \subseteq Nat
    OBVIOUS
  <2> HIDE DEF Bad
  <2> QED
    BY <2>1, NatLessThanWellFounded, WFMin, Zenon
<1>2. n \in Nat /\ n # 0
  BY <1>1, Zenon
<1>3. n - 1 \in Nat /\ n - 1 < n
  BY <1>2
<1>4. n - 1 \in Good
  BY <1>1, <1>2, <1>3 DEF OpToRel
<1>5. (n - 1) + 1 \in Good
  BY <1>3, <1>4
<1>6. (n - 1) + 1 = n
  BY <1>2
<1> QED
  BY <1>1, <1>5, <1>6, Zenon

\* There is a sequence with any first value and any way to the next.
LEMMA RecursionExists ==
  ASSUME NEW V, NEW a \in V, NEW g \in [Nat -> [V -> V]]
  PROVE  \E f : Continues(f, V, a, g)
<1> DEFINE Good == {n \in Nat : \E f \in [0..n -> V] : StartOf(f, n, a, g)}
<1>1. 0 \in Good
  <2> DEFINE f == [k \in 0..0 |-> a]
  <2>1. f \in [0..0 -> V] /\ StartOf(f, 0, a, g)
    BY DEF StartOf
  <2> QED
    BY <2>1
<1>2. ASSUME NEW n \in Nat, n \in Good PROVE n + 1 \in Good
  <2>1. PICK f \in [0..n -> V] : StartOf(f, n, a, g)
    BY <1>2
  <2> DEFINE h == [k \in 0..(n + 1) |-> IF k = n + 1 THEN g[n][f[n]] ELSE f[k]]
  <2>2. f[n] \in V
    OBVIOUS
  <2>3. g[n][f[n]] \in V
    BY <2>2
  <2>4. h \in [0..(n + 1) -> V]
    BY <2>3
  <2>5. ASSUME NEW k \in 0..n
        PROVE  h[k + 1] = g[k][h[k]]
    <3>1. CASE k = n
      BY <3>1
    <3>2. CASE k \in 0..(n - 1)
      <4>1. k # n + 1 /\ k + 1 # n + 1 /\ k \in 0..(n + 1) /\ k + 1 \in 0..(n + 1)
        BY <3>2
      <4>2. h[k] = f[k] /\ h[k + 1] = f[k + 1]
        BY <4>1
      <4>3. f[k + 1] = g[k][f[k]]
        BY <2>1, <3>2 DEF StartOf
      <4> HIDE DEF h
      <4> QED
        BY <4>2, <4>3
    <3> QED
      BY <3>1, <3>2
  <2>6. h[0] = a
    BY <2>1 DEF StartOf
  <2>7. (n + 1) - 1 = n
    OBVIOUS
  <2> HIDE DEF h
  <2>8. StartOf(h, n + 1, a, g)
    BY <2>4, <2>5, <2>6, <2>7 DEF StartOf
  <2> QED
    BY <2>4, <2>8
<1>3. Nat \subseteq Good
  <2> HIDE DEF Good
  <2> QED
    BY <1>1, <1>2, NumberInduction
<1> DEFINE Start(n) == CHOOSE f \in [0..n -> V] : StartOf(f, n, a, g)
           whole == [n \in Nat |-> Start(n)[n]]
<1>4. ASSUME NEW n \in Nat
      PROVE  Start(n) \in [0..n -> V] /\ StartOf(Start(n), n, a, g)
  <2>1. \E f \in [0..n -> V] : StartOf(f, n, a, g)
    BY <1>3
  <2> QED
    BY <2>1
<1>5. ASSUME NEW n \in Nat, NEW m \in Nat, n <= m
      PROVE  \A k \in 0..n : Start(n)[k] = Start(m)[k]
  <2> DEFINE Same == {k \in Nat : k <= n => Start(n)[k] = Start(m)[k]}
  <2>1. /\ Start(n)[0] = a /\ \A k \in 0..(n - 1) : Start(n)[k + 1] = g[k][Start(n)[k]]
        /\ Start(m)[0] = a /\ \A k \in 0..(m - 1) : Start(m)[k + 1] = g[k][Start(m)[k]]
    BY <1>4 DEF StartOf
  <2> HIDE DEF Start
  <2>2. 0 \in Same
    BY <2>1
  <2>3. ASSUME NEW k \in Nat, k \in Same PROVE k + 1 \in Same
    <3>1. CASE k + 1 <= n
      <4>1. k \in 0..(n - 1) /\ k \in 0..(m - 1) /\ k <= n
        BY <1>5, <3>1
      <4>2. Start(n)[k + 1] = g[k][Start(n)[k]] /\ Start(m)[k + 1] = g[k][Start(m)[k]]
        BY <2>1, <4>1
      <4>3. Start(n)[k] = Start(m)[k]
        BY <2>3, <4>1
      <4> QED
        BY <4>2, <4>3
    <3> QED
      BY <3>1
  <2>4. Nat \subseteq Same
    <3> HIDE DEF Same
    <3> QED
      BY <2>2, <2>3, NumberInduction
  <2> QED
    BY <2>4
<1>6. whole \in [Nat -> V]
  <2>1. ASSUME NEW n \in Nat PROVE Start(n)[n] \in V
    BY <1>4
  <2> QED
    BY <2>1
<1>7. whole[0] = a
  BY <1>4 DEF StartOf
<1>8. ASSUME NEW k \in Nat
      PROVE  whole[k + 1] = g[k][whole[k]]
  <2>1. k + 1 \in Nat /\ k <= k + 1 /\ k \in 0..k /\ k \in 0..((k + 1) - 1)
    OBVIOUS
  <2>2. Start(k + 1)[k + 1] = g[k][Start(k + 1)[k]]
    BY <1>4, <2>1 DEF StartOf
  <2>3. Start(k)[k] = Start(k + 1)[k]
    BY <1>5, <2>1
  <2> HIDE DEF Start
  <2> QED
    BY <2>1, <2>2, <2>3
<1> HIDE DEF whole
<1> QED
  BY <1>6, <1>7, <1>8 DEF Continues

-----------------------------------------------------------------------------
(* The bracket. *)

\* The powers of two are what their definition says.
LEMMA PowersDouble ==
  /\ D!Pow2 \in [Nat -> Nat]
  /\ D!Pow2[0] = 1
  /\ \A k \in Nat : D!Pow2[k + 1] = 2 * D!Pow2[k]
<1> DEFINE g == [k \in Nat |-> [x \in Nat |-> 2 * x]]
           Body(f) == [k \in Nat |-> IF k = 0 THEN 1 ELSE 2 * f[k - 1]]
<1>1. g \in [Nat -> [Nat -> Nat]] /\ \A k, x \in Nat : g[k][x] = 2 * x
  OBVIOUS
<1> HIDE DEF g
<1>2. PICK p : Continues(p, Nat, 1, g)
  <2>1. 1 \in Nat
    OBVIOUS
  <2> QED
    BY <1>1, <2>1, RecursionExists
<1>3. p \in [Nat -> Nat] /\ p[0] = 1 /\ \A k \in Nat : p[k + 1] = 2 * p[k]
  BY <1>1, <1>2 DEF Continues
<1>4. p = Body(p)
  <2>1. ASSUME NEW k \in Nat
        PROVE  p[k] = IF k = 0 THEN 1 ELSE 2 * p[k - 1]
    <3>1. CASE k # 0
      <4>1. k - 1 \in Nat /\ (k - 1) + 1 = k
        BY <3>1
      <4>2. p[(k - 1) + 1] = 2 * p[k - 1]
        BY <1>3, <4>1
      <4> QED
        BY <3>1, <4>1, <4>2
    <3> QED
      BY <1>3, <3>1
  <2> QED
    BY <1>3, <2>1
<1>5. ASSUME NEW f, f = Body(f)
      PROVE  f = p
  <2> DEFINE Same == {k \in Nat : f[k] = p[k]}
  <2>1. 0 \in Same
    BY <1>3, <1>5
  <2>2. ASSUME NEW k \in Nat, k \in Same PROVE k + 1 \in Same
    <3>1. f[k + 1] = 2 * f[k]
      <4>1. k + 1 \in Nat /\ k + 1 # 0 /\ (k + 1) - 1 = k
        OBVIOUS
      <4>2. f[k + 1] = Body(f)[k + 1]
        BY <1>5
      <4> QED
        BY <4>1, <4>2
    <3> QED
      BY <1>3, <2>2, <3>1
  <2>3. Nat \subseteq Same
    <3> HIDE DEF Same
    <3> QED
      BY <2>1, <2>2, NumberInduction
  <2>4. f = [k \in Nat |-> f[k]]
    BY <1>5
  <2> QED
    BY <1>3, <2>3, <2>4
<1>6. (CHOOSE f : f = Body(f)) = p
  BY <1>4, <1>5
<1>7. D!Pow2 = CHOOSE f : f = Body(f)
  BY DEF D!Pow2
<1>8. D!Pow2 = p
  BY <1>6, <1>7
<1> QED
  BY <1>3, <1>8

\* The powers of two grow, and past their exponent.
LEMMA PowersGrow ==
  ASSUME NEW k \in Nat
  PROVE  /\ D!Pow2[k] \in Nat /\ D!Pow2[k] > k
         /\ \A l \in Nat : k < l => 2 * D!Pow2[k] <= D!Pow2[l]
<1> DEFINE P(x) == D!Pow2[x]
           Above == {x \in Nat : P(x) > x}
<1>1. \A x \in Nat : P(x) \in Nat /\ x + 1 \in Nat /\ P(x + 1) = 2 * P(x)
  BY PowersDouble
<1>2. P(0) = 1
  BY PowersDouble
<1> HIDE DEF P
<1>3. Nat \subseteq Above
  <2>1. 0 \in Above
    BY <1>2
  <2>2. ASSUME NEW x \in Nat, x \in Above PROVE x + 1 \in Above
    BY <1>1, <2>2
  <2> HIDE DEF Above
  <2> QED
    BY <2>1, <2>2, NumberInduction
<1> DEFINE Doubled == {d \in Nat : 2 * P(k) <= P(k + 1 + d)}
<1>4. Nat \subseteq Doubled
  <2>1. 0 \in Doubled
    BY <1>1
  <2>2. ASSUME NEW d \in Nat, d \in Doubled PROVE d + 1 \in Doubled
    <3>1. PICK x \in Nat : x = k + 1 + d /\ k + 1 + (d + 1) = x + 1
      OBVIOUS
    <3>2. P(x + 1) = 2 * P(x) /\ P(x) \in Nat /\ P(k) \in Nat
      BY <1>1
    <3> QED
      BY <2>2, <3>1, <3>2
  <2> HIDE DEF Doubled
  <2> QED
    BY <2>1, <2>2, NumberInduction
<1>5. ASSUME NEW l \in Nat, k < l PROVE 2 * P(k) <= P(l)
  <2>1. l - k - 1 \in Nat /\ k + 1 + (l - k - 1) = l
    BY <1>5
  <2>2. l - k - 1 \in Doubled
    BY <1>4, <2>1
  <2> QED
    BY <2>1, <2>2
<1>6. P(k) \in Nat /\ P(k) > k
  BY <1>1, <1>3
<1> QED
  BY <1>5, <1>6 DEF P

\* The rounds are those of the smallest bracket that holds the field.
LEMMA RoundsHold ==
  ASSUME NEW n \in Nat, n >= 2
  PROVE  /\ D!RoundsFor(n) \in Nat \ {0}
         /\ D!Pow2[D!RoundsFor(n)] >= n
         /\ D!Pow2[D!RoundsFor(n) - 1] < n
<1> DEFINE Fits(k) == D!Pow2[k] >= n /\ (k = 1 \/ D!Pow2[k - 1] < n)
           Small == {k \in Nat : k <= n => D!Pow2[k] < n}
<1>1. \E k \in 1..n : Fits(k)
  <2> SUFFICES ASSUME \A k \in 1..n : ~Fits(k) PROVE FALSE
    OBVIOUS
  <2>1. 0 \in Small
    BY PowersDouble
  <2>2. ASSUME NEW k \in Nat, k \in Small PROVE k + 1 \in Small
    <3>1. CASE k + 1 <= n
      <4>1. k + 1 \in 1..n /\ (k + 1) - 1 = k /\ k <= n
        BY <3>1
      <4>2. D!Pow2[k] < n
        BY <2>2, <4>1
      <4>3. ~(D!Pow2[k + 1] >= n)
        BY <4>1, <4>2
      <4>4. D!Pow2[k + 1] \in Nat
        BY PowersDouble
      <4> QED
        BY <4>3, <4>4
    <3> QED
      BY <3>1
  <2>3. Nat \subseteq Small
    <3> HIDE DEF Small
    <3> QED
      BY <2>1, <2>2, NumberInduction
  <2>4. D!Pow2[n] < n
    BY <2>3
  <2>5. D!Pow2[n] \in Nat /\ D!Pow2[n] > n
    BY PowersGrow
  <2> QED
    BY <2>4, <2>5
<1>2. D!RoundsFor(n) = CHOOSE k \in 1..n : Fits(k)
  BY DEF D!RoundsFor
<1>3. D!RoundsFor(n) \in 1..n /\ Fits(D!RoundsFor(n))
  <2> HIDE DEF Fits
  <2> QED
    BY <1>1, <1>2
<1>4. D!RoundsFor(n) \in Nat \ {0}
  BY <1>3
<1>5. D!Pow2[0] < n
  BY PowersDouble
<1> QED
  BY <1>3, <1>4, <1>5

\* The positions of a round come after those of the rounds before it.
LEMMA PositionBounds ==
  ASSUME NEW t \in Nat \ {0}, NEW r \in 1..t, NEW i \in 1..D!Pow2[t - r]
  PROVE  /\ D!Position(t, r, i) = D!Pow2[t] - 2 * D!Pow2[t - r] + i
         /\ D!Pow2[t - r] \in Nat /\ D!Pow2[t - r] >= 1
         /\ D!Pow2[t] \in Nat /\ 2 * D!Pow2[t - r] <= D!Pow2[t]
         /\ D!Position(t, r, i) \in 1..(D!Pow2[t] - D!Pow2[t - r])
         /\ D!Position(t, r, i) \in 1..(D!Pow2[t] - 1)
<1>1. PICK q : q = t - r
  OBVIOUS
<1>2. q \in Nat /\ q < t /\ t - r + 1 = q + 1
  BY <1>1
<1>3. PICK a, b : a = D!Pow2[q] /\ b = D!Pow2[t]
  OBVIOUS
<1>4. a \in Nat /\ a > q
  BY <1>2, <1>3, PowersGrow
<1>5. b \in Nat /\ 2 * a <= b
  BY <1>2, <1>3, PowersGrow
<1>6. D!Pow2[q + 1] = 2 * a
  BY <1>2, <1>3, PowersDouble
<1>7. D!Position(t, r, i) = b - 2 * a + i
  BY <1>2, <1>3, <1>6 DEF D!Position
<1>8. i \in 1..a
  BY <1>1, <1>3
<1> QED
  BY <1>1, <1>2, <1>3, <1>4, <1>5, <1>7, <1>8

\* No two matches have one position.
LEMMA PositionsDiffer ==
  ASSUME NEW t \in Nat \ {0},
         NEW r \in 1..t, NEW i \in 1..D!Pow2[t - r], NEW s \in 1..t, NEW j \in 1..D!Pow2[t - s],
         D!Position(t, r, i) = D!Position(t, s, j)
  PROVE  r = s /\ i = j
<1>1. ASSUME NEW u \in 1..t, NEW v \in 1..t, u < v
      PROVE  2 * D!Pow2[t - v] <= D!Pow2[t - u]
  <2>1. t - u \in Nat /\ t - v \in Nat /\ t - v < t - u
    BY <1>1
  <2> QED
    BY <2>1, PowersGrow
<1>2. PICK a, b, c : a = D!Pow2[t - r] /\ b = D!Pow2[t - s] /\ c = D!Pow2[t]
  OBVIOUS
<1>3. a \in Nat /\ c \in Nat /\ i \in 1..a /\ D!Position(t, r, i) = c - 2 * a + i
  BY <1>2, PositionBounds
<1>4. b \in Nat /\ j \in 1..b /\ D!Position(t, s, j) = c - 2 * b + j
  BY <1>2, PositionBounds
<1>5. i \in Nat /\ j \in Nat /\ 1 <= i /\ i <= a /\ 1 <= j /\ j <= b /\ c - 2 * a + i = c - 2 * b + j
  <2>1. c - 2 * a + i = c - 2 * b + j
    <3>1. D!Position(t, r, i) = D!Position(t, s, j)
      OBVIOUS
    <3> QED
      BY ONLY <1>3, <1>4, <3>1
  <2>2. i \in 1..a /\ j \in 1..b /\ a \in Nat /\ b \in Nat
    BY <1>3, <1>4
  <2> QED
    BY ONLY <2>1, <2>2
<1>6. ~(r < s)
  <2> SUFFICES ASSUME r < s PROVE FALSE
    OBVIOUS
  <2>1. 2 * b <= a
    BY <1>1, <1>2
  <2> QED
    BY ONLY <1>3, <1>4, <1>5, <2>1
<1>7. ~(s < r)
  <2> SUFFICES ASSUME s < r PROVE FALSE
    OBVIOUS
  <2>1. 2 * a <= b
    BY <1>1, <1>2
  <2> QED
    BY ONLY <1>3, <1>4, <1>5, <2>1
<1>8. r = s
  BY <1>6, <1>7
<1>9. a = b
  BY <1>2, <1>8
<1>10. i = j
  BY ONLY <1>3, <1>5, <1>9
<1> QED
  BY <1>8, <1>10

\* And every position is a match's.
LEMMA PositionsCover ==
  ASSUME NEW t \in Nat \ {0}, NEW pos \in 1..(D!Pow2[t] - 1)
  PROVE  \E r \in 1..t : \E i \in 1..D!Pow2[t - r] : pos = D!Position(t, r, i)
<1> DEFINE Placed(x) == \E r \in 1..t : \E i \in 1..D!Pow2[t - r] : x = D!Position(t, r, i)
           Covered == {r \in Nat : r <= t => \A x \in 1..(D!Pow2[t] - D!Pow2[t - r]) : Placed(x)}
<1>1. 0 \in Covered
  <2>1. D!Pow2[t] \in Nat /\ t - 0 = t
    BY PowersDouble
  <2>2. \A x : x \notin 1..(D!Pow2[t] - D!Pow2[t])
    BY <2>1
  <2> HIDE DEF Placed
  <2> QED
    BY <2>1, <2>2
<1>2. ASSUME NEW r \in Nat, r \in Covered PROVE r + 1 \in Covered
  <2> SUFFICES ASSUME r + 1 <= t, NEW x \in 1..(D!Pow2[t] - D!Pow2[t - (r + 1)]) PROVE Placed(x)
    BY <1>2
  <2>1. PICK s, q : s = r + 1 /\ q = t - s
    OBVIOUS
  <2>2. s \in 1..t /\ q \in Nat /\ t - r = q + 1
    BY <2>1
  <2>3. PICK a, b : a = D!Pow2[q] /\ b = D!Pow2[t]
    OBVIOUS
  <2>4. a \in Nat /\ b \in Nat /\ D!Pow2[t - r] = 2 * a
    BY <2>2, <2>3, PowersDouble
  <2>5. x \in 1..(b - a)
    BY <2>1, <2>3
  <2>6. CASE x <= b - 2 * a
    <3>1. r <= t /\ x \in 1..(D!Pow2[t] - D!Pow2[t - r])
      BY <2>1, <2>2, <2>3, <2>4, <2>5, <2>6
    <3> HIDE DEF Placed
    <3> QED
      BY <1>2, <3>1
  <2>7. CASE x > b - 2 * a
    <3>1. PICK i : i = x - (b - 2 * a)
      OBVIOUS
    <3>2. i \in 1..a /\ x = b - 2 * a + i
      BY <2>4, <2>5, <2>7, <3>1
    <3>3. i \in 1..D!Pow2[t - s]
      BY <2>1, <2>3, <3>2
    <3>4. D!Position(t, s, i) = D!Pow2[t] - 2 * D!Pow2[t - s] + i
      BY <2>2, <3>3, PositionBounds
    <3>5. x = D!Position(t, s, i)
      BY <2>1, <2>3, <3>2, <3>4
    <3> QED
      BY <2>2, <3>3, <3>5
  <2> QED
    BY <2>4, <2>5, <2>6, <2>7
<1>3. Nat \subseteq Covered
  <2> HIDE DEF Covered
  <2> QED
    BY <1>1, <1>2, NumberInduction
<1>4. t \in Covered
  <2> HIDE DEF Covered
  <2> QED
    BY <1>3
<1>5. t - t = 0 /\ D!Pow2[0] = 1
  BY PowersDouble
<1> HIDE DEF Placed
<1>6. Placed(pos)
  BY <1>4, <1>5
<1> QED
  BY <1>6 DEF Placed

\* The match at a position is the one whose round and place it is.
LEMMA BracketMatch ==
  ASSUME NEW n \in Nat, n >= 2, NEW courts, NEW b, b = D!DrawBracket(n, courts),
         NEW t, t = D!RoundsFor(n),
         NEW r \in 1..t, NEW i \in 1..D!Pow2[t - r], NEW pos, pos = D!Position(t, r, i)
  PROVE  /\ DOMAIN b = 1..(D!Pow2[t] - 1)
         /\ pos \in DOMAIN b
         /\ b[pos] = DrawnMatch(n, t, courts, r, i)
<1>1. t \in Nat \ {0}
  BY RoundsHold
<1> DEFINE index == UNION {{<<x, y>> : y \in 1..D!Pow2[t - x]} : x \in 1..t}
           At(p) == CHOOSE z \in index : D!Position(t, z[1], z[2]) = p
<1>2. b = [p \in 1..(D!Pow2[t] - 1) |-> DrawnMatch(n, t, courts, At(p)[1], At(p)[2])]
  BY DEF D!DrawBracket, DrawnMatch
<1>3. <<r, i>> \in index
  OBVIOUS
<1>4. ASSUME NEW z \in index, D!Position(t, z[1], z[2]) = pos
      PROVE  z = <<r, i>>
  <2>1. PICK x \in 1..t : \E y \in 1..D!Pow2[t - x] : z = <<x, y>>
    OBVIOUS
  <2>2. PICK y \in 1..D!Pow2[t - x] : z = <<x, y>>
    BY <2>1
  <2>3. D!Position(t, x, y) = D!Position(t, r, i)
    BY <1>4, <2>2
  <2>4. x = r /\ y = i
    BY <1>1, <2>3, PositionsDiffer
  <2> QED
    BY <2>2, <2>4
<1> HIDE DEF index
<1>5. At(pos) = <<r, i>>
  BY <1>3, <1>4
<1>6. pos \in 1..(D!Pow2[t] - 1)
  BY <1>1, PositionBounds
<1> HIDE DEF At
<1>7. b[pos] = DrawnMatch(n, t, courts, r, i) /\ DOMAIN b = 1..(D!Pow2[t] - 1)
  BY <1>2, <1>5, <1>6
<1> QED
  BY <1>6, <1>7

\* The match after the i-th of a round is a match of the next round.
LEMMA NextPlace ==
  ASSUME NEW t \in Nat \ {0}, NEW r \in 1..t, r # t, NEW i \in 1..D!Pow2[t - r]
  PROVE  /\ r + 1 \in 1..t
         /\ (i + 1) \div 2 \in 1..D!Pow2[t - (r + 1)]
         /\ 2 - (i % 2) \in {1, 2}
         /\ i = 2 * ((i + 1) \div 2) - 2 + (2 - (i % 2))
<1>1. r + 1 \in 1..t /\ t - (r + 1) \in Nat /\ t - r = (t - (r + 1)) + 1
  OBVIOUS
<1>2. PICK a \in Nat : a = D!Pow2[t - (r + 1)]
  BY <1>1, PowersDouble
<1>3. D!Pow2[t - r] = 2 * a
  BY <1>1, <1>2, PowersDouble
<1>4. i \in 1..(2 * a)
  BY <1>3
<1>5. (i + 1) \div 2 \in 1..a /\ 2 - (i % 2) \in {1, 2} /\ i = 2 * ((i + 1) \div 2) - 2 + (2 - (i % 2))
  BY <1>4
<1> QED
  BY <1>1, <1>2, <1>5

-----------------------------------------------------------------------------
(* The seeds of the bracket. *)

\* The placements are what their definition says: a seed of the smaller bracket
\* is followed by the one it is paired with.
LEMMA PlacementsPair ==
  /\ D!SeedPlacement[0] = <<1>>
  /\ \A k \in Nat : D!SeedPlacement[k + 1] =
       [i \in 1..D!Pow2[k + 1] |-> IF i % 2 = 1 THEN D!SeedPlacement[k][(i + 1) \div 2]
                                   ELSE D!Pow2[k + 1] + 1 - D!SeedPlacement[k][(i + 1) \div 2]]
<1> DEFINE P(k) == D!Pow2[k]
           Paired(k, x, i) == IF i % 2 = 1 THEN x[(i + 1) \div 2] ELSE P(k) + 1 - x[(i + 1) \div 2]
           Body(f) == [k \in Nat |-> IF k = 0 THEN <<1>> ELSE [i \in 1..P(k) |-> Paired(k, f[k - 1], i)]]
           V == [Nat -> Int]
           g == [k \in Nat |-> [x \in V |-> [i \in Nat |-> Paired(k + 1, x, i)]]]
           a == [i \in Nat |-> 1]
<1>1. \A k \in Nat : P(k) \in Nat /\ k + 1 \in Nat /\ P(k + 1) = 2 * P(k)
  BY PowersDouble
<1>2. P(0) = 1
  BY PowersDouble
<1> HIDE DEF P
<1>3. \A k \in Nat : \A x \in V : [i \in Nat |-> Paired(k + 1, x, i)] \in V
  <2> SUFFICES ASSUME NEW k \in Nat, NEW x \in V, NEW i \in Nat PROVE Paired(k + 1, x, i) \in Int
    OBVIOUS
  <2>1. (i + 1) \div 2 \in Nat
    OBVIOUS
  <2>2. x[(i + 1) \div 2] \in Int /\ P(k + 1) \in Int
    BY <1>1, <2>1
  <2> QED
    BY <2>2
<1> HIDE DEF Paired
<1>4. a \in V
  OBVIOUS
<1>5. g \in [Nat -> [V -> V]] /\ \A k \in Nat : \A x \in V : g[k][x] = [i \in Nat |-> Paired(k + 1, x, i)]
  BY <1>3
<1> HIDE DEF g, V
<1>6. PICK p : Continues(p, V, a, g)
  BY <1>4, <1>5, RecursionExists
<1>7. p[0] = a /\ \A k \in Nat : p[k] \in V /\ p[k + 1] = [i \in Nat |-> Paired(k + 1, p[k], i)]
  BY <1>5, <1>6 DEF Continues
<1> DEFINE q == [k \in Nat |-> [i \in 1..P(k) |-> p[k][i]]]
<1>8. q[0] = <<1>>
  <2>1. q[0] = [i \in 1..1 |-> 1]
    BY <1>2, <1>7
  <2>2. <<1>> = [i \in 1..1 |-> 1]
    OBVIOUS
  <2> QED
    BY <2>1, <2>2
<1>9. ASSUME NEW k \in Nat
      PROVE  q[k + 1] = [i \in 1..P(k + 1) |-> Paired(k + 1, q[k], i)]
  <2>1. k + 1 \in Nat /\ q[k + 1] = [i \in 1..P(k + 1) |-> p[k + 1][i]]
    OBVIOUS
  <2>2. ASSUME NEW i \in 1..P(k + 1)
        PROVE  p[k + 1][i] = Paired(k + 1, q[k], i)
    <3>1. i \in Nat /\ P(k) \in Nat /\ i \in 1..(2 * P(k))
      BY <1>1
    <3>2. PICK j : j = (i + 1) \div 2
      OBVIOUS
    <3>3. j \in 1..P(k)
      BY <3>1, <3>2
    <3>4. q[k][j] = p[k][j]
      BY <3>3
    <3>5. p[k + 1][i] = Paired(k + 1, p[k], i)
      BY <1>7, <3>1
    <3> HIDE DEF q
    <3> QED
      BY <3>2, <3>4, <3>5 DEF Paired
  <2> HIDE DEF q
  <2> QED
    BY <2>1, <2>2
<1>10. q = Body(q)
  <2>1. q = [k \in Nat |-> q[k]]
    OBVIOUS
  <2> HIDE DEF q
  <2>2. ASSUME NEW k \in Nat
        PROVE  q[k] = IF k = 0 THEN <<1>> ELSE [i \in 1..P(k) |-> Paired(k, q[k - 1], i)]
    <3>1. CASE k # 0
      <4>1. PICK l \in Nat : l = k - 1 /\ k = l + 1
        BY <3>1
      <4> QED
        BY <1>9, <3>1, <4>1
    <3> QED
      BY <1>8, <3>1
  <2> QED
    BY <2>1, <2>2
<1>11. ASSUME NEW f, f = Body(f)
       PROVE  f = q
  <2> DEFINE Same == {k \in Nat : f[k] = q[k]}
  <2> HIDE DEF q
  <2>1. 0 \in Same
    BY <1>8, <1>11
  <2>2. ASSUME NEW k \in Nat, k \in Same PROVE k + 1 \in Same
    <3>1. PICK l \in Nat : l = k + 1 /\ l # 0 /\ l - 1 = k
      OBVIOUS
    <3>2. f[l] = [i \in 1..P(l) |-> Paired(l, f[k], i)]
      <4>1. f[l] = Body(f)[l]
        BY <1>11
      <4> QED
        BY <3>1, <4>1
    <3>3. q[l] = [i \in 1..P(l) |-> Paired(l, q[k], i)]
      BY <1>9, <3>1
    <3> QED
      BY <2>2, <3>1, <3>2, <3>3
  <2>3. Nat \subseteq Same
    <3> HIDE DEF Same
    <3> QED
      BY <2>1, <2>2, NumberInduction
  <2>4. f = [k \in Nat |-> f[k]]
    BY <1>11
  <2>5. q = [k \in Nat |-> q[k]]
    BY DEF q
  <2> QED
    BY <2>3, <2>4, <2>5
<1>12. (CHOOSE f : f = Body(f)) = q
  <2> HIDE DEF q
  <2> QED
    BY <1>10, <1>11
<1>13. D!SeedPlacement = CHOOSE f : f = Body(f)
  BY DEF D!SeedPlacement, P, Paired
<1>14. D!SeedPlacement = q
  BY <1>12, <1>13
<1> HIDE DEF q
<1> QED
  BY <1>8, <1>9, <1>14 DEF P, Paired

\* Neighbours in a placement add up to one more than its size.
LEMMA PlacementPairs ==
  ASSUME NEW k \in Nat, NEW j \in 1..D!Pow2[k]
  PROVE  /\ 2 * j - 1 \in 1..D!Pow2[k + 1] /\ 2 * j \in 1..D!Pow2[k + 1]
         /\ D!SeedPlacement[k + 1][2 * j - 1] = D!SeedPlacement[k][j]
         /\ D!SeedPlacement[k + 1][2 * j] = 2 * D!Pow2[k] + 1 - D!SeedPlacement[k][j]
<1>1. PICK a \in Nat : a = D!Pow2[k] /\ D!Pow2[k + 1] = 2 * a
  BY PowersDouble
<1>2. j \in Nat /\ 2 * j - 1 \in 1..(2 * a) /\ 2 * j \in 1..(2 * a)
  BY <1>1
<1>3. (2 * j - 1) % 2 = 1 /\ (2 * j - 1 + 1) \div 2 = j /\ (2 * j) % 2 # 1 /\ (2 * j + 1) \div 2 = j
  BY <1>2
<1>4. D!SeedPlacement[k + 1] =
        [i \in 1..(2 * a) |-> IF i % 2 = 1 THEN D!SeedPlacement[k][(i + 1) \div 2]
                              ELSE 2 * a + 1 - D!SeedPlacement[k][(i + 1) \div 2]]
  BY <1>1, PlacementsPair
<1>5. PICK x, y : x = 2 * j - 1 /\ y = 2 * j
  OBVIOUS
<1>6. x \in 1..(2 * a) /\ y \in 1..(2 * a) /\ x % 2 = 1 /\ y % 2 # 1 /\ (x + 1) \div 2 = j /\ (y + 1) \div 2 = j
  BY <1>2, <1>3, <1>5
<1>7. D!SeedPlacement[k + 1][x] = D!SeedPlacement[k][j]
  BY <1>4, <1>6
<1>8. D!SeedPlacement[k + 1][y] = 2 * a + 1 - D!SeedPlacement[k][j]
  BY <1>4, <1>6
<1> QED
  BY <1>1, <1>2, <1>5, <1>7, <1>8

\* A placement has every seed, once.
LEMMA PlacementsPermute ==
  ASSUME NEW k \in Nat
  PROVE  /\ \A i \in 1..D!Pow2[k] : D!SeedPlacement[k][i] \in 1..D!Pow2[k]
         /\ \A i, j \in 1..D!Pow2[k] : D!SeedPlacement[k][i] = D!SeedPlacement[k][j] => i = j
         /\ \A seed \in 1..D!Pow2[k] : \E i \in 1..D!Pow2[k] : D!SeedPlacement[k][i] = seed
<1> DEFINE Permutes(f, a) ==
             /\ \A i \in 1..a : f[i] \in 1..a
             /\ \A i, j \in 1..a : f[i] = f[j] => i = j
             /\ \A seed \in 1..a : \E i \in 1..a : f[i] = seed
           Good == {l \in Nat : Permutes(D!SeedPlacement[l], D!Pow2[l])}
<1>1. 0 \in Good
  <2>1. D!Pow2[0] = 1 /\ D!SeedPlacement[0] = <<1>>
    BY PowersDouble, PlacementsPair
  <2>2. \A i : i \in 1..1 <=> i = 1
    OBVIOUS
  <2>3. <<1>>[1] = 1
    OBVIOUS
  <2>4. Permutes(<<1>>, 1)
    BY <2>2, <2>3
  <2> HIDE DEF Permutes
  <2> QED
    BY <2>1, <2>4
<1>2. ASSUME NEW l \in Nat, l \in Good PROVE l + 1 \in Good
  <2>1. PICK a \in Nat : a = D!Pow2[l] /\ D!Pow2[l + 1] = 2 * a
    BY PowersDouble
  <2>2. PICK f, h : f = D!SeedPlacement[l] /\ h = D!SeedPlacement[l + 1]
    OBVIOUS
  <2>3. Permutes(f, a)
    BY <1>2, <2>1, <2>2
  <2>4. ASSUME NEW j \in 1..a
        PROVE  h[2 * j - 1] = f[j] /\ h[2 * j] = 2 * a + 1 - f[j]
    <3>1. j \in 1..D!Pow2[l]
      BY <2>1
    <3> HIDE DEF Good, Permutes
    <3> QED
      BY <2>1, <2>2, <3>1, PlacementPairs
  <2>5. ASSUME NEW i \in 1..(2 * a)
        PROVE  \E j \in 1..a : i = 2 * j - 1 \/ i = 2 * j
    <3>1. (i + 1) \div 2 \in 1..a /\ (i = 2 * ((i + 1) \div 2) - 1 \/ i = 2 * ((i + 1) \div 2))
      OBVIOUS
    <3> QED
      BY <3>1
  <2>6. ASSUME NEW i \in 1..(2 * a)
        PROVE  h[i] \in 1..(2 * a)
    <3>1. PICK j \in 1..a : i = 2 * j - 1 \/ i = 2 * j
      BY <2>5
    <3>2. f[j] \in 1..a
      BY <2>3
    <3>3. h[i] = f[j] \/ h[i] = 2 * a + 1 - f[j]
      BY <2>4, <3>1
    <3> QED
      BY ONLY a \in Nat, <3>2, <3>3
  <2>7. ASSUME NEW x \in 1..(2 * a), NEW y \in 1..(2 * a), h[x] = h[y]
        PROVE  x = y
    <3>1. PICK i \in 1..a : x = 2 * i - 1 \/ x = 2 * i
      BY <2>5
    <3>2. PICK j \in 1..a : y = 2 * j - 1 \/ y = 2 * j
      BY <2>5
    <3>3. f[i] \in 1..a /\ f[j] \in 1..a /\ (f[i] = f[j] => i = j)
      BY <2>3
    <3>4. /\ x = 2 * i - 1 => h[x] = f[i]
          /\ x = 2 * i => h[x] = 2 * a + 1 - f[i]
          /\ y = 2 * j - 1 => h[y] = f[j]
          /\ y = 2 * j => h[y] = 2 * a + 1 - f[j]
      BY <2>4
    <3>5. h[x] = h[y]
      BY <2>7
    <3> QED
      BY ONLY a \in Nat, <3>1, <3>2, <3>3, <3>4, <3>5
  <2>8. ASSUME NEW seed \in 1..(2 * a)
        PROVE  \E i \in 1..(2 * a) : h[i] = seed
    <3>1. CASE seed <= a
      <4>1. PICK j \in 1..a : f[j] = seed
        BY <2>3, <3>1
      <4>2. 2 * j - 1 \in 1..(2 * a) /\ h[2 * j - 1] = seed
        BY <2>4, <4>1
      <4> QED
        BY <4>2
    <3>2. CASE seed > a
      <4>1. PICK other \in 1..a : seed = 2 * a + 1 - other
        <5>1. 2 * a + 1 - seed \in 1..a /\ seed = 2 * a + 1 - (2 * a + 1 - seed)
          BY <3>2
        <5> QED
          BY <5>1
      <4>2. PICK j \in 1..a : f[j] = other
        BY <2>3
      <4>3. 2 * j \in 1..(2 * a) /\ h[2 * j] = seed
        BY <2>4, <4>1, <4>2
      <4> QED
        BY <4>3
    <3> QED
      BY <3>1, <3>2
  <2>9. Permutes(h, 2 * a)
    BY <2>6, <2>7, <2>8
  <2> HIDE DEF Permutes
  <2> QED
    BY <2>1, <2>2, <2>9
<1>3. k \in Good
  <2> HIDE DEF Good
  <2>1. Nat \subseteq Good
    BY <1>1, <1>2, NumberInduction
  <2> QED
    BY <2>1
<1> QED
  BY <1>3

\* The seeds of a first-round match: the better one is in the field, and the
\* other of a bye is not.
LEMMA FirstRound ==
  ASSUME None \notin Nat, NEW n \in Nat, n >= 2, NEW t, t = D!RoundsFor(n),
         NEW i \in 1..D!Pow2[t - 1], NEW s, s = D!SeedPlacement[t - 1][i],
         NEW o, o = D!Pow2[t] + 1 - s
  PROVE  /\ s \in 1..D!Pow2[t - 1] /\ s \in 1..n
         /\ o \in Nat /\ s < o
         /\ D!IsBye(n, 1, i) <=> o > n
         /\ D!DrawnSeeds(n, 1, i) = IF o > n THEN <<s, None>> ELSE <<s, o>>
         /\ D!ByeSeed(n, i) = s
<1>1. t \in Nat \ {0} /\ D!Pow2[t - 1] < n
  BY RoundsHold
<1>2. PICK k \in Nat : k = t - 1 /\ t = k + 1
  BY <1>1
<1>3. PICK a \in Nat : a = D!Pow2[k] /\ D!Pow2[t] = 2 * a /\ a < n
  BY <1>1, <1>2, PowersDouble
<1>4. s \in 1..a
  BY <1>2, <1>3, PlacementsPermute
<1>5. o \in Nat /\ s < o /\ s \in 1..n
  BY <1>3, <1>4
<1>6. D!SeedPlacement[t][2 * i - 1] = s /\ D!SeedPlacement[t][2 * i] = o
  <2>1. i \in 1..D!Pow2[k] /\ s = D!SeedPlacement[k][i] /\ o = 2 * D!Pow2[k] + 1 - s
    BY <1>2, <1>3
  <2>2. /\ D!SeedPlacement[k + 1][2 * i - 1] = D!SeedPlacement[k][i]
        /\ D!SeedPlacement[k + 1][2 * i] = 2 * D!Pow2[k] + 1 - D!SeedPlacement[k][i]
    BY <2>1, PlacementPairs
  <2> QED
    BY <1>2, <2>1, <2>2
<1>7. D!FirstRoundSeeds(n, i) = <<s, IF o <= n THEN o ELSE None>>
  <2>1. s <= n
    BY <1>5
  <2> QED
    BY <1>6, <2>1 DEF D!FirstRoundSeeds
<1>8. s # None /\ o # None
  <2>1. s \in Nat
    BY <1>4
  <2> QED
    BY <1>5, <2>1
<1>9. D!IsBye(n, 1, i) <=> ~(o <= n)
  BY <1>7, <1>8 DEF D!IsBye
<1>10. D!ByeSeed(n, i) = s
  BY <1>7, <1>8 DEF D!ByeSeed
<1>11. D!DrawnSeeds(n, 1, i) = IF D!IsBye(n, 1, i) THEN <<s, None>> ELSE D!FirstRoundSeeds(n, i)
  BY <1>10 DEF D!DrawnSeeds
<1>12. ~(o <= n) <=> o > n
  BY <1>5
<1>13. D!DrawnSeeds(n, 1, i) = IF o > n THEN <<s, None>> ELSE <<s, o>>
  BY <1>7, <1>9, <1>11, <1>12
<1> QED
  BY <1>2, <1>3, <1>4, <1>5, <1>9, <1>10, <1>12, <1>13

\* Later rounds are drawn with what the byes bring them.
LEMMA LaterRounds ==
  ASSUME None \notin Nat, NEW n \in Nat, n >= 2, NEW t, t = D!RoundsFor(n),
         NEW r \in 1..t, r # 1, NEW i \in 1..D!Pow2[t - r],
         NEW x, x = 2 * i - 1, NEW y, y = 2 * i
  PROVE  /\ x \in 1..D!Pow2[t - (r - 1)] /\ y \in 1..D!Pow2[t - (r - 1)]
         /\ ~D!IsBye(n, r, i)
         /\ D!DrawnSeeds(n, r, i) =
              <<IF D!IsBye(n, r - 1, x) THEN D!DrawnSeeds(n, r - 1, x)[1] ELSE None,
                IF D!IsBye(n, r - 1, y) THEN D!DrawnSeeds(n, r - 1, y)[1] ELSE None>>
<1>1. t \in Nat \ {0}
  BY RoundsHold
<1>2. PICK k \in Nat : k = t - r /\ t - (r - 1) = k + 1
  BY <1>1
<1>3. x \in 1..D!Pow2[k + 1] /\ y \in 1..D!Pow2[k + 1]
  BY <1>2, PlacementPairs
<1>4. D!DrawnSeeds(n, r, i) =
        <<IF r = 2 /\ D!IsBye(n, 1, x) THEN D!ByeSeed(n, x) ELSE None,
          IF r = 2 /\ D!IsBye(n, 1, y) THEN D!ByeSeed(n, y) ELSE None>>
  BY DEF D!DrawnSeeds
<1>5. CASE r = 2
  <2>1. r - 1 = 1 /\ x \in 1..D!Pow2[t - 1] /\ y \in 1..D!Pow2[t - 1]
    BY <1>2, <1>3, <1>5
  <2>2. ASSUME NEW j \in 1..D!Pow2[t - 1]
        PROVE  D!DrawnSeeds(n, 1, j)[1] = D!ByeSeed(n, j)
    <3>1. PICK s, o : s = D!SeedPlacement[t - 1][j] /\ o = D!Pow2[t] + 1 - s
      OBVIOUS
    <3>2. D!DrawnSeeds(n, 1, j) = IF o > n THEN <<s, None>> ELSE <<s, o>>
      BY <3>1, FirstRound
    <3>3. D!ByeSeed(n, j) = s
      BY <3>1, FirstRound
    <3> QED
      BY <3>2, <3>3
  <2> QED
    BY <1>2, <1>3, <1>4, <1>5, <2>1, <2>2 DEF D!IsBye
<1>6. CASE r # 2
  <2>1. r - 1 # 1
    BY <1>1, <1>6
  <2> QED
    BY <1>2, <1>3, <1>4, <1>6, <2>1 DEF D!IsBye
<1> QED
  BY <1>5, <1>6

\* The matches of a bracket by round.
LEMMA RoundsOfBracket ==
  ASSUME NEW n \in Nat, n >= 2, NEW courts, NEW b, b = D!DrawBracket(n, courts),
         NEW t, t = D!RoundsFor(n)
  PROVE  /\ DOMAIN b = 1..(D!Pow2[t] - 1)
         /\ \A pos \in DOMAIN b : \E r \in 1..t : \E i \in 1..D!Pow2[t - r] : pos = D!Position(t, r, i)
         /\ \A r \in 1..t : /\ D!RoundOf(b, r) = {D!Position(t, r, i) : i \in 1..D!Pow2[t - r]}
                            /\ D!Cardinality(D!RoundOf(b, r)) = D!Pow2[t - r]
<1>1. t \in Nat \ {0}
  BY RoundsHold
<1>2. DOMAIN b = 1..(D!Pow2[t] - 1)
  BY DEF D!DrawBracket
<1>3. ASSUME NEW pos \in DOMAIN b
      PROVE  \E r \in 1..t : \E i \in 1..D!Pow2[t - r] : pos = D!Position(t, r, i)
  <2>1. pos \in 1..(D!Pow2[t] - 1)
    BY <1>2
  <2> QED
    BY <1>1, <2>1, PositionsCover
<1>4. ASSUME NEW r \in 1..t
      PROVE  D!RoundOf(b, r) = {D!Position(t, r, i) : i \in 1..D!Pow2[t - r]}
  <2>1. ASSUME NEW pos \in D!RoundOf(b, r)
        PROVE  pos \in {D!Position(t, r, i) : i \in 1..D!Pow2[t - r]}
    <3>1. pos \in DOMAIN b /\ b[pos].round = r
      BY <2>1 DEF D!RoundOf
    <3>2. PICK s \in 1..t : \E i \in 1..D!Pow2[t - s] : pos = D!Position(t, s, i)
      BY <1>3, <3>1
    <3>3. PICK i \in 1..D!Pow2[t - s] : pos = D!Position(t, s, i)
      BY <3>2
    <3>4. s \in 1..t /\ i \in 1..D!Pow2[t - s] /\ pos = D!Position(t, s, i)
      BY <3>2, <3>3
    <3>5. b[pos].round = s
      <4>1. pos \in DOMAIN b /\ b[pos] = DrawnMatch(n, t, courts, s, i)
        BY <3>4, BracketMatch
      <4> QED
        BY <4>1 DEF DrawnMatch
    <3> QED
      BY <3>1, <3>3, <3>5
  <2>2. ASSUME NEW i \in 1..D!Pow2[t - r], NEW pos, pos = D!Position(t, r, i)
        PROVE  pos \in D!RoundOf(b, r)
    <3>1. pos \in DOMAIN b /\ b[pos].round = r
      <4>1. pos \in DOMAIN b /\ b[pos] = DrawnMatch(n, t, courts, r, i)
        BY <2>2, BracketMatch
      <4> QED
        BY <4>1 DEF DrawnMatch
    <3> QED
      BY <3>1 DEF D!RoundOf
  <2> QED
    BY <2>1, <2>2
<1>5. ASSUME NEW r \in 1..t
      PROVE  D!Cardinality(D!RoundOf(b, r)) = D!Pow2[t - r]
  <2>1. PICK a \in Nat : a = D!Pow2[t - r]
    <3>1. t - r \in Nat
      BY <1>1
    <3> QED
      BY <3>1, PowersDouble
  <2>2. PICK A, R : A = 1..a /\ R = D!RoundOf(b, r)
    OBVIOUS
  <2> DEFINE f == [i \in A |-> D!Position(t, r, i)]
  <2>3. R = {f[i] : i \in A}
    BY <1>4, <2>1, <2>2
  <2>4. \A i, j \in A : f[i] = f[j] => i = j
    <3> SUFFICES ASSUME NEW i \in A, NEW j \in A, f[i] = f[j] PROVE i = j
      OBVIOUS
    <3>1. D!Position(t, r, i) = D!Position(t, r, j)
      OBVIOUS
    <3> HIDE DEF f
    <3> QED
      BY <1>1, <2>1, <2>2, <3>1, PositionsDiffer
  <2>5. IsFiniteSet(A) /\ Cardinality(A) = a
    <3>1. IsFiniteSet(1..a)
      BY FS_Interval
    <3>2. Cardinality(1..a) = a
      BY FS_Interval
    <3> QED
      BY <2>2, <3>1, <3>2
  <2>6. f \in Bijection(A, R)
    <3>1. f \in [A -> R]
      BY <2>3
    <3>2. \A x \in R : \E i \in A : f[i] = x
      BY <2>3
    <3> HIDE DEF f
    <3> QED
      BY ONLY <2>4, <3>1, <3>2 DEF Bijection, Injection, Surjection, IsInjective
  <2> HIDE DEF f
  <2>7. Cardinality(R) = a
    BY <2>5, <2>6, FS_Bijection DEF ExistsBijection
  <2> QED
    BY <2>1, <2>2, <2>7, DrawCardinality
<1> QED
  BY <1>2, <1>3, <1>4, <1>5

\* A side of a later match is fed by one match of the round before.
LEMMA FeedersOfPlace ==
  ASSUME None \notin Nat, NEW n \in Nat, n >= 2, NEW courts, NEW b, b = D!DrawBracket(n, courts),
         NEW t, t = D!RoundsFor(n), NEW r \in 1..t, NEW i \in 1..D!Pow2[t - r], NEW side \in {1, 2},
         NEW pos, pos = D!Position(t, r, i), NEW j, j = 2 * i - 2 + side
  PROVE  /\ r = 1 => D!Feeders(b, pos, side) = {}
         /\ r # 1 => /\ j \in 1..D!Pow2[t - (r - 1)]
                     /\ D!Feeders(b, pos, side) = {D!Position(t, r - 1, j)}
<1>1. t \in Nat \ {0}
  BY RoundsHold
<1>2. pos # None
  <2>1. pos \in 1..(D!Pow2[t] - 1)
    BY <1>1, PositionBounds
  <2> QED
    BY <2>1
<1>3. i \in Nat /\ i >= 1
  <2>1. t - r \in Nat
    BY <1>1
  <2>2. D!Pow2[t - r] \in Nat
    BY <2>1, PowersDouble
  <2> QED
    BY <2>2
<1>4. ASSUME NEW x \in D!Feeders(b, pos, side)
      PROVE  r # 1 /\ x = D!Position(t, r - 1, j)
  <2>1. x \in DOMAIN b /\ b[x].next = pos /\ b[x].slot = side
    BY <1>4 DEF D!Feeders
  <2>2. PICK s \in 1..t : \E k \in 1..D!Pow2[t - s] : x = D!Position(t, s, k)
    BY <2>1, RoundsOfBracket
  <2>3. PICK k \in 1..D!Pow2[t - s] : x = D!Position(t, s, k)
    BY <2>2
  <2>4. b[x].next = IF s = t THEN None ELSE D!Position(t, s + 1, (k + 1) \div 2)
    <3>1. x \in DOMAIN b /\ b[x] = DrawnMatch(n, t, courts, s, k)
      BY <2>3, BracketMatch
    <3> QED
      BY <3>1 DEF DrawnMatch
  <2>5. b[x].slot = IF s = t THEN None ELSE 2 - (k % 2)
    <3>1. x \in DOMAIN b /\ b[x] = DrawnMatch(n, t, courts, s, k)
      BY <2>3, BracketMatch
    <3> QED
      BY <3>1 DEF DrawnMatch
  <2>6. s # t
    BY <1>2, <2>1, <2>4
  <2>7. PICK l, m : l = (k + 1) \div 2 /\ m = 2 - (k % 2)
    OBVIOUS
  <2>8. s + 1 \in 1..t /\ l \in 1..D!Pow2[t - (s + 1)] /\ k = 2 * l - 2 + m
    BY <1>1, <2>6, <2>7, NextPlace
  <2>9. D!Position(t, s + 1, l) = D!Position(t, r, i) /\ m = side
    BY <2>1, <2>4, <2>5, <2>6, <2>7
  <2>10. s + 1 = r /\ l = i
    BY <1>1, <2>8, <2>9, PositionsDiffer
  <2>11. r # 1 /\ r - 1 = s
    BY <1>1, <2>10
  <2>12. k = j
    BY <2>8, <2>9, <2>10
  <2> QED
    BY <2>3, <2>11, <2>12
<1>5. ASSUME r # 1
      PROVE  /\ j \in 1..D!Pow2[t - (r - 1)]
             /\ D!Position(t, r - 1, j) \in D!Feeders(b, pos, side)
  <2>1. PICK k \in Nat : k = t - r /\ t - (r - 1) = k + 1
    BY <1>1
  <2>2. 2 * i - 1 \in 1..D!Pow2[k + 1] /\ 2 * i \in 1..D!Pow2[k + 1]
    BY <2>1, PlacementPairs
  <2>3. j = 2 * i - 1 \/ j = 2 * i
    BY <1>3
  <2>4. j \in 1..D!Pow2[t - (r - 1)]
    BY <2>1, <2>2, <2>3
  <2>5. PICK s : s = r - 1
    OBVIOUS
  <2>6. s \in 1..t /\ s # t /\ s + 1 = r
    BY <1>1, <1>5, <2>5
  <2>7. (j + 1) \div 2 = i /\ 2 - (j % 2) = side
    BY <1>3
  <2>8. PICK x : x = D!Position(t, s, j)
    OBVIOUS
  <2>9. j \in 1..D!Pow2[t - s]
    BY <2>4, <2>5
  <2>10. /\ x \in DOMAIN b
         /\ b[x].next = IF s = t THEN None ELSE D!Position(t, s + 1, (j + 1) \div 2)
         /\ b[x].slot = IF s = t THEN None ELSE 2 - (j % 2)
    <3>1. s \in 1..t
      BY <2>6
    <3>2. x \in DOMAIN b
      BY <2>8, <2>9, <3>1, BracketMatch
    <3>3. b[x].next = IF s = t THEN None ELSE D!Position(t, s + 1, (j + 1) \div 2)
      <4>1. x \in DOMAIN b /\ b[x] = DrawnMatch(n, t, courts, s, j)
        BY <2>8, <2>9, <3>1, BracketMatch
      <4> QED
        BY <4>1 DEF DrawnMatch
    <3>4. b[x].slot = IF s = t THEN None ELSE 2 - (j % 2)
      <4>1. PICK l : l = j
        OBVIOUS
      <4>2. l \in 1..D!Pow2[t - s] /\ x = D!Position(t, s, l)
        BY <2>8, <2>9, <4>1
      <4>3. b[x].slot = IF s = t THEN None ELSE 2 - (l % 2)
        <5>1. x \in DOMAIN b /\ b[x] = DrawnMatch(n, t, courts, s, l)
          BY <3>1, <4>2, BracketMatch
        <5> QED
          BY <5>1 DEF DrawnMatch
      <4> QED
        BY <4>1, <4>3
    <3> QED
      BY <3>2, <3>3, <3>4
  <2>11. x \in D!Feeders(b, pos, side)
    BY <2>6, <2>7, <2>10 DEF D!Feeders
  <2> QED
    BY <2>4, <2>5, <2>8, <2>11
<1> QED
  BY <1>4, <1>5

\* The best seed out of the i-th match of a round is the i-th of the placement
\* of the matches of the round.
LEMMA BestOfMatch ==
  ASSUME None \notin Nat, NEW n \in Nat, n >= 2, NEW courts, NEW b, b = D!DrawBracket(n, courts),
         NEW t, t = D!RoundsFor(n)
  PROVE  \A r \in 1..t : \A i \in 1..D!Pow2[t - r] :
           D!BestOf(b)[D!Position(t, r, i)] = D!SeedPlacement[t - r][i]
<1> DEFINE Into(f, pos, side) == IF D!Feeders(b, pos, side) = {} THEN b[pos].seeds[side]
                                 ELSE f[CHOOSE x \in D!Feeders(b, pos, side) : TRUE]
           Out(f, pos) == IF b[pos].bye THEN b[pos].seeds[1]
                          ELSE IF Into(f, pos, 1) < Into(f, pos, 2) THEN Into(f, pos, 1) ELSE Into(f, pos, 2)
           Body(f) == [pos \in DOMAIN b |-> Out(f, pos)]
           Placed(f, r) == \A i \in 1..D!Pow2[t - r] : f[D!Position(t, r, i)] = D!SeedPlacement[t - r][i]
<1>1. t \in Nat \ {0}
  BY RoundsHold
<1>2. D!BestOf(b) = CHOOSE f : f = Body(f)
  BY DEF D!BestOf
<1>3. ASSUME NEW f, NEW i \in 1..D!Pow2[t - 1], NEW pos, pos = D!Position(t, 1, i)
      PROVE  Out(f, pos) = D!SeedPlacement[t - 1][i]
  <2>1. 1 \in 1..t
    BY <1>1
  <2>2. b[pos].seeds = D!DrawnSeeds(n, 1, i) /\ b[pos].bye = D!IsBye(n, 1, i)
    <3>1. pos \in DOMAIN b /\ b[pos] = DrawnMatch(n, t, courts, 1, i)
      BY <1>3, <2>1, BracketMatch
    <3> QED
      BY <3>1 DEF DrawnMatch
  <2>3. D!Feeders(b, pos, 1) = {}
    BY <1>3, <2>1, FeedersOfPlace
  <2>4. D!Feeders(b, pos, 2) = {}
    BY <1>3, <2>1, FeedersOfPlace
  <2>5. PICK s, o : s = D!SeedPlacement[t - 1][i] /\ o = D!Pow2[t] + 1 - s
    OBVIOUS
  <2>6. /\ o \in Nat /\ s < o
        /\ D!IsBye(n, 1, i) <=> o > n
        /\ D!DrawnSeeds(n, 1, i) = IF o > n THEN <<s, None>> ELSE <<s, o>>
    BY <2>5, FirstRound
  <2> QED
    BY <2>2, <2>3, <2>4, <2>5, <2>6
<1>4. ASSUME NEW f, NEW r \in 1..t, r # 1, Placed(f, r - 1), NEW i \in 1..D!Pow2[t - r],
             NEW pos, pos = D!Position(t, r, i)
      PROVE  Out(f, pos) = D!SeedPlacement[t - r][i]
  <2>1. b[pos].bye = FALSE
    <3>1. b[pos].bye = D!IsBye(n, r, i)
      <4>1. pos \in DOMAIN b /\ b[pos] = DrawnMatch(n, t, courts, r, i)
        BY <1>4, BracketMatch
      <4> QED
        BY <4>1 DEF DrawnMatch
    <3> QED
      BY <1>4, <3>1 DEF D!IsBye
  <2>2. PICK k \in Nat : k = t - r /\ t - (r - 1) = k + 1
    BY <1>1
  <2>3. PICK x, y : x = 2 * i - 1 /\ y = 2 * i
    OBVIOUS
  <2>4. PICK a \in Nat : a = D!Pow2[k]
    BY PowersDouble
  <2>5. i \in 1..a /\ i \in Nat
    BY <2>2, <2>4
  <2>6. 2 * i - 2 + 1 = x /\ 2 * i - 2 + 2 = y
    BY <2>3, <2>5
  <2>7. x \in 1..D!Pow2[t - (r - 1)] /\ D!Feeders(b, pos, 1) = {D!Position(t, r - 1, x)}
    <3>1. PICK side : side = 1
      OBVIOUS
    <3>2. side \in {1, 2} /\ x = 2 * i - 2 + side
      BY <2>6, <3>1
    <3>3. x \in 1..D!Pow2[t - (r - 1)]
      BY <1>4, <3>2, FeedersOfPlace
    <3>4. D!Feeders(b, pos, side) = {D!Position(t, r - 1, x)}
      BY <1>4, <3>2, FeedersOfPlace
    <3> QED
      BY <3>1, <3>3, <3>4
  <2>8. y \in 1..D!Pow2[t - (r - 1)] /\ D!Feeders(b, pos, 2) = {D!Position(t, r - 1, y)}
    <3>1. PICK side : side = 2
      OBVIOUS
    <3>2. side \in {1, 2} /\ y = 2 * i - 2 + side
      BY <2>6, <3>1
    <3>3. y \in 1..D!Pow2[t - (r - 1)]
      BY <1>4, <3>2, FeedersOfPlace
    <3>4. D!Feeders(b, pos, side) = {D!Position(t, r - 1, y)}
      BY <1>4, <3>2, FeedersOfPlace
    <3> QED
      BY <3>1, <3>3, <3>4
  <2>9. Into(f, pos, 1) = D!SeedPlacement[k + 1][x]
    <3>1. (CHOOSE z \in D!Feeders(b, pos, 1) : TRUE) = D!Position(t, r - 1, x)
      BY <2>7
    <3>2. f[D!Position(t, r - 1, x)] = D!SeedPlacement[k + 1][x]
      BY <1>4, <2>2, <2>7
    <3> QED
      BY <2>7, <3>1, <3>2
  <2>10. Into(f, pos, 2) = D!SeedPlacement[k + 1][y]
    <3>1. (CHOOSE z \in D!Feeders(b, pos, 2) : TRUE) = D!Position(t, r - 1, y)
      BY <2>8
    <3>2. f[D!Position(t, r - 1, y)] = D!SeedPlacement[k + 1][y]
      BY <1>4, <2>2, <2>8
    <3> QED
      BY <2>8, <3>1, <3>2
  <2>11. PICK s : s = D!SeedPlacement[k][i]
    OBVIOUS
  <2>12. s \in 1..a
    BY <2>4, <2>5, <2>11, PlacementsPermute
  <2>13. D!SeedPlacement[k + 1][x] = s /\ D!SeedPlacement[k + 1][y] = 2 * a + 1 - s
    BY <2>3, <2>4, <2>5, <2>11, PlacementPairs
  <2>14. s < 2 * a + 1 - s
    BY <2>12
  <2> HIDE DEF Into
  <2>15. Out(f, pos) = s
    BY <2>1, <2>9, <2>10, <2>13, <2>14
  <2> QED
    BY <2>2, <2>11, <2>15
<1> HIDE DEF Out
<1>5. ASSUME NEW f, f = Body(f)
      PROVE  \A r \in 1..t : Placed(f, r)
  <2> DEFINE Good == {r \in Nat : r + 1 <= t => Placed(f, r + 1)}
  <2>1. ASSUME NEW r \in 1..t, NEW i \in 1..D!Pow2[t - r], NEW pos, pos = D!Position(t, r, i)
        PROVE  f[pos] = Out(f, pos)
    <3>1. pos \in DOMAIN b
      BY <2>1, BracketMatch
    <3>2. f[pos] = Body(f)[pos]
      BY <1>5
    <3> QED
      BY <3>1, <3>2
  <2>2. 0 \in Good
    <3>1. 1 \in 1..t
      BY <1>1
    <3>2. Placed(f, 1)
      BY <1>3, <2>1, <3>1
    <3> HIDE DEF Placed
    <3> QED
      BY <3>2
  <2>3. ASSUME NEW r \in Nat, r \in Good PROVE r + 1 \in Good
    <3> SUFFICES ASSUME r + 1 + 1 <= t PROVE Placed(f, r + 1 + 1)
      OBVIOUS
    <3>1. PICK s : s = r + 1 + 1
      OBVIOUS
    <3>2. s \in 1..t /\ s # 1 /\ s - 1 = r + 1 /\ r + 1 <= t
      BY <1>1, <3>1
    <3>3. Placed(f, s - 1)
      BY <2>3, <3>2
    <3>4. ASSUME NEW i \in 1..D!Pow2[t - s] PROVE f[D!Position(t, s, i)] = D!SeedPlacement[t - s][i]
      <4>1. PICK pos : pos = D!Position(t, s, i)
        OBVIOUS
      <4>2. Out(f, pos) = D!SeedPlacement[t - s][i]
        <5> HIDE DEF Placed
        <5> QED
          BY <1>4, <3>2, <3>3, <4>1
      <4>3. f[pos] = Out(f, pos)
        BY <2>1, <3>2, <4>1
      <4> QED
        BY <4>1, <4>2, <4>3
    <3> QED
      BY <3>1, <3>4
  <2>4. Nat \subseteq Good
    <3> HIDE DEF Good
    <3> QED
      BY <2>2, <2>3, NumberInduction
  <2>5. ASSUME NEW r \in 1..t PROVE Placed(f, r)
    <3>1. PICK s \in Nat : r = s + 1 /\ s + 1 <= t
      <4>1. r - 1 \in Nat /\ r = r - 1 + 1 /\ r - 1 + 1 <= t
        BY <1>1
      <4> QED
        BY <4>1
    <3>2. s \in Good
      BY <2>4
    <3> HIDE DEF Placed
    <3> QED
      BY <3>1, <3>2
  <2> QED
    BY <2>5
<1>6. \E f : f = Body(f)
  <2> DEFINE Nth(r, pos) == CHOOSE i \in 1..D!Pow2[t - r] : pos = D!Position(t, r, i)
             B == [pos \in DOMAIN b |-> D!SeedPlacement[t - b[pos].round][Nth(b[pos].round, pos)]]
  <2>1. ASSUME NEW r \in 1..t, NEW i \in 1..D!Pow2[t - r], NEW pos, pos = D!Position(t, r, i)
        PROVE  B[pos] = D!SeedPlacement[t - r][i]
    <3>1. pos \in DOMAIN b /\ b[pos].round = r
      <4>1. pos \in DOMAIN b /\ b[pos] = DrawnMatch(n, t, courts, r, i)
        BY <2>1, BracketMatch
      <4> QED
        BY <4>1 DEF DrawnMatch
    <3>2. ASSUME NEW j \in 1..D!Pow2[t - r], pos = D!Position(t, r, j)
          PROVE  j = i
      <4>1. D!Position(t, r, j) = D!Position(t, r, i)
        BY <2>1, <3>2
      <4> QED
        BY <1>1, <4>1, PositionsDiffer
    <3>3. Nth(r, pos) = i
      BY <2>1, <3>2
    <3> HIDE DEF Nth
    <3> QED
      BY <3>1, <3>3
  <2> HIDE DEF B
  <2>2. \A r \in 1..t : Placed(B, r)
    BY <2>1
  <2>3. ASSUME NEW pos \in DOMAIN b PROVE Out(B, pos) = B[pos]
    <3>1. PICK r \in 1..t : \E i \in 1..D!Pow2[t - r] : pos = D!Position(t, r, i)
      BY RoundsOfBracket
    <3>2. PICK i \in 1..D!Pow2[t - r] : pos = D!Position(t, r, i)
      BY <3>1
    <3>3. B[pos] = D!SeedPlacement[t - r][i]
      BY <2>1, <3>2
    <3>4. CASE r = 1
      BY <1>3, <3>2, <3>3, <3>4
    <3>5. CASE r # 1
      <4>1. r - 1 \in 1..t
        BY <1>1, <3>5
      <4>2. Placed(B, r - 1)
        BY <2>2, <4>1
      <4> HIDE DEF Placed
      <4> QED
        BY <1>4, <3>2, <3>3, <3>5, <4>2
    <3> QED
      BY <3>4, <3>5
  <2>4. B = [pos \in DOMAIN b |-> B[pos]]
    BY DEF B
  <2>5. B = Body(B)
    BY <2>3, <2>4
  <2> QED
    BY <2>5
<1> QED
  BY <1>2, <1>5, <1>6

\* For every number of seeds the bracket is fair: the byes are the top seeds',
\* and if the better seed always wins each round is drawn best against worst
\* (seedPlacement, drawBracket).
THEOREM BracketsAreFair ==
  ASSUME None \notin Nat, NEW n \in Nat, n >= 2, NEW courts
  PROVE  D!FairBracket(n, D!DrawBracket(n, courts))
<1>1. PICK b, t : b = D!DrawBracket(n, courts) /\ t = D!RoundsFor(n)
  OBVIOUS
<1>2. t \in Nat \ {0} /\ D!Pow2[t] >= n /\ D!Pow2[t - 1] < n
  BY <1>1, RoundsHold
<1>3. PICK a \in Nat : a = D!Pow2[t - 1] /\ D!Pow2[t] = 2 * a /\ a >= 1
  <2>1. t - 1 \in Nat /\ t - 1 + 1 = t
    BY <1>2
  <2>2. D!Pow2[t] = 2 * D!Pow2[t - 1]
    BY <2>1, PowersDouble
  <2>3. D!Pow2[t - 1] \in Nat
    BY <2>1, PowersDouble
  <2> QED
    BY <1>2, <2>2, <2>3
<1>4. DOMAIN b = 1..(2 * a - 1)
  BY <1>1, <1>3, RoundsOfBracket
<1>5. Len(b) + 1 = 2 * a
  <2>1. b = [pos \in 1..(2 * a - 1) |-> b[pos]]
    BY <1>1, <1>4 DEF D!DrawBracket
  <2>2. 2 * a - 1 \in Nat
    BY <1>3
  <2>3. Len(b) = 2 * a - 1
    BY <2>1, <2>2
  <2> QED
    BY <1>3, <2>3
<1> DEFINE First(i) == D!SeedPlacement[t - 1][i]
           Second(i) == 2 * a + 1 - First(i)
<1>6. ASSUME NEW i \in 1..a
      PROVE  /\ First(i) \in 1..a /\ First(i) \in 1..n /\ Second(i) \in (a + 1)..(2 * a)
             /\ b[D!Position(t, 1, i)].bye <=> Second(i) > n
             /\ b[D!Position(t, 1, i)].seeds
                  = IF Second(i) > n THEN <<First(i), None>> ELSE <<First(i), Second(i)>>
             /\ D!Position(t, 1, i) \in D!RoundOf(b, 1)
  <2>1. 1 \in 1..t /\ i \in 1..D!Pow2[t - 1]
    BY <1>2, <1>3
  <2>2. PICK s, o, pos : s = First(i) /\ o = D!Pow2[t] + 1 - s /\ pos = D!Position(t, 1, i)
    OBVIOUS
  <2>3. /\ s \in 1..D!Pow2[t - 1] /\ s \in 1..n
        /\ D!IsBye(n, 1, i) <=> o > n
        /\ D!DrawnSeeds(n, 1, i) = IF o > n THEN <<s, None>> ELSE <<s, o>>
    BY <1>1, <2>1, <2>2, FirstRound
  <2>4. b[pos].seeds = D!DrawnSeeds(n, 1, i) /\ b[pos].bye = D!IsBye(n, 1, i)
    <3>1. pos \in DOMAIN b /\ b[pos] = DrawnMatch(n, t, courts, 1, i)
      BY <1>1, <2>1, <2>2, BracketMatch
    <3> QED
      BY <3>1 DEF DrawnMatch
  <2>5. pos \in D!RoundOf(b, 1)
    BY <1>1, <2>1, <2>2, RoundsOfBracket
  <2>6. o = Second(i) /\ s \in 1..a /\ o \in (a + 1)..(2 * a)
    BY <1>3, <2>2, <2>3
  <2> HIDE DEF First, Second
  <2> QED
    BY <2>2, <2>3, <2>4, <2>5, <2>6
<1>7. \A s \in 1..a : \E i \in 1..a : First(i) = s
  <2>1. t - 1 \in Nat
    BY <1>2
  <2> QED
    BY <1>3, <2>1, PlacementsPermute
<1>8. \A pos \in D!RoundOf(b, 1) : \E i \in 1..a : pos = D!Position(t, 1, i)
  <2>1. 1 \in 1..t
    BY <1>2
  <2>2. D!RoundOf(b, 1) = {D!Position(t, 1, i) : i \in 1..D!Pow2[t - 1]}
    BY <1>1, <2>1, RoundsOfBracket
  <2> QED
    BY <1>3, <2>2
<1>9. None \notin 1..n
  OBVIOUS
<1> HIDE DEF First
<1>10. {b[pos].seeds[side] : pos \in D!RoundOf(b, 1), side \in {1, 2}} \ {None} = 1..n
  <2>1. ASSUME NEW pos \in D!RoundOf(b, 1), NEW side \in {1, 2}, b[pos].seeds[side] # None
        PROVE  b[pos].seeds[side] \in 1..n
    <3>1. PICK i \in 1..a : pos = D!Position(t, 1, i)
      BY <1>8
    <3>2. /\ First(i) \in 1..n /\ Second(i) \in (a + 1)..(2 * a)
          /\ b[pos].seeds = IF Second(i) > n THEN <<First(i), None>> ELSE <<First(i), Second(i)>>
      BY <1>6, <3>1
    <3>3. PICK o : o = Second(i)
      OBVIOUS
    <3>4. o \in Nat /\ o >= 1
      BY <3>2, <3>3
    <3> HIDE DEF Second
    <3> QED
      BY <2>1, <3>2, <3>3, <3>4
  <2>2. ASSUME NEW s \in 1..n
        PROVE  \E pos \in D!RoundOf(b, 1), side \in {1, 2} : s = b[pos].seeds[side]
    <3>1. CASE s <= a
      <4>1. PICK i \in 1..a : First(i) = s
        BY <1>7, <3>1
      <4>2. D!Position(t, 1, i) \in D!RoundOf(b, 1)
        BY <1>6
      <4>3. b[D!Position(t, 1, i)].seeds = IF Second(i) > n THEN <<First(i), None>> ELSE <<First(i), Second(i)>>
        BY <1>6
      <4> HIDE DEF Second
      <4>4. b[D!Position(t, 1, i)].seeds[1] = s
        BY <4>1, <4>3
      <4> QED
        BY <4>2, <4>4
    <3>2. CASE s > a
      <4>1. PICK other \in 1..a : s = 2 * a + 1 - other
        <5>1. n <= 2 * a
          BY <1>2, <1>3
        <5>2. 2 * a + 1 - s \in 1..a /\ s = 2 * a + 1 - (2 * a + 1 - s)
          BY <3>2, <5>1
        <5> QED
          BY <5>2
      <4>2. PICK i \in 1..a : First(i) = other
        BY <1>7
      <4>3. Second(i) = s /\ ~(Second(i) > n)
        BY <4>1, <4>2
      <4>4. D!Position(t, 1, i) \in D!RoundOf(b, 1)
        BY <1>6
      <4>5. b[D!Position(t, 1, i)].seeds = IF Second(i) > n THEN <<First(i), None>> ELSE <<First(i), Second(i)>>
        BY <1>6
      <4> HIDE DEF Second
      <4>6. b[D!Position(t, 1, i)].seeds[2] = s
        BY <4>3, <4>5
      <4> QED
        BY <4>4, <4>6
    <3> QED
      BY <1>3, <3>1, <3>2
  <2> QED
    BY <1>9, <2>1, <2>2
<1>11. {b[pos].seeds[1] : pos \in {x \in DOMAIN b : b[x].bye}} = 1..(2 * a - n)
  <2>1. ASSUME NEW pos \in DOMAIN b, b[pos].bye
        PROVE  b[pos].seeds[1] \in 1..(2 * a - n)
    <3>1. PICK r \in 1..t : \E i \in 1..D!Pow2[t - r] : pos = D!Position(t, r, i)
      BY <1>1, RoundsOfBracket
    <3>2. PICK i \in 1..D!Pow2[t - r] : pos = D!Position(t, r, i)
      BY <3>1
    <3>3. b[pos].bye = D!IsBye(n, r, i)
      <4>1. r \in 1..t /\ i \in 1..D!Pow2[t - r] /\ pos = D!Position(t, r, i)
        BY <3>2
      <4>2. pos \in DOMAIN b /\ b[pos] = DrawnMatch(n, t, courts, r, i)
        BY <1>1, <4>1, BracketMatch
      <4> QED
        BY <4>2 DEF DrawnMatch
    <3>4. r = 1
      BY <2>1, <3>3 DEF D!IsBye
    <3>5. i \in 1..a /\ pos = D!Position(t, 1, i)
      BY <1>3, <3>2, <3>4
    <3>6. First(i) \in 1..a
      BY <1>6, <3>5
    <3>7. Second(i) > n
      <4>1. b[pos].bye <=> Second(i) > n
        BY <1>6, <3>5
      <4> QED
        BY <2>1, <4>1
    <3>8. b[pos].seeds[1] = First(i)
      <4>1. b[pos].seeds = IF Second(i) > n THEN <<First(i), None>> ELSE <<First(i), Second(i)>>
        BY <1>6, <3>5
      <4> HIDE DEF Second
      <4> QED
        BY <4>1
    <3> QED
      BY <3>6, <3>7, <3>8
  <2>2. ASSUME NEW s \in 1..(2 * a - n)
        PROVE  \E pos \in {x \in DOMAIN b : b[x].bye} : s = b[pos].seeds[1]
    <3>1. s \in 1..a
      BY <1>2, <1>3
    <3>2. PICK i \in 1..a : First(i) = s
      BY <1>7, <3>1
    <3>3. Second(i) > n
      BY <1>3, <3>2
    <3>4. PICK pos : pos = D!Position(t, 1, i)
      OBVIOUS
    <3>5. b[pos].bye
      <4>1. b[pos].bye <=> Second(i) > n
        BY <1>6, <3>4
      <4> QED
        BY <3>3, <4>1
    <3>6. b[pos].seeds[1] = s
      <4>1. b[pos].seeds = IF Second(i) > n THEN <<First(i), None>> ELSE <<First(i), Second(i)>>
        BY <1>6, <3>4
      <4> HIDE DEF Second
      <4> QED
        BY <3>2, <4>1
    <3>7. pos \in D!RoundOf(b, 1)
      BY <1>6, <3>4
    <3> QED
      BY <3>5, <3>6, <3>7 DEF D!RoundOf
  <2> QED
    BY <2>1, <2>2
<1> DEFINE Brought(x) == IF b[x].bye THEN b[x].seeds[1] ELSE None
<1>12. ASSUME NEW pos \in DOMAIN b, b[pos].round > 1
       PROVE  \E x, y \in D!RoundOf(b, b[pos].round - 1) :
                /\ D!Feeders(b, pos, 1) = {x}
                /\ D!Feeders(b, pos, 2) = {y}
                /\ b[pos].seeds = <<Brought(x), Brought(y)>>
                /\ D!BestOf(b)[x] + D!BestOf(b)[y] = 2 * D!Cardinality(D!RoundOf(b, b[pos].round)) + 1
  <2>1. PICK r \in 1..t : \E i \in 1..D!Pow2[t - r] : pos = D!Position(t, r, i)
    BY <1>1, RoundsOfBracket
  <2>2. PICK i \in 1..D!Pow2[t - r] : pos = D!Position(t, r, i)
    BY <2>1
  <2>3. b[pos].round = r /\ b[pos].seeds = D!DrawnSeeds(n, r, i)
    <3>1. r \in 1..t /\ i \in 1..D!Pow2[t - r] /\ pos = D!Position(t, r, i)
      BY <2>1, <2>2
    <3>2. b[pos] = DrawnMatch(n, t, courts, r, i)
      BY <1>1, <3>1, BracketMatch
    <3> QED
      BY <3>2 DEF DrawnMatch
  <2>4. r # 1 /\ r - 1 \in 1..t
    BY <1>2, <1>12, <2>3
  <2>5. PICK k \in Nat : k = t - r /\ t - (r - 1) = k + 1
    BY <1>2
  <2>6. PICK c \in Nat : c = D!Pow2[k]
    BY PowersDouble
  <2>7. PICK u, v, x, y : u = 2 * i - 1 /\ v = 2 * i /\ x = D!Position(t, r - 1, u) /\ y = D!Position(t, r - 1, v)
    OBVIOUS
  <2>8. i \in 1..c /\ u = 2 * i - 2 + 1 /\ v = 2 * i - 2 + 2
    BY <2>5, <2>6, <2>7
  <2>9. u \in 1..D!Pow2[t - (r - 1)] /\ v \in 1..D!Pow2[t - (r - 1)]
    BY <1>1, <2>4, <2>7, LaterRounds
  <2>10. D!DrawnSeeds(n, r, i) =
           <<IF D!IsBye(n, r - 1, u) THEN D!DrawnSeeds(n, r - 1, u)[1] ELSE None,
             IF D!IsBye(n, r - 1, v) THEN D!DrawnSeeds(n, r - 1, v)[1] ELSE None>>
    BY <1>1, <2>4, <2>7, LaterRounds
  <2>11. b[x].seeds = D!DrawnSeeds(n, r - 1, u) /\ b[x].bye = D!IsBye(n, r - 1, u)
    <3>1. x \in DOMAIN b /\ b[x] = DrawnMatch(n, t, courts, r - 1, u)
      BY <1>1, <2>4, <2>7, <2>9, BracketMatch
    <3> QED
      BY <3>1 DEF DrawnMatch
  <2>12. b[y].seeds = D!DrawnSeeds(n, r - 1, v) /\ b[y].bye = D!IsBye(n, r - 1, v)
    <3>1. y \in DOMAIN b /\ b[y] = DrawnMatch(n, t, courts, r - 1, v)
      BY <1>1, <2>4, <2>7, <2>9, BracketMatch
    <3> QED
      BY <3>1 DEF DrawnMatch
  <2>13. b[pos].seeds = <<Brought(x), Brought(y)>>
    BY <2>3, <2>10, <2>11, <2>12
  <2>14. D!Feeders(b, pos, 1) = {x}
    <3>1. 1 \in {1, 2}
      OBVIOUS
    <3> QED
      BY <1>1, <2>2, <2>4, <2>7, <2>8, <3>1, FeedersOfPlace
  <2>15. D!Feeders(b, pos, 2) = {y}
    <3>1. 2 \in {1, 2}
      OBVIOUS
    <3> QED
      BY <1>1, <2>2, <2>4, <2>7, <2>8, <3>1, FeedersOfPlace
  <2>16. x \in D!RoundOf(b, r - 1) /\ y \in D!RoundOf(b, r - 1)
    <3>1. D!RoundOf(b, r - 1) = {D!Position(t, r - 1, j) : j \in 1..D!Pow2[t - (r - 1)]}
      BY <1>1, <2>4, RoundsOfBracket
    <3> QED
      BY <2>7, <2>9, <3>1
  <2>17. D!BestOf(b)[x] = D!SeedPlacement[k + 1][u] /\ D!BestOf(b)[y] = D!SeedPlacement[k + 1][v]
    <3>1. D!BestOf(b)[x] = D!SeedPlacement[t - (r - 1)][u]
      BY <1>1, <2>4, <2>7, <2>9, BestOfMatch
    <3>2. D!BestOf(b)[y] = D!SeedPlacement[t - (r - 1)][v]
      BY <1>1, <2>4, <2>7, <2>9, BestOfMatch
    <3> QED
      BY <2>5, <3>1, <3>2
  <2>18. D!Cardinality(D!RoundOf(b, r)) = c
    BY <1>1, <2>5, <2>6, RoundsOfBracket
  <2>19. PICK s : s = D!SeedPlacement[k][i]
    OBVIOUS
  <2>20. s \in 1..c /\ D!SeedPlacement[k + 1][u] = s /\ D!SeedPlacement[k + 1][v] = 2 * c + 1 - s
    <3>1. s \in 1..c
      BY <2>6, <2>8, <2>19, PlacementsPermute
    <3>2. D!SeedPlacement[k + 1][u] = s
      BY <2>6, <2>7, <2>8, <2>19, PlacementPairs
    <3>3. D!SeedPlacement[k + 1][v] = 2 * c + 1 - s
      BY <2>6, <2>7, <2>8, <2>19, PlacementPairs
    <3> QED
      BY <3>1, <3>2, <3>3
  <2>21. D!BestOf(b)[x] + D!BestOf(b)[y] = 2 * D!Cardinality(D!RoundOf(b, r)) + 1
    BY <2>17, <2>18, <2>20
  <2> QED
    BY <2>3, <2>13, <2>14, <2>15, <2>16, <2>21
<1>13. 2 * a >= n /\ 2 * a < 2 * n
  BY <1>2, <1>3
<1> HIDE DEF Second
<1>14. D!FairBracket(n, b)
  BY <1>5, <1>10, <1>11, <1>12, <1>13 DEF D!FairBracket
<1> QED
  BY <1>1, <1>14

-----------------------------------------------------------------------------
(* The start times of the bracket. *)

\* What comes before another match of the round is one more, if it is played.
LEMMA PlayedGrows ==
  ASSUME NEW n, NEW r, NEW i \in Nat, NEW j \in Nat
  PROVE  /\ D!PlayedBefore(n, r, i) \in Nat
         /\ 1 <= i /\ i < j /\ ~D!IsBye(n, r, i) => D!PlayedBefore(n, r, i) < D!PlayedBefore(n, r, j)
<1> DEFINE Played(x) == {k \in 1..(x - 1) : ~D!IsBye(n, r, k)}
<1>1. ASSUME NEW x \in Nat
      PROVE  IsFiniteSet(Played(x)) /\ Cardinality(Played(x)) \in Nat /\ D!PlayedBefore(n, r, x) = Cardinality(Played(x))
  <2>1. IsFiniteSet(1..(x - 1))
    <3>1. x - 1 \in Int
      OBVIOUS
    <3> QED
      BY <3>1, FS_Interval
  <2>2. Played(x) \subseteq 1..(x - 1)
    OBVIOUS
  <2>3. IsFiniteSet(Played(x))
    <3> HIDE DEF Played
    <3> QED
      BY <2>1, <2>2, FS_Subset
  <2>4. Cardinality(Played(x)) \in Nat
    <3> HIDE DEF Played
    <3> QED
      BY <2>3, FS_CardinalityType
  <2>5. D!PlayedBefore(n, r, x) = Cardinality(Played(x))
    BY DrawCardinality DEF D!PlayedBefore
  <2> QED
    BY <2>3, <2>4, <2>5
<1>2. ASSUME 1 <= i, i < j, ~D!IsBye(n, r, i)
      PROVE  Cardinality(Played(i)) < Cardinality(Played(j))
  <2>1. i \notin Played(i) /\ Played(i) \cup {i} \subseteq Played(j)
    BY <1>2
  <2>2. IsFiniteSet(Played(i)) /\ IsFiniteSet(Played(j))
    BY <1>1
  <2>3. Cardinality(Played(i)) \in Nat /\ Cardinality(Played(j)) \in Nat
    BY <1>1
  <2> HIDE DEF Played
  <2>4. IsFiniteSet(Played(i) \cup {i}) /\ Cardinality(Played(i) \cup {i}) = Cardinality(Played(i)) + 1
    BY <2>1, <2>2, FS_AddElement
  <2>5. Cardinality(Played(i) \cup {i}) <= Cardinality(Played(j))
    BY <2>1, <2>2, FS_Subset
  <2> QED
    BY <2>3, <2>4, <2>5
<1> HIDE DEF Played
<1> QED
  BY <1>1, <1>2

\* A quotient is below the quotient, rounded up, of more.
LEMMA QuotientBelow ==
  ASSUME NEW c \in Nat \ {0}, NEW p \in Nat, NEW m \in Nat
  PROVE  /\ D!CeilDiv(m, c) \in Nat /\ p \div c \in Nat /\ p % c \in 0..(c - 1) /\ p = c * (p \div c) + (p % c)
         /\ p < m => p \div c < D!CeilDiv(m, c)
<1>1. PICK q, s : q = p \div c /\ s = p % c
  OBVIOUS
<1>2. q \in Nat /\ s \in 0..(c - 1) /\ p = c * q + s
  BY <1>1
<1>3. PICK x \in Nat : x = m + c - 1
  OBVIOUS
<1>4. PICK Q, R : Q = x \div c /\ R = x % c
  OBVIOUS
<1>5. Q \in Nat /\ R \in 0..(c - 1) /\ x = c * Q + R
  BY <1>3, <1>4
<1>6. D!CeilDiv(m, c) = Q
  BY <1>3, <1>4 DEF D!CeilDiv
<1>7. ASSUME p < m PROVE q < Q
  <2> SUFFICES ASSUME ~(q < Q) PROVE FALSE
    OBVIOUS
  <2>1. PICK d \in Nat : q = Q + d
    <3>1. q - Q \in Nat /\ q = Q + (q - Q)
      BY <1>2, <1>5
    <3> QED
      BY <3>1
  <2>2. c * q = c * Q + c * d /\ c * d \in Nat /\ c * Q \in Nat
    BY <1>5, <2>1
  <2> QED
    BY <1>2, <1>3, <1>5, <1>7, <2>2
<1> QED
  BY <1>1, <1>2, <1>5, <1>6, <1>7

\* The first slot of a round is as many after that of the round before as the
\* matches played in that take.
LEMMA FloorsRise ==
  ASSUME NEW n \in Nat, n >= 2, NEW t, t = D!RoundsFor(n), NEW courts \in Nat \ {0}
  PROVE  /\ \A r \in 1..t : D!PlayedIn(n, r) \in Nat /\ D!RoundFloor(n, r, courts) \in Nat
         /\ \A r \in 1..t : r # t =>
              D!RoundFloor(n, r + 1, courts) = D!RoundFloor(n, r, courts) + D!CeilDiv(D!PlayedIn(n, r), courts)
<1>1. t \in Nat \ {0}
  BY RoundsHold
<1> DEFINE Take(q) == D!CeilDiv(D!PlayedIn(n, q), courts)
           g == [k \in Nat |-> [x \in Nat |-> IF k + 1 \in 1..t THEN x + Take(k + 1) ELSE x]]
           Body(f, r) == [q \in 1..r |-> IF q = 1 THEN 0 ELSE f[q - 1] + Take(q - 1)]
<1>2. ASSUME NEW r \in 1..t
      PROVE  D!PlayedIn(n, r) \in Nat
  <2>1. PICK x \in Nat : x = 1 + D!Pow2[t - r]
    <3>1. t - r \in Nat
      BY <1>1
    <3>2. D!Pow2[t - r] \in Nat
      BY <3>1, PowersDouble
    <3> QED
      BY <3>2
  <2>2. D!PlayedBefore(n, r, x) \in Nat
    BY <2>1, PlayedGrows
  <2> QED
    BY <2>1, <2>2 DEF D!PlayedIn
<1>3. \A r \in 1..t : Take(r) \in Nat
  BY <1>2, QuotientBelow
<1> HIDE DEF Take
<1>4. g \in [Nat -> [Nat -> Nat]] /\ \A k, x \in Nat : g[k][x] = IF k + 1 \in 1..t THEN x + Take(k + 1) ELSE x
  BY <1>3
<1> HIDE DEF g
<1>5. PICK p : Continues(p, Nat, 0, g)
  <2>1. 0 \in Nat
    OBVIOUS
  <2> QED
    BY <1>4, <2>1, RecursionExists
<1>6. p \in [Nat -> Nat] /\ p[0] = 0 /\ \A k \in Nat : k + 1 \in 1..t => p[k + 1] = p[k] + Take(k + 1)
  BY <1>4, <1>5 DEF Continues
<1>7. ASSUME NEW r \in 1..t
      PROVE  D!RoundFloor(n, r, courts) = p[r - 1]
  <2> DEFINE h == [q \in 1..r |-> p[q - 1]]
  <2>1. r \in Nat /\ r >= 1 /\ r <= t
    BY <1>1
  <2>2. h = Body(h, r)
    <3>1. ASSUME NEW q \in 1..r
          PROVE  p[q - 1] = IF q = 1 THEN 0 ELSE h[q - 1] + Take(q - 1)
      <4>1. CASE q = 1
        BY <1>6, <4>1
      <4>2. CASE q # 1
        <5>1. PICK k \in Nat : k = q - 2 /\ q - 1 = k + 1 /\ k + 1 \in 1..t /\ k + 1 \in 1..r /\ k = k + 1 - 1
          BY <1>1, <2>1, <4>2
        <5>2. h[k + 1] = p[k]
          BY <5>1
        <5>3. p[k + 1] = p[k] + Take(k + 1)
          BY <1>6, <5>1
        <5> HIDE DEF h
        <5> QED
          BY <4>2, <5>1, <5>2, <5>3
      <4> QED
        BY <4>1, <4>2
    <3>2. h = [q \in 1..r |-> p[q - 1]]
      OBVIOUS
    <3> HIDE DEF h
    <3> QED
      BY <3>1, <3>2
  <2>3. ASSUME NEW f, f = Body(f, r)
        PROVE  f = h
    <3> DEFINE Same == {k \in Nat : k + 1 <= r => f[k + 1] = h[k + 1]}
    <3> HIDE DEF h
    <3>1. 0 \in Same
      <4>1. 1 \in 1..r
        BY <2>1
      <4>2. f[1] = Body(f, r)[1]
        BY <2>3
      <4>3. h[1] = Body(h, r)[1]
        BY <2>2
      <4> QED
        BY <4>1, <4>2, <4>3
    <3>2. ASSUME NEW k \in Nat, k \in Same PROVE k + 1 \in Same
      <4> SUFFICES ASSUME k + 1 + 1 <= r PROVE f[k + 1 + 1] = h[k + 1 + 1]
        OBVIOUS
      <4>1. PICK q : q = k + 1 + 1
        OBVIOUS
      <4>2. q \in 1..r /\ q # 1 /\ q - 1 = k + 1 /\ k + 1 <= r
        BY <2>1, <4>1
      <4>3. f[q] = f[k + 1] + Take(k + 1)
        <5>1. f[q] = Body(f, r)[q]
          BY <2>3
        <5> QED
          BY <4>2, <5>1
      <4>4. h[q] = h[k + 1] + Take(k + 1)
        <5>1. h[q] = Body(h, r)[q]
          BY <2>2
        <5> QED
          BY <4>2, <5>1
      <4>5. f[k + 1] = h[k + 1]
        BY <3>2, <4>2
      <4> QED
        BY <4>1, <4>3, <4>4, <4>5
    <3>3. Nat \subseteq Same
      <4> HIDE DEF Same
      <4> QED
        BY <3>1, <3>2, NumberInduction
    <3>4. f = [q \in 1..r |-> f[q]]
      BY <2>3
    <3>5. h = [q \in 1..r |-> h[q]]
      BY DEF h
    <3>6. ASSUME NEW q \in 1..r PROVE f[q] = h[q]
      <4>1. PICK k \in Nat : q = k + 1 /\ k + 1 <= r
        <5>1. q - 1 \in Nat /\ q = q - 1 + 1 /\ q - 1 + 1 <= r
          BY <2>1
        <5> QED
          BY <5>1
      <4>2. k \in Same
        BY <3>3
      <4> QED
        BY <4>1, <4>2
    <3> QED
      BY <3>4, <3>5, <3>6
  <2>4. (CHOOSE f : f = Body(f, r)) = h
    <3> HIDE DEF h
    <3> QED
      BY <2>2, <2>3
  <2>5. D!RoundFloor(n, r, courts) = (CHOOSE f : f = Body(f, r))[r]
    BY DEF D!RoundFloor, Take
  <2>6. h[r] = p[r - 1]
    BY <2>1
  <2> HIDE DEF h
  <2> QED
    BY <2>4, <2>5, <2>6
<1>8. ASSUME NEW r \in 1..t
      PROVE  D!RoundFloor(n, r, courts) \in Nat
  <2>1. r - 1 \in Nat
    BY <1>1
  <2> QED
    BY <1>6, <1>7, <2>1
<1>9. ASSUME NEW r \in 1..t, r # t
      PROVE  D!RoundFloor(n, r + 1, courts) = D!RoundFloor(n, r, courts) + D!CeilDiv(D!PlayedIn(n, r), courts)
  <2>1. PICK k \in Nat : k = r - 1 /\ r = k + 1 /\ r + 1 - 1 = k + 1 /\ r + 1 \in 1..t /\ k + 1 \in 1..t
    BY <1>1, <1>9
  <2>2. D!RoundFloor(n, r + 1, courts) = p[k + 1]
    BY <1>7, <2>1
  <2>3. D!RoundFloor(n, r, courts) = p[k]
    BY <1>7, <2>1
  <2>4. p[k + 1] = p[k] + Take(k + 1)
    BY <1>6, <2>1
  <2> QED
    BY <2>1, <2>2, <2>3, <2>4 DEF Take
<1> QED
  BY <1>2, <1>8, <1>9

\* The slots of a round come before those of the next.
LEMMA SlotsOfRounds ==
  ASSUME NEW n \in Nat, n >= 2, NEW t, t = D!RoundsFor(n), NEW courts \in Nat \ {0},
         NEW r \in 1..t, NEW i \in 1..D!Pow2[t - r], ~D!IsBye(n, r, i), NEW due, due = D!BracketSlot(n, r, i, courts)
  PROVE  /\ due \in Nat
         /\ due = D!RoundFloor(n, r, courts) + (D!PlayedBefore(n, r, i) \div courts)
         /\ D!BracketCourt(n, r, i, courts) = 1 + (D!PlayedBefore(n, r, i) % courts)
         /\ D!BracketCourt(n, r, i, courts) \in 1..courts
         /\ D!PlayedBefore(n, r, i) \in Nat
         /\ \A s \in 1..t : r < s => due < D!RoundFloor(n, s, courts)
<1>1. t \in Nat \ {0}
  BY RoundsHold
<1>2. PICK a \in Nat : a = D!Pow2[t - r]
  <2>1. t - r \in Nat
    BY <1>1
  <2> QED
    BY <2>1, PowersDouble
<1>3. i \in Nat /\ 1 <= i /\ i < 1 + a /\ 1 + a \in Nat
  BY <1>2
<1>4. PICK p : p = D!PlayedBefore(n, r, i)
  OBVIOUS
<1>5. p \in Nat /\ p < D!PlayedBefore(n, r, 1 + a)
  BY <1>3, <1>4, PlayedGrows
<1>6. p < D!PlayedIn(n, r)
  BY <1>2, <1>5 DEF D!PlayedIn
<1>7. D!PlayedIn(n, r) \in Nat /\ D!RoundFloor(n, r, courts) \in Nat
  BY FloorsRise
<1>8. /\ p \div courts \in Nat /\ p % courts \in 0..(courts - 1)
      /\ D!CeilDiv(D!PlayedIn(n, r), courts) \in Nat
      /\ p \div courts < D!CeilDiv(D!PlayedIn(n, r), courts)
  BY <1>5, <1>6, <1>7, QuotientBelow
<1>9. due = D!RoundFloor(n, r, courts) + (p \div courts)
  BY <1>4 DEF D!BracketSlot
<1>10. D!BracketCourt(n, r, i, courts) = 1 + (p % courts)
  <2>1. PICK q : q = 1 + p
    OBVIOUS
  <2>2. D!BracketCourt(n, r, i, courts) = D!CourtOf(q, courts)
    BY <1>4, <2>1 DEF D!BracketCourt
  <2>3. D!CourtOf(q, courts) = 1 + ((q - 1) % courts)
    BY DEF D!CourtOf
  <2>4. q - 1 = p
    BY <1>5, <2>1
  <2> QED
    BY <2>2, <2>3, <2>4
<1>11. 1 + (p % courts) \in 1..courts
  BY <1>8
<1> DEFINE Later == {d \in Nat : r + 1 + d <= t => due < D!RoundFloor(n, r + 1 + d, courts)}
<1>12. Nat \subseteq Later
  <2>1. 0 \in Later
    <3> SUFFICES ASSUME r + 1 + 0 <= t PROVE due < D!RoundFloor(n, r + 1 + 0, courts)
      OBVIOUS
    <3>1. r + 1 + 0 = r + 1 /\ r # t
      BY <1>1
    <3>2. D!RoundFloor(n, r + 1, courts) = D!RoundFloor(n, r, courts) + D!CeilDiv(D!PlayedIn(n, r), courts)
      BY <3>1, FloorsRise
    <3>3. due < D!RoundFloor(n, r + 1, courts)
      BY <1>7, <1>8, <1>9, <3>2
    <3> QED
      BY <3>1, <3>3
  <2>2. ASSUME NEW d \in Nat, d \in Later PROVE d + 1 \in Later
    <3> SUFFICES ASSUME r + 1 + (d + 1) <= t PROVE due < D!RoundFloor(n, r + 1 + (d + 1), courts)
      OBVIOUS
    <3>1. PICK q : q = r + 1 + d
      OBVIOUS
    <3>2. q \in 1..t /\ q # t /\ q + 1 = r + 1 + (d + 1) /\ r + 1 + d <= t
      BY <1>1, <3>1
    <3>3. due < D!RoundFloor(n, q, courts)
      BY <2>2, <3>1, <3>2
    <3>4. D!RoundFloor(n, q + 1, courts) = D!RoundFloor(n, q, courts) + D!CeilDiv(D!PlayedIn(n, q), courts)
      BY <3>2, FloorsRise
    <3>5. D!RoundFloor(n, q, courts) \in Nat /\ D!PlayedIn(n, q) \in Nat
      BY <3>2, FloorsRise
    <3>6. D!CeilDiv(D!PlayedIn(n, q), courts) \in Nat
      <4>1. 0 \in Nat
        OBVIOUS
      <4> QED
        BY <3>5, <4>1, QuotientBelow
    <3>7. due \in Nat
      BY <1>7, <1>8, <1>9
    <3>8. due < D!RoundFloor(n, q + 1, courts)
      BY <3>3, <3>4, <3>5, <3>6, <3>7
    <3> QED
      BY <3>2, <3>8
  <2> HIDE DEF Later
  <2> QED
    BY <2>1, <2>2, NumberInduction
<1>13. ASSUME NEW s \in 1..t, r < s PROVE due < D!RoundFloor(n, s, courts)
  <2>1. PICK d \in Nat : s = r + 1 + d
    <3>1. s - r - 1 \in Nat /\ s = r + 1 + (s - r - 1)
      BY <1>1, <1>13
    <3> QED
      BY <3>1
  <2>2. s <= t /\ d \in Later
    BY <1>1, <1>12
  <2> QED
    BY <2>1, <2>2
<1> HIDE DEF Later
<1>14. due \in Nat
  BY <1>7, <1>8, <1>9
<1> QED
  BY <1>4, <1>5, <1>9, <1>10, <1>11, <1>13, <1>14

\* For every number of seeds and courts, a court has one bracket match at a
\* time, and a match starts after those that feed it (the round floor of
\* drawBracket).
THEOREM BracketsArePlayedInOrder ==
  ASSUME None \notin Nat, NEW n \in Nat, n >= 2, NEW courts \in Nat \ {0}
  PROVE  D!PlayedInOrder(D!DrawBracket(n, courts), courts)
<1>1. PICK b, t : b = D!DrawBracket(n, courts) /\ t = D!RoundsFor(n)
  OBVIOUS
<1>2. t \in Nat \ {0}
  BY <1>1, RoundsHold
<1>3. ASSUME NEW r \in 1..t, NEW i \in 1..D!Pow2[t - r], NEW pos, pos = D!Position(t, r, i), ~b[pos].bye
      PROVE  /\ ~D!IsBye(n, r, i)
             /\ b[pos].time = D!BracketSlot(n, r, i, courts)
             /\ b[pos].court = D!BracketCourt(n, r, i, courts)
             /\ b[pos].next = IF r = t THEN None ELSE D!Position(t, r + 1, (i + 1) \div 2)
  <2>1. b[pos] = DrawnMatch(n, t, courts, r, i)
    BY <1>1, <1>3, BracketMatch
  <2>2. b[pos].bye = D!IsBye(n, r, i)
    BY <2>1 DEF DrawnMatch
  <2>3. b[pos].time = IF D!IsBye(n, r, i) THEN 0 ELSE D!BracketSlot(n, r, i, courts)
    BY <2>1 DEF DrawnMatch
  <2>4. b[pos].court = D!BracketCourt(n, r, i, courts)
    BY <2>1 DEF DrawnMatch
  <2>5. b[pos].next = IF r = t THEN None ELSE D!Position(t, r + 1, (i + 1) \div 2)
    BY <2>1 DEF DrawnMatch
  <2> QED
    BY <1>3, <2>2, <2>3, <2>4, <2>5
<1>4. ASSUME NEW r \in 1..t, NEW i \in 1..D!Pow2[t - r], NEW s \in 1..t, NEW j \in 1..D!Pow2[t - s],
             ~D!IsBye(n, r, i), ~D!IsBye(n, s, j), r < s
      PROVE  D!BracketSlot(n, r, i, courts) < D!BracketSlot(n, s, j, courts)
  <2>1. PICK x, y : x = D!BracketSlot(n, r, i, courts) /\ y = D!BracketSlot(n, s, j, courts)
    OBVIOUS
  <2>2. PICK p : p = D!PlayedBefore(n, s, j)
    OBVIOUS
  <2>3. x \in Nat /\ x < D!RoundFloor(n, s, courts)
    BY <1>1, <1>4, <2>1, SlotsOfRounds
  <2>4. y \in Nat /\ p \in Nat /\ y = D!RoundFloor(n, s, courts) + (p \div courts)
    BY <1>1, <1>4, <2>1, <2>2, SlotsOfRounds
  <2>5. D!RoundFloor(n, s, courts) \in Nat
    BY <1>1, FloorsRise
  <2>6. p \div courts \in Nat
    BY <2>4
  <2>7. x < y
    BY <2>3, <2>4, <2>5, <2>6
  <2> QED
    BY <2>1, <2>7
<1>5. ASSUME NEW r \in 1..t, NEW i \in 1..D!Pow2[t - r], NEW j \in 1..D!Pow2[t - r],
             ~D!IsBye(n, r, i), ~D!IsBye(n, r, j), i # j,
             D!BracketCourt(n, r, i, courts) = D!BracketCourt(n, r, j, courts)
      PROVE  D!BracketSlot(n, r, i, courts) # D!BracketSlot(n, r, j, courts)
  <2> SUFFICES ASSUME D!BracketSlot(n, r, i, courts) = D!BracketSlot(n, r, j, courts) PROVE FALSE
    OBVIOUS
  <2>1. PICK p, q : p = D!PlayedBefore(n, r, i) /\ q = D!PlayedBefore(n, r, j)
    OBVIOUS
  <2>2. /\ p \in Nat
        /\ D!BracketSlot(n, r, i, courts) = D!RoundFloor(n, r, courts) + (p \div courts)
        /\ D!BracketCourt(n, r, i, courts) = 1 + (p % courts)
    BY <1>1, <1>5, <2>1, SlotsOfRounds
  <2>3. /\ q \in Nat
        /\ D!BracketSlot(n, r, j, courts) = D!RoundFloor(n, r, courts) + (q \div courts)
        /\ D!BracketCourt(n, r, j, courts) = 1 + (q % courts)
    BY <1>1, <1>5, <2>1, SlotsOfRounds
  <2>4. D!RoundFloor(n, r, courts) \in Nat
    BY <1>1, FloorsRise
  <2>5. /\ p \div courts \in Nat /\ p % courts \in 0..(courts - 1) /\ p = courts * (p \div courts) + (p % courts)
        /\ q \div courts \in Nat /\ q % courts \in 0..(courts - 1) /\ q = courts * (q \div courts) + (q % courts)
    BY <2>2, <2>3, QuotientBelow
  <2>6. PICK u, v, x, y : u = p \div courts /\ v = p % courts /\ x = q \div courts /\ y = q % courts
    OBVIOUS
  <2>7. D!RoundFloor(n, r, courts) + u = D!RoundFloor(n, r, courts) + x /\ 1 + v = 1 + y
    BY <1>5, <2>2, <2>3, <2>6
  <2>8. u \in Nat /\ x \in Nat /\ v \in Nat /\ y \in Nat /\ p = courts * u + v /\ q = courts * x + y
    BY <2>5, <2>6
  <2>9. u = x /\ v = y
    BY <2>4, <2>7, <2>8
  <2>10. p = q
    BY <2>8, <2>9
  <2>11. i \in Nat /\ j \in Nat /\ 1 <= i /\ 1 <= j
    <3>1. t - r \in Nat
      BY <1>2
    <3>2. D!Pow2[t - r] \in Nat
      BY <3>1, PowersDouble
    <3> QED
      BY <3>2
  <2>12. ~(i < j)
    <3>1. i < j => p < q
      BY <1>5, <2>1, <2>11, PlayedGrows
    <3> QED
      BY <2>2, <2>10, <3>1
  <2>13. ~(j < i)
    <3>1. j < i => q < p
      BY <1>5, <2>1, <2>11, PlayedGrows
    <3> QED
      BY <2>2, <2>10, <3>1
  <2> QED
    BY <1>5, <2>11, <2>12, <2>13
<1>6. ASSUME NEW x \in DOMAIN b, NEW y \in DOMAIN b, ~b[x].bye, ~b[y].bye, x # y
      PROVE  /\ b[x].court \in 1..courts
             /\ b[x].court = b[y].court => b[x].time # b[y].time
             /\ b[x].next = y => b[x].time < b[y].time
  <2>1. PICK r \in 1..t : \E i \in 1..D!Pow2[t - r] : x = D!Position(t, r, i)
    BY <1>1, RoundsOfBracket
  <2>2. PICK i \in 1..D!Pow2[t - r] : x = D!Position(t, r, i)
    BY <2>1
  <2>3. PICK s \in 1..t : \E j \in 1..D!Pow2[t - s] : y = D!Position(t, s, j)
    BY <1>1, RoundsOfBracket
  <2>4. PICK j \in 1..D!Pow2[t - s] : y = D!Position(t, s, j)
    BY <2>3
  <2>5. /\ ~D!IsBye(n, r, i)
        /\ b[x].time = D!BracketSlot(n, r, i, courts)
        /\ b[x].court = D!BracketCourt(n, r, i, courts)
        /\ b[x].next = IF r = t THEN None ELSE D!Position(t, r + 1, (i + 1) \div 2)
    BY <1>3, <1>6, <2>2
  <2>6. /\ ~D!IsBye(n, s, j)
        /\ b[y].time = D!BracketSlot(n, s, j, courts)
        /\ b[y].court = D!BracketCourt(n, s, j, courts)
    BY <1>3, <1>6, <2>4
  <2>7. b[x].time \in Nat /\ b[x].court \in 1..courts
    <3>1. D!BracketSlot(n, r, i, courts) \in Nat
      BY <1>1, <2>5, SlotsOfRounds
    <3>2. D!BracketCourt(n, r, i, courts) \in 1..courts
      BY <1>1, <2>5, SlotsOfRounds
    <3> QED
      BY <2>5, <3>1, <3>2
  <2>8. b[y].time \in Nat
    <3>1. D!BracketSlot(n, s, j, courts) \in Nat
      BY <1>1, <2>6, SlotsOfRounds
    <3> QED
      BY <2>6, <3>1
  <2>9. r < s => b[x].time < b[y].time
    BY <1>4, <2>5, <2>6
  <2>10. s < r => b[y].time < b[x].time
    BY <1>4, <2>5, <2>6
  <2>11. r = s /\ b[x].court = b[y].court => b[x].time # b[y].time
    <3> SUFFICES ASSUME r = s, b[x].court = b[y].court PROVE b[x].time # b[y].time
      OBVIOUS
    <3>1. i # j
      BY <1>6, <2>2, <2>4
    <3>2. j \in 1..D!Pow2[t - r] /\ ~D!IsBye(n, r, j) /\ D!BracketCourt(n, r, i, courts) = D!BracketCourt(n, r, j, courts)
      BY <2>5, <2>6
    <3>3. D!BracketSlot(n, r, i, courts) # D!BracketSlot(n, r, j, courts)
      BY <1>5, <2>5, <3>1, <3>2
    <3> QED
      BY <2>5, <2>6, <3>3
  <2>12. b[x].next = y => r < s
    <3> SUFFICES ASSUME b[x].next = y PROVE r < s
      OBVIOUS
    <3>1. y # None
      <4>1. DOMAIN b = 1..(D!Pow2[t] - 1)
        BY <1>1, RoundsOfBracket
      <4>2. y \in Nat
        BY <4>1
      <4> QED
        BY <4>2
    <3>2. r # t
      BY <2>5, <3>1
    <3>3. PICK l : l = (i + 1) \div 2
      OBVIOUS
    <3>4. r + 1 \in 1..t /\ l \in 1..D!Pow2[t - (r + 1)]
      BY <1>2, <3>2, <3>3, NextPlace
    <3>5. D!Position(t, r + 1, l) = D!Position(t, s, j)
      BY <2>4, <2>5, <3>2, <3>3
    <3>6. r + 1 = s
      BY <1>2, <3>4, <3>5, PositionsDiffer
    <3> QED
      BY <1>2, <3>6
  <2>13. r \in Nat /\ s \in Nat
    BY <1>2
  <2> QED
    BY <2>7, <2>8, <2>9, <2>10, <2>11, <2>12, <2>13
<1>7. D!PlayedInOrder(b, courts)
  BY <1>6 DEF D!PlayedInOrder
<1> QED
  BY <1>1, <1>7

-----------------------------------------------------------------------------
(* The draw of the tournament. *)

\* The places of the matches of the bracket.
LEMMA BracketPlaces ==
  ASSUME NEW t, t = D!RoundsFor(Advancing)
  PROVE  /\ t \in Nat \ {0}
         /\ BracketMatches = {<<0, pos>> : pos \in 1..(D!Pow2[t] - 1)}
         /\ \A m \in BracketMatches : \E r \in 1..t : \E i \in 1..D!Pow2[t - r] :
              m = <<0, D!Position(t, r, i)>>
<1>1. Advancing \in Nat /\ Advancing >= 2 /\ Bracket = D!DrawBracket(Advancing, 1)
  BY LineAssumption, DrawAssumption
<1>2. t \in Nat \ {0}
  BY <1>1, RoundsHold
<1>3. DOMAIN Bracket = 1..(D!Pow2[t] - 1)
  BY <1>1 DEF D!DrawBracket
<1>4. BracketMatches = {<<0, pos>> : pos \in 1..(D!Pow2[t] - 1)}
  BY <1>3 DEF BracketMatches
<1>5. ASSUME NEW m \in BracketMatches
      PROVE  \E r \in 1..t : \E i \in 1..D!Pow2[t - r] : m = <<0, D!Position(t, r, i)>>
  <2>1. PICK pos \in 1..(D!Pow2[t] - 1) : m = <<0, pos>>
    BY <1>4
  <2>2. \E r \in 1..t : \E i \in 1..D!Pow2[t - r] : pos = D!Position(t, r, i)
    BY <1>2, PositionsCover
  <2> QED
    BY <2>1, <2>2
<1> QED
  BY <1>2, <1>4, <1>5

\* What a match of the bracket is drawn with, and where its winner goes.
LEMMA MatchInBracket ==
  ASSUME NEW t, t = D!RoundsFor(Advancing),
         NEW r \in 1..t, NEW i \in 1..D!Pow2[t - r], NEW m, m = <<0, D!Position(t, r, i)>>
  PROVE  /\ m \in BracketMatches
         /\ IsBye(m) = D!IsBye(Advancing, r, i)
         /\ \A side : SeedOf(m, side) = D!DrawnSeeds(Advancing, r, i)[side]
         /\ r = t => NextOf(m) = None
         /\ NextOf(m) # None => NextOf(m) = [match |-> <<0, D!Position(t, r + 1, (i + 1) \div 2)>>,
                                             side |-> 2 - (i % 2)]
<1>1. Advancing \in Nat /\ Advancing >= 2 /\ Bracket = D!DrawBracket(Advancing, 1)
  BY LineAssumption, DrawAssumption
<1>2. PICK pos : pos = D!Position(t, r, i)
  OBVIOUS
<1>3. /\ pos \in DOMAIN Bracket
      /\ Bracket[pos].seeds = D!DrawnSeeds(Advancing, r, i)
      /\ Bracket[pos].bye = D!IsBye(Advancing, r, i)
      /\ Bracket[pos].next = IF r = t THEN None ELSE D!Position(t, r + 1, (i + 1) \div 2)
      /\ Bracket[pos].slot = IF r = t THEN None ELSE 2 - (i % 2)
  <2>1. pos \in DOMAIN Bracket /\ Bracket[pos] = DrawnMatch(Advancing, t, 1, r, i)
    BY <1>1, <1>2, BracketMatch
  <2> QED
    BY <2>1 DEF DrawnMatch
<1>4. m[2] = pos /\ m \in BracketMatches
  BY <1>2, <1>3 DEF BracketMatches
<1>5. IsBye(m) = D!IsBye(Advancing, r, i)
  BY <1>3, <1>4 DEF IsBye
<1>6. \A side : SeedOf(m, side) = D!DrawnSeeds(Advancing, r, i)[side]
  BY <1>3, <1>4 DEF SeedOf
<1>7. NextOf(m) = IF m \in PoolGames \/ Bracket[pos].next = None THEN None
                  ELSE [match |-> <<0, Bracket[pos].next>>, side |-> Bracket[pos].slot]
  BY <1>4 DEF NextOf
<1>8. r = t => NextOf(m) = None
  BY <1>3, <1>7
<1>9. NextOf(m) # None => NextOf(m) = [match |-> <<0, D!Position(t, r + 1, (i + 1) \div 2)>>,
                                       side |-> 2 - (i % 2)]
  BY <1>3, <1>7
<1> QED
  BY <1>4, <1>5, <1>6, <1>8, <1>9

\* The pools of a line of teams are of its teams.
LEMMA DealtAreOfTheLine ==
  ASSUME NEW T, NEW line \in Seq(T), NEW size \in Nat, D!Partitionable(Len(line), size),
         NEW pools, pools = D!PartitionIntoPools(line, size)
  PROVE  \A p \in DOMAIN pools : D!MembersOf(pools[p]) \subseteq T
<1>1. PICK n \in Nat : n = Len(line) /\ DOMAIN line = 1..n
  OBVIOUS
<1>2. PICK c \in Nat \ {0} : c = D!PoolCount(n, size)
  <2>1. D!Partitionable(n, size)
    BY <1>1
  <2> QED
    BY <2>1, PoolCountFits
<1>3. pools = [p \in 1..c |-> [k \in 1..PoolLen(n, c, p) |-> line[PlaceOf(p, k, c)]]]
  BY <1>1, <1>2, PoolsAreDealt
<1>4. ASSUME NEW p \in 1..c, NEW x \in D!MembersOf(pools[p])
      PROVE  x \in T
  <2>1. PICK m : m = PoolLen(n, c, p)
    OBVIOUS
  <2>2. {i \in 1..n : D!PoolOf(i, c) = p} = {PlaceOf(p, k, c) : k \in 1..m}
    BY <1>2, <2>1, PlacesOfPool
  <2>3. pools[p] = [k \in 1..m |-> line[PlaceOf(p, k, c)]]
    BY <1>3, <2>1
  <2>4. PICK k \in 1..m : x = line[PlaceOf(p, k, c)]
    BY <1>4, <2>3 DEF D!MembersOf
  <2>5. PlaceOf(p, k, c) \in 1..n
    BY <2>2
  <2> QED
    BY <1>1, <2>4, <2>5
<1> QED
  BY <1>3, <1>4

\* A match of the pools is named by its two teams, so it is none of the bracket.
LEMMA PoolGamesAreOfTeams ==
  /\ \A m \in PoolGames : m = <<m[1], m[2]>> /\ {m[1], m[2]} \subseteq Teams /\ None \notin {m[1], m[2]}
  /\ PoolGames \cap BracketMatches = {}
<1>1. Line \in Seq(Teams) /\ PoolSize \in Nat /\ D!Partitionable(Len(Line), PoolSize)
  BY LineAssumption
<1>2. \A i, j \in DOMAIN Line : Line[i] = Line[j] => i = j
  BY LineAssumption
<1>3. {None, 0} \cap Teams = {}
  BY LineAssumption
<1>4. \A i \in DOMAIN Line : Line[i] # None
  BY <1>3 DEF Teams
<1>5. PICK pools : pools = D!PartitionIntoPools(Line, PoolSize)
  OBVIOUS
<1>6. \A p \in DOMAIN pools : D!MembersOf(pools[p]) \subseteq Teams
  BY <1>1, <1>5, DealtAreOfTheLine
<1>7. PICK M : M = D!PoolMatches(Line, PoolSize, 1)
  OBVIOUS
<1>8. D!RoundRobin(pools, M)
  <2>1. 1 \in Nat \ {0}
    OBVIOUS
  <2> QED
    BY <1>1, <1>2, <1>4, <1>5, <1>7, <2>1, PoolsPlayRoundRobins
<1>9. \A m \in M : {m.a, m.b} \subseteq Teams
  BY <1>6, <1>8 DEF D!RoundRobin
<1>10. PoolGames = {<<m.a, m.b>> : m \in M}
  BY <1>7, DrawAssumption
<1>11. ASSUME NEW g \in PoolGames
       PROVE  g = <<g[1], g[2]>> /\ {g[1], g[2]} \subseteq Teams
  <2>1. PICK m \in M : g = <<m.a, m.b>>
    BY <1>10
  <2> QED
    BY <1>9, <2>1
<1>12. ASSUME NEW g \in PoolGames, g \in BracketMatches
       PROVE  FALSE
  <2>1. PICK pos : g = <<0, pos>>
    BY <1>12 DEF BracketMatches
  <2>2. g[1] = 0 /\ g[1] \in Teams
    BY <1>11, <2>1
  <2> QED
    BY <1>3, <2>2
<1> QED
  BY <1>3, <1>11, <1>12

\* The links of any bracket drawn are: its matches are numbered round by round,
\* and each pair of a round feeds the two sides of one match of the next
\* (drawBracket).
THEOREM BracketLinks == LinksFormABracket
<1>1. PICK t : t = D!RoundsFor(Advancing)
  OBVIOUS
<1>2. t \in Nat \ {0}
  BY <1>1, BracketPlaces
<1>3. ASSUME NEW m \in BracketMatches, NextOf(m) # None
      PROVE  /\ NextOf(m).match \in BracketMatches \ {m}
             /\ NextOf(m).side \in Sides
             /\ ~IsBye(NextOf(m).match)
             /\ SeedOf(NextOf(m).match, NextOf(m).side) = IF IsBye(m) THEN SeedOf(m, 1) ELSE None
  <2>1. PICK r \in 1..t : \E i \in 1..D!Pow2[t - r] : m = <<0, D!Position(t, r, i)>>
    BY <1>1, BracketPlaces
  <2>2. PICK i \in 1..D!Pow2[t - r] : m = <<0, D!Position(t, r, i)>>
    BY <2>1
  <2>3. r # t
    BY <1>1, <1>3, <2>2, MatchInBracket
  <2>4. PICK s, j, side : s = r + 1 /\ j = (i + 1) \div 2 /\ side = 2 - (i % 2)
    OBVIOUS
  <2>5. s \in 1..t /\ j \in 1..D!Pow2[t - s] /\ side \in {1, 2} /\ i = 2 * j - 2 + side
    BY <1>2, <2>3, <2>4, NextPlace
  <2>6. PICK next : next = <<0, D!Position(t, s, j)>>
    OBVIOUS
  <2>7. NextOf(m) = [match |-> next, side |-> side]
    BY <1>1, <1>3, <2>2, <2>4, <2>6, MatchInBracket
  <2>8. next \in BracketMatches /\ IsBye(next) = D!IsBye(Advancing, s, j)
    BY <1>1, <2>5, <2>6, MatchInBracket
  <2>9. \A x : SeedOf(next, x) = D!DrawnSeeds(Advancing, s, j)[x]
    BY <1>1, <2>5, <2>6, MatchInBracket
  <2>10. IsBye(m) = D!IsBye(Advancing, r, i) /\ \A x : SeedOf(m, x) = D!DrawnSeeds(Advancing, r, i)[x]
    BY <1>1, <2>2, MatchInBracket
  <2>11. s # 1 /\ r \in Nat /\ s = r + 1
    BY <2>4
  <2>12. ~IsBye(next)
    BY <2>8, <2>11 DEF D!IsBye
  <2>13. next # m
    <3> SUFFICES ASSUME next = m PROVE FALSE
      OBVIOUS
    <3>1. D!Position(t, s, j) = D!Position(t, r, i)
      BY <2>2, <2>6
    <3>2. s = r
      BY <1>2, <2>5, <3>1, PositionsDiffer
    <3> QED
      BY <2>11, <3>2
  <2>14. D!DrawnSeeds(Advancing, s, j)[side]
           = IF r = 1 /\ D!IsBye(Advancing, 1, i) THEN D!ByeSeed(Advancing, i) ELSE None
    <3>1. CASE side = 1
      <4>1. 2 * j - 1 = i
        BY <2>5, <3>1
      <4> QED
        BY <2>11, <3>1, <4>1 DEF D!DrawnSeeds
    <3>2. CASE side = 2
      <4>1. 2 * j = i
        BY <2>5, <3>2
      <4> QED
        BY <2>11, <3>2, <4>1 DEF D!DrawnSeeds
    <3> QED
      BY <2>5, <3>1, <3>2
  <2>15. D!IsBye(Advancing, r, i) => r = 1 /\ D!DrawnSeeds(Advancing, r, i)[1] = D!ByeSeed(Advancing, i)
    <3>1. D!IsBye(Advancing, r, i) => r = 1
      BY DEF D!IsBye
    <3>2. r = 1 /\ D!IsBye(Advancing, 1, i) => D!DrawnSeeds(Advancing, r, i)[1] = D!ByeSeed(Advancing, i)
      BY DEF D!DrawnSeeds
    <3> QED
      BY <3>1, <3>2
  <2>16. SeedOf(next, side) = IF IsBye(m) THEN SeedOf(m, 1) ELSE None
    BY <2>9, <2>10, <2>14, <2>15
  <2> QED
    BY <2>5, <2>7, <2>8, <2>12, <2>13, <2>16 DEF Sides
<1>4. ASSUME NEW f \in BracketMatches, NEW g \in BracketMatches, NextOf(f) # None, NextOf(g) # None,
             NextOf(f).match = NextOf(g).match, NextOf(f).side = NextOf(g).side
      PROVE  f = g
  <2>1. PICK r \in 1..t : \E i \in 1..D!Pow2[t - r] : f = <<0, D!Position(t, r, i)>>
    BY <1>1, BracketPlaces
  <2>2. PICK i \in 1..D!Pow2[t - r] : f = <<0, D!Position(t, r, i)>>
    BY <2>1
  <2>3. PICK s \in 1..t : \E j \in 1..D!Pow2[t - s] : g = <<0, D!Position(t, s, j)>>
    BY <1>1, BracketPlaces
  <2>4. PICK j \in 1..D!Pow2[t - s] : g = <<0, D!Position(t, s, j)>>
    BY <2>3
  <2>5. r # t /\ NextOf(f) = [match |-> <<0, D!Position(t, r + 1, (i + 1) \div 2)>>, side |-> 2 - (i % 2)]
    BY <1>1, <1>4, <2>2, MatchInBracket
  <2>6. s # t /\ NextOf(g) = [match |-> <<0, D!Position(t, s + 1, (j + 1) \div 2)>>, side |-> 2 - (j % 2)]
    BY <1>1, <1>4, <2>4, MatchInBracket
  <2>7. PICK x, y, u, v : x = (i + 1) \div 2 /\ y = (j + 1) \div 2 /\ u = 2 - (i % 2) /\ v = 2 - (j % 2)
    OBVIOUS
  <2>8. r + 1 \in 1..t /\ x \in 1..D!Pow2[t - (r + 1)] /\ i = 2 * x - 2 + u
    BY <1>2, <2>5, <2>7, NextPlace
  <2>9. s + 1 \in 1..t /\ y \in 1..D!Pow2[t - (s + 1)] /\ j = 2 * y - 2 + v
    BY <1>2, <2>6, <2>7, NextPlace
  <2>10. D!Position(t, r + 1, x) = D!Position(t, s + 1, y) /\ u = v
    BY <1>4, <2>5, <2>6, <2>7
  <2>11. r + 1 = s + 1 /\ x = y
    BY <1>2, <2>8, <2>9, <2>10, PositionsDiffer
  <2>12. r = s /\ i = j
    BY <2>8, <2>9, <2>10, <2>11
  <2> QED
    BY <2>2, <2>4, <2>12
<1>5. PoolGames \cap BracketMatches = {}
  BY PoolGamesAreOfTeams
<1> QED
  BY <1>3, <1>4, <1>5 DEF LinksFormABracket

-----------------------------------------------------------------------------
(* Sorting. *)

\* The cardinality of the standings is that of the finite sets.
LEMMA StandingsCardinality ==
  ASSUME NEW T
  PROVE  S!Cardinality(T) = Cardinality(T)
  BY DEF S!Cardinality, Cardinality

\* A list is what it lists.
LEMMA ListIs ==
  ASSUME NEW n \in Nat, NEW f, f = [i \in 1..n |-> f[i]]
  PROVE  SubSeq(f, 1, n) = f
<1> DEFINE g == [i \in 1..n |-> f[i]]
<1>1. g = f
  OBVIOUS
<1>2. g \in Seq({f[i] : i \in 1..n}) /\ Len(g) = n
  OBVIOUS
<1> HIDE DEF g
<1>3. SubSeq(g, 1, n) = g
  BY <1>2, SubSeqFull
<1> QED
  BY <1>1, <1>3

\* Who has as many before it as nobody else stands where the count says.
LEMMA CountsPlace ==
  ASSUME NEW T, IsFiniteSet(T), NEW c \in [T -> 0..(Cardinality(T) - 1)],
         \A x, y \in T : c[x] = c[y] => x = y
  PROVE  \A k \in 0..(Cardinality(T) - 1) : \E x \in T : c[x] = k
<1>1. PICK n \in Nat : n = Cardinality(T)
  BY FS_CardinalityType
<1>2. IsFiniteSet(0..(n - 1)) /\ Cardinality(0..(n - 1)) = n
  <2>1. 0 \in Int /\ n - 1 \in Int /\ (IF 0 > n - 1 THEN 0 ELSE n - 1 - 0 + 1) = n
    BY <1>1
  <2> QED
    BY <2>1, FS_Interval
<1>3. c \in Injection(T, 0..(n - 1))
  BY <1>1 DEF Injection, IsInjective
<1>4. c \in Surjection(T, 0..(n - 1))
  BY <1>1, <1>2, <1>3, FS_Injection
<1> QED
  BY <1>1, <1>4 DEF Surjection

\* A list of those who have as many before them as their place says is in order,
\* and there is one for every place.
LEMMA ListsAreInOrder ==
  ASSUME NEW T, IsFiniteSet(T), NEW R, TotalOrder(R, T)
  PROVE  /\ EveryPlaceTaken(T, R)
         /\ \A s : (\A i \in 1..Cardinality(T) : s[i] \in T /\ Cardinality({y \in T : <<y, s[i]>> \in R}) = i - 1)
                     /\ s = [i \in 1..Cardinality(T) |-> s[i]]
                   => InOrder(s, T, R)
<1>1. PICK n \in Nat : n = Cardinality(T)
  BY FS_CardinalityType
<1> DEFINE Before(x) == {y \in T : <<y, x>> \in R}
           c == [x \in T |-> Cardinality(Before(x))]
<1>2. ASSUME NEW x \in T
      PROVE  IsFiniteSet(Before(x)) /\ c[x] \in 0..(n - 1)
  <2>1. Before(x) \subseteq T /\ x \notin Before(x)
    BY DEF TotalOrder
  <2>2. IsFiniteSet(Before(x)) /\ Cardinality(Before(x)) \in Nat
    <3> HIDE DEF Before
    <3>1. IsFiniteSet(Before(x))
      BY <2>1, FS_Subset
    <3> QED
      BY <3>1, FS_CardinalityType
  <2>3. Cardinality(Before(x)) <= n /\ Cardinality(Before(x)) # n
    <3> HIDE DEF Before
    <3> QED
      BY <1>1, <2>1, FS_Subset
  <2> QED
    BY <1>1, <2>2, <2>3
<1>3. \A x \in T : c[x] = Cardinality(Before(x))
  OBVIOUS
<1> HIDE DEF c
<1>4. ASSUME NEW x \in T, NEW y \in T, <<x, y>> \in R
      PROVE  c[x] < c[y]
  <2>1. Before(x) \subseteq Before(y) /\ x \in Before(y) /\ x \notin Before(x)
    BY <1>4 DEF TotalOrder
  <2>2. IsFiniteSet(Before(y)) /\ c[x] = Cardinality(Before(x)) /\ c[y] = Cardinality(Before(y))
    BY <1>2, <1>3
  <2> HIDE DEF Before
  <2>3. c[x] \in Nat /\ c[y] \in Nat
    <3>1. c[x] \in 0..(n - 1) /\ c[y] \in 0..(n - 1)
      BY <1>2
    <3> QED
      BY <3>1
  <2>4. Cardinality(Before(x)) <= Cardinality(Before(y)) /\ Cardinality(Before(y)) # Cardinality(Before(x))
    BY <2>1, <2>2, FS_Subset
  <2> QED
    BY <2>2, <2>3, <2>4
<1>5. c \in [T -> 0..(n - 1)]
  BY <1>2 DEF c
<1> HIDE DEF Before
<1>6. ASSUME NEW x \in T, NEW y \in T, c[x] = c[y]
      PROVE  x = y
  <2> SUFFICES ASSUME x # y PROVE FALSE
    OBVIOUS
  <2>1. <<x, y>> \in R \/ <<y, x>> \in R
    BY DEF TotalOrder
  <2>2. c[x] \in Nat /\ c[y] \in Nat
    BY <1>5
  <2> QED
    BY <1>4, <1>6, <2>1, <2>2
<1>7. \A k \in 0..(n - 1) : \E x \in T : c[x] = k
  BY <1>1, <1>5, <1>6, CountsPlace
<1> SUFFICES /\ \A i \in 1..n : \E x \in T : Cardinality(Before(x)) = i - 1
             /\ \A s : (\A i \in 1..n : s[i] \in T /\ Cardinality(Before(s[i])) = i - 1)
                         /\ s = [i \in 1..n |-> s[i]]
                       => InOrder(s, T, R)
  BY <1>1 DEF Before, EveryPlaceTaken
<1>8. ASSUME NEW i \in 1..n
      PROVE  \E x \in T : Cardinality(Before(x)) = i - 1
  <2>1. i - 1 \in 0..(n - 1)
    OBVIOUS
  <2> QED
    BY <1>3, <1>7, <2>1
<1> SUFFICES ASSUME NEW s, s = [i \in 1..n |-> s[i]],
                    \A i \in 1..n : s[i] \in T /\ Cardinality(Before(s[i])) = i - 1
             PROVE  InOrder(s, T, R)
  BY <1>8
<1>9. ASSUME NEW i \in 1..n
      PROVE  s[i] \in T /\ c[s[i]] = i - 1
  BY <1>3
<1>10. s \in [1..n -> T]
  BY <1>9
<1>11. ASSUME NEW x \in T
       PROVE  \E i \in 1..n : s[i] = x
  <2>1. PICK k \in 0..(n - 1) : c[x] = k
    BY <1>5
  <2>2. k + 1 \in 1..n /\ (k + 1) - 1 = k
    OBVIOUS
  <2>3. s[k + 1] \in T /\ c[s[k + 1]] = k
    BY <1>9, <2>2
  <2>4. s[k + 1] = x
    BY <1>6, <2>1, <2>3
  <2> QED
    BY <2>2, <2>4
<1>12. ASSUME NEW i \in 1..n, NEW j \in 1..n, i < j
       PROVE  <<s[i], s[j]>> \in R
  <2>1. PICK x, y : x = s[i] /\ y = s[j]
    OBVIOUS
  <2>2. x \in T /\ y \in T /\ c[x] = i - 1 /\ c[y] = j - 1
    BY <1>9, <2>1
  <2>3. c[x] < c[y] /\ x # y
    BY <1>12, <2>2
  <2>4. <<x, y>> \in R \/ <<y, x>> \in R
    BY <2>2, <2>3 DEF TotalOrder
  <2>5. <<y, x>> \notin R
    <3> SUFFICES ASSUME <<y, x>> \in R PROVE FALSE
      OBVIOUS
    <3>1. c[y] < c[x]
      BY <1>4, <2>2
    <3> QED
      BY <1>12, <2>2, <3>1
  <2> QED
    BY <2>1, <2>4, <2>5
<1> QED
  BY <1>1, <1>10, <1>11, <1>12 DEF InOrder

\* Members of a list in order are at one place each.
LEMMA PlacesInOrder ==
  ASSUME NEW T, IsFiniteSet(T), NEW R, TotalOrder(R, T), NEW s, InOrder(s, T, R)
  PROVE  /\ Cardinality(T) \in Nat
         /\ \A i, j \in 1..Cardinality(T) : s[i] = s[j] => i = j
         /\ \A i, j \in 1..Cardinality(T) : <<s[i], s[j]>> \in R => i < j
<1>1. PICK n \in Nat : n = Cardinality(T)
  BY FS_CardinalityType
<1>2. ASSUME NEW i \in 1..n, NEW j \in 1..n, s[i] = s[j] PROVE i = j
  <2>1. \A x \in T : <<x, x>> \notin R
    BY Zenon DEF TotalOrder
  <2>2. s[i] \in T /\ (i < j => <<s[i], s[j]>> \in R) /\ (j < i => <<s[j], s[i]>> \in R)
    BY <1>1 DEF InOrder
  <2> QED
    BY <1>2, <2>1, <2>2
<1>3. ASSUME NEW i \in 1..n, NEW j \in 1..n, <<s[i], s[j]>> \in R PROVE i < j
  <2>1. \A x \in T : <<x, x>> \notin R
    BY Zenon DEF TotalOrder
  <2>2. \A x, y, z \in T : <<x, y>> \in R /\ <<y, z>> \in R => <<x, z>> \in R
    BY DEF TotalOrder
  <2>3. s[i] \in T /\ s[j] \in T /\ (j < i => <<s[j], s[i]>> \in R)
    BY <1>1 DEF InOrder
  <2>4. ~(j < i)
    BY <1>3, <2>1, <2>2, <2>3
  <2>5. i # j
    BY <1>3, <2>1, <2>3
  <2> QED
    BY <2>4, <2>5
<1> QED
  BY <1>1, <1>2, <1>3

-----------------------------------------------------------------------------
(* The rows of a table. *)

\* A factor may be cancelled.
LEMMA FactorCancels ==
  ASSUME NEW x \in Nat, NEW y \in Nat, NEW c \in Nat \ {0}, x * c <= y * c
  PROVE  x <= y
<1> SUFFICES ASSUME y < x PROVE FALSE
  OBVIOUS
<1>1. PICK d \in Nat : x = y + 1 + d
  <2>1. x - y - 1 \in Nat /\ x = y + 1 + (x - y - 1)
    OBVIOUS
  <2> QED
    BY <2>1
<1>2. x * c = y * c + c + d * c
  BY <1>1
<1>3. y * c \in Nat /\ d * c \in Nat
  OBVIOUS
<1> QED
  BY <1>2, <1>3

\* An inequality may be multiplied by a factor.
LEMMA FactorKeeps ==
  ASSUME NEW x \in Nat, NEW y \in Nat, NEW c \in Nat, x <= y
  PROVE  x * c <= y * c
<1>1. PICK d \in Nat : y = x + d
  <2>1. y - x \in Nat /\ y = x + (y - x)
    OBVIOUS
  <2> QED
    BY <2>1
<1>2. y * c = x * c + d * c
  BY <1>1
<1>3. x * c \in Nat /\ d * c \in Nat
  OBVIOUS
<1> QED
  BY <1>2, <1>3

\* Fractions are compared as numbers are.
LEMMA FractionsCompare ==
  ASSUME NEW an \in Nat, NEW ad \in Nat, NEW bn \in Nat, NEW bd \in Nat, NEW cn \in Nat, NEW cd \in Nat
  PROVE  /\ S!FractionAbove(an, ad, bn, bd) => ~S!FractionAbove(bn, bd, an, ad)
         /\ ~S!FractionAbove(an, ad, bn, bd) /\ ~S!FractionAbove(bn, bd, cn, cd)
              => ~S!FractionAbove(an, ad, cn, cd)
<1>1. PICK a, b, c : /\ a = IF ad = 0 THEN 0 ELSE an
                     /\ b = IF bd = 0 THEN 0 ELSE bn
                     /\ c = IF cd = 0 THEN 0 ELSE cn
  OBVIOUS
<1>2. PICK x, y, z : /\ x = IF ad = 0 THEN 1 ELSE ad
                     /\ y = IF bd = 0 THEN 1 ELSE bd
                     /\ z = IF cd = 0 THEN 1 ELSE cd
  OBVIOUS
<1>3. a \in Nat /\ b \in Nat /\ c \in Nat /\ x \in Nat \ {0} /\ y \in Nat \ {0} /\ z \in Nat \ {0}
  BY <1>1, <1>2
<1>4. /\ S!FractionAbove(an, ad, bn, bd) <=> a * y > b * x
      /\ S!FractionAbove(bn, bd, an, ad) <=> b * x > a * y
      /\ S!FractionAbove(bn, bd, cn, cd) <=> b * z > c * y
      /\ S!FractionAbove(an, ad, cn, cd) <=> a * z > c * x
  BY <1>1, <1>2 DEF S!FractionAbove
<1>5. a * y \in Nat /\ b * x \in Nat /\ b * z \in Nat /\ c * y \in Nat /\ a * z \in Nat /\ c * x \in Nat
  BY <1>3
<1>6. ASSUME a * y <= b * x, b * z <= c * y
      PROVE  a * z <= c * x
  <2>1. (a * y) * z <= (b * x) * z
    BY <1>3, <1>5, <1>6, FactorKeeps
  <2>2. (b * z) * x <= (c * y) * x
    BY <1>3, <1>5, <1>6, FactorKeeps
  <2>3. (a * y) * z = (a * z) * y /\ (b * x) * z = (b * z) * x /\ (c * y) * x = (c * x) * y
    BY <1>3
  <2>4. /\ (a * z) * y \in Nat /\ (b * z) * x \in Nat /\ (c * x) * y \in Nat
    BY <1>3, <1>5
  <2>5. (a * z) * y <= (c * x) * y
    BY <2>1, <2>2, <2>3, <2>4
  <2> QED
    BY <1>3, <1>5, <2>5, FactorCancels
<1> QED
  BY <1>4, <1>5, <1>6

\* Ratios of sets, and of wins, are compared as numbers are.
LEMMA RatiosCompare ==
  ASSUME NEW x \in Rows, NEW y \in Rows, NEW z \in Rows
  PROVE  /\ S!SetRatioAbove(x, y) => ~S!SetRatioAbove(y, x)
         /\ ~S!SetRatioAbove(x, y) /\ ~S!SetRatioAbove(y, z) => ~S!SetRatioAbove(x, z)
         /\ S!WinRateAbove(x, y) => ~S!WinRateAbove(y, x)
         /\ ~S!WinRateAbove(x, y) /\ ~S!WinRateAbove(y, z) => ~S!WinRateAbove(x, z)
<1>1. ASSUME NEW w \in Rows
      PROVE  /\ w.setsWon \in Nat /\ w.setsWon + w.setsLost \in Nat
             /\ w.wins \in Nat /\ w.played \in Nat
  BY <1>1 DEF Rows
<1>2. /\ S!SetRatioAbove(x, y) => ~S!SetRatioAbove(y, x)
      /\ ~S!SetRatioAbove(x, y) /\ ~S!SetRatioAbove(y, z) => ~S!SetRatioAbove(x, z)
  <2>1. PICK a, b, c, d, e, f : /\ a = x.setsWon /\ b = y.setsWon /\ c = z.setsWon
                                /\ d = x.setsWon + x.setsLost
                                /\ e = y.setsWon + y.setsLost
                                /\ f = z.setsWon + z.setsLost
    OBVIOUS
  <2>2. a \in Nat /\ b \in Nat /\ c \in Nat /\ d \in Nat /\ e \in Nat /\ f \in Nat
    BY <1>1, <2>1
  <2>3. /\ S!SetRatioAbove(x, y) = S!FractionAbove(a, d, b, e)
        /\ S!SetRatioAbove(y, x) = S!FractionAbove(b, e, a, d)
        /\ S!SetRatioAbove(y, z) = S!FractionAbove(b, e, c, f)
        /\ S!SetRatioAbove(x, z) = S!FractionAbove(a, d, c, f)
    BY <2>1 DEF S!SetRatioAbove
  <2> QED
    BY ONLY <2>2, <2>3, FractionsCompare
<1>3. /\ S!WinRateAbove(x, y) => ~S!WinRateAbove(y, x)
      /\ ~S!WinRateAbove(x, y) /\ ~S!WinRateAbove(y, z) => ~S!WinRateAbove(x, z)
  BY ONLY <1>1, x \in Rows, y \in Rows, z \in Rows, FractionsCompare DEF S!WinRateAbove
<1> QED
  BY <1>2, <1>3

\* The keys after the meetings of two teams put rows in one order.
LEMMA KeysCompare ==
  ASSUME NEW x \in Rows, NEW y \in Rows, NEW z \in Rows
  PROVE  /\ ~S!AheadAfterHeadToHead(x, x)
         /\ x.team # y.team => S!AheadAfterHeadToHead(x, y) \/ S!AheadAfterHeadToHead(y, x)
         /\ ~(S!AheadAfterHeadToHead(x, y) /\ S!AheadAfterHeadToHead(y, x))
         /\ S!AheadAfterHeadToHead(x, y) /\ S!AheadAfterHeadToHead(y, z) => S!AheadAfterHeadToHead(x, z)
<1>1. ASSUME NEW w \in Rows
      PROVE  w.team \in Nat /\ S!PointDiff(w) \in Int /\ w.scored \in Nat
  BY DEF Rows, S!PointDiff
<1>2. ASSUME NEW u \in {x, y, z}, NEW v \in {x, y, z}, NEW w \in {x, y, z}
      PROVE  /\ S!SetRatioAbove(u, v) => ~S!SetRatioAbove(v, u)
             /\ ~S!SetRatioAbove(u, v) /\ ~S!SetRatioAbove(v, w) => ~S!SetRatioAbove(u, w)
  BY RatiosCompare
<1>3. /\ ~S!AheadAfterHeadToHead(x, x)
      /\ x.team # y.team => S!AheadAfterHeadToHead(x, y) \/ S!AheadAfterHeadToHead(y, x)
      /\ ~(S!AheadAfterHeadToHead(x, y) /\ S!AheadAfterHeadToHead(y, x))
  BY <1>1, <1>2 DEF S!AheadAfterHeadToHead
<1>4. S!AheadAfterHeadToHead(x, y) /\ S!AheadAfterHeadToHead(y, z) => S!AheadAfterHeadToHead(x, z)
  BY <1>1, <1>2 DEF S!AheadAfterHeadToHead
<1> QED
  BY <1>3, <1>4

\* So do the keys across pools; level rows are told apart by their teams.
LEMMA AcrossCompare ==
  ASSUME NEW x \in Rows, NEW y \in Rows, NEW z \in Rows
  PROVE  /\ ~S!AheadAcrossPools(x, x)
         /\ x.team # y.team => S!AheadAcrossPools(x, y) \/ S!AheadAcrossPools(y, x)
         /\ ~(S!AheadAcrossPools(x, y) /\ S!AheadAcrossPools(y, x))
         /\ S!AheadAcrossPools(x, y) /\ S!AheadAcrossPools(y, z) => S!AheadAcrossPools(x, z)
         /\ S!LevelAcrossPools(x, y) => (S!AheadAcrossPools(x, y) <=> x.team < y.team)
<1>1. ASSUME NEW w \in Rows
      PROVE  w.team \in Nat /\ w.wins \in Nat /\ S!PointDiff(w) \in Int /\ w.scored \in Nat
  BY DEF Rows, S!PointDiff
<1>2. ASSUME NEW u \in {x, y, z}, NEW v \in {x, y, z}, NEW w \in {x, y, z}
      PROVE  /\ S!WinRateAbove(u, v) => ~S!WinRateAbove(v, u)
             /\ ~S!WinRateAbove(u, v) /\ ~S!WinRateAbove(v, w) => ~S!WinRateAbove(u, w)
  BY RatiosCompare
<1>3. ASSUME NEW u \in {x, y, z}, NEW v \in {x, y, z}, NEW w \in {x, y, z}
      PROVE  /\ ~S!AheadAfterHeadToHead(u, u)
             /\ u.team # v.team => S!AheadAfterHeadToHead(u, v) \/ S!AheadAfterHeadToHead(v, u)
             /\ ~(S!AheadAfterHeadToHead(u, v) /\ S!AheadAfterHeadToHead(v, u))
             /\ S!AheadAfterHeadToHead(u, v) /\ S!AheadAfterHeadToHead(v, w) => S!AheadAfterHeadToHead(u, w)
  BY KeysCompare
<1>4. /\ ~S!AheadAcrossPools(x, x)
      /\ x.team # y.team => S!AheadAcrossPools(x, y) \/ S!AheadAcrossPools(y, x)
      /\ ~(S!AheadAcrossPools(x, y) /\ S!AheadAcrossPools(y, x))
  BY <1>1, <1>2, <1>3 DEF S!AheadAcrossPools
<1>5. S!AheadAcrossPools(x, y) /\ S!AheadAcrossPools(y, z) => S!AheadAcrossPools(x, z)
  BY <1>1, <1>2, <1>3 DEF S!AheadAcrossPools
<1>6. S!LevelAcrossPools(x, y) => (S!AheadAcrossPools(x, y) <=> x.team < y.team)
  BY <1>1 DEF S!AheadAcrossPools, S!AheadAfterHeadToHead, S!LevelAcrossPools, S!LevelOnCompetitiveKeys
<1> QED
  BY <1>4, <1>5, <1>6

\* Being level is an equivalence, and who stands between two rows of one order
\* that are level is level with both.
LEMMA LevelCompare ==
  ASSUME NEW x \in Rows, NEW y \in Rows, NEW z \in Rows
  PROVE  /\ S!LevelAcrossPools(x, x)
         /\ S!LevelAcrossPools(x, y) => S!LevelAcrossPools(y, x)
         /\ S!LevelAcrossPools(x, y) /\ S!LevelAcrossPools(y, z) => S!LevelAcrossPools(x, z)
         /\ S!LevelAcrossPools(x, z) /\ S!AheadAcrossPools(x, y) /\ S!AheadAcrossPools(y, z)
              => S!LevelAcrossPools(x, y)
         /\ S!LevelOnCompetitiveKeys(x, y) => S!LevelOnCompetitiveKeys(y, x)
         /\ S!LevelOnCompetitiveKeys(x, y) /\ S!LevelOnCompetitiveKeys(y, z) => S!LevelOnCompetitiveKeys(x, z)
         /\ S!LevelOnCompetitiveKeys(x, z) /\ x.wins = y.wins
              /\ S!AheadAfterHeadToHead(x, y) /\ S!AheadAfterHeadToHead(y, z)
              => S!LevelOnCompetitiveKeys(x, y)
<1>1. ASSUME NEW w \in Rows
      PROVE  w.team \in Nat /\ w.wins \in Nat /\ S!PointDiff(w) \in Int /\ w.scored \in Nat
  BY DEF Rows, S!PointDiff
<1>2. ASSUME NEW u \in {x, y, z}, NEW v \in {x, y, z}, NEW w \in {x, y, z}
      PROVE  /\ S!WinRateAbove(u, v) => ~S!WinRateAbove(v, u)
             /\ ~S!WinRateAbove(u, v) /\ ~S!WinRateAbove(v, w) => ~S!WinRateAbove(u, w)
  BY RatiosCompare
<1>3. ASSUME NEW u \in {x, y, z}, NEW v \in {x, y, z}, NEW w \in {x, y, z}
      PROVE  /\ S!SetRatioAbove(u, v) => ~S!SetRatioAbove(v, u)
             /\ ~S!SetRatioAbove(u, v) /\ ~S!SetRatioAbove(v, w) => ~S!SetRatioAbove(u, w)
  BY RatiosCompare
<1>4. /\ S!LevelOnCompetitiveKeys(x, x)
      /\ S!LevelOnCompetitiveKeys(x, y) => S!LevelOnCompetitiveKeys(y, x)
      /\ S!LevelOnCompetitiveKeys(x, y) /\ S!LevelOnCompetitiveKeys(y, z) => S!LevelOnCompetitiveKeys(x, z)
  BY <1>1, <1>3 DEF S!LevelOnCompetitiveKeys
<1>5. /\ S!LevelAcrossPools(x, x)
      /\ S!LevelAcrossPools(x, y) => S!LevelAcrossPools(y, x)
      /\ S!LevelAcrossPools(x, y) /\ S!LevelAcrossPools(y, z) => S!LevelAcrossPools(x, z)
  BY <1>2, <1>4 DEF S!LevelAcrossPools
<1>6. S!LevelOnCompetitiveKeys(x, z) /\ x.wins = y.wins
        /\ S!AheadAfterHeadToHead(x, y) /\ S!AheadAfterHeadToHead(y, z)
        => S!LevelOnCompetitiveKeys(x, y)
  BY <1>1, <1>3 DEF S!LevelOnCompetitiveKeys, S!AheadAfterHeadToHead
<1>7. S!LevelAcrossPools(x, z) /\ S!AheadAcrossPools(x, y) /\ S!AheadAcrossPools(y, z)
        => S!LevelAcrossPools(x, y)
  <2> SUFFICES ASSUME S!LevelAcrossPools(x, z), S!AheadAcrossPools(x, y), S!AheadAcrossPools(y, z)
               PROVE  S!LevelAcrossPools(x, y)
    OBVIOUS
  <2>1. ~S!WinRateAbove(y, x) /\ ~S!WinRateAbove(z, y)
    BY <1>2 DEF S!AheadAcrossPools
  <2>2. ~S!WinRateAbove(x, z) /\ ~S!WinRateAbove(z, x) /\ S!LevelOnCompetitiveKeys(x, z)
    BY DEF S!LevelAcrossPools
  <2>3. ~S!WinRateAbove(x, y) /\ ~S!WinRateAbove(y, z)
    BY <1>2, <2>1, <2>2
  <2>4. x.wins = z.wins
    BY <2>2 DEF S!LevelOnCompetitiveKeys
  <2>5. /\ x.wins # y.wins => x.wins > y.wins
        /\ y.wins # z.wins => y.wins > z.wins
    BY <2>1, <2>3 DEF S!AheadAcrossPools
  <2>6. x.wins = y.wins /\ y.wins = z.wins
    BY <1>1, <2>4, <2>5
  <2>7. S!AheadAfterHeadToHead(x, y) /\ S!AheadAfterHeadToHead(y, z)
    BY <2>1, <2>3, <2>6 DEF S!AheadAcrossPools
  <2> QED
    BY <1>6, <2>1, <2>2, <2>3, <2>6, <2>7 DEF S!LevelAcrossPools
<1> QED
  BY <1>4, <1>5, <1>6, <1>7

-----------------------------------------------------------------------------
(* Sums of natural numbers. *)

\* Induction over the subsets of a finite set, one element at a time.
LEMMA SubsetInduction ==
  ASSUME NEW T, IsFiniteSet(T), NEW Good, {} \in Good,
         \A s \in SUBSET T : s # {} /\ (\A x \in s : s \ {x} \in Good) => s \in Good
  PROVE  SUBSET T \subseteq Good
<1> DEFINE Fine == {n \in Nat : \A s \in SUBSET T : Cardinality(s) = n => s \in Good}
<1>1. ASSUME NEW s \in SUBSET T
      PROVE  IsFiniteSet(s) /\ Cardinality(s) \in Nat
  <2>1. IsFiniteSet(s)
    BY FS_Subset
  <2> QED
    BY <2>1, FS_CardinalityType
<1>2. 0 \in Fine
  BY <1>1, FS_EmptySet
<1>3. ASSUME NEW n \in Nat, n \in Fine
      PROVE  n + 1 \in Fine
  <2>1. ASSUME NEW s \in SUBSET T, Cardinality(s) = n + 1
        PROVE  s \in Good
    <3>1. s # {}
      BY <2>1, FS_EmptySet
    <3>2. ASSUME NEW x \in s
          PROVE  s \ {x} \in Good
      <4>1. Cardinality(s \ {x}) = n
        BY <1>1, <2>1, FS_RemoveElement
      <4> QED
        BY <1>3, <4>1
    <3> QED
      BY <3>1, <3>2
  <2> QED
    BY <2>1
<1> HIDE DEF Fine
<1>4. Nat \subseteq Fine
  BY <1>2, <1>3, NumberInduction
<1> QED
  BY <1>1, <1>4 DEF Fine

\* Every part of a finite set has a sum.
LEMMA SumsOfParts ==
  ASSUME NEW T, IsFiniteSet(T), NEW f, \A x \in T : f[x] \in Nat
  PROVE  \E g : SumsOf(g, f, T)
<1> DEFINE Good == {s \in SUBSET T : \E g : SumsOf(g, f, s)}
<1>1. {} \in Good
  <2> DEFINE g == [s \in SUBSET {} |-> 0]
  <2>1. SumsOf(g, f, {})
    BY DEF SumsOf
  <2> QED
    BY <2>1
<1>2. ASSUME NEW P \in SUBSET T, P # {}, \A x \in P : P \ {x} \in Good
      PROVE  P \in Good
  <2>1. PICK x \in P : P \ {x} \in Good
    BY <1>2
  <2> DEFINE R == P \ {x}
  <2>2. PICK h : SumsOf(h, f, R)
    BY <2>1
  <2> DEFINE g == [s \in SUBSET P |-> IF x \in s THEN f[x] + h[s \ {x}] ELSE h[s]]
  <2>3. g \in [SUBSET P -> Nat]
    BY <2>2 DEF SumsOf
  <2>4. g[{}] = 0
    BY <2>2 DEF SumsOf
  <2>5. ASSUME NEW s \in SUBSET P, NEW y \in s
        PROVE  g[s] = f[y] + g[s \ {y}]
    <3>1. f[x] \in Nat /\ f[y] \in Nat
      OBVIOUS
    <3>2. CASE x \notin s
      BY <2>2, <3>2 DEF SumsOf
    <3>3. CASE y = x
      BY <3>3
    <3>4. CASE x \in s /\ y # x
      <4>1. g[s] = f[x] + h[s \ {x}] /\ g[s \ {y}] = f[x] + h[(s \ {y}) \ {x}]
        BY <3>4
      <4>2. (s \ {y}) \ {x} = (s \ {x}) \ {y} /\ s \ {x} \in SUBSET R /\ y \in s \ {x}
        BY <3>4
      <4>3. h[s \ {x}] = f[y] + h[(s \ {x}) \ {y}] /\ h[(s \ {x}) \ {y}] \in Nat
        BY <2>2, <4>2 DEF SumsOf
      <4>4. g[s \ {y}] = f[x] + h[(s \ {x}) \ {y}]
        BY <4>1, <4>2
      <4> HIDE DEF g, R
      <4> QED
        BY <3>1, <4>1, <4>3, <4>4
    <3> QED
      BY <3>2, <3>3, <3>4
  <2> HIDE DEF g
  <2>6. SumsOf(g, f, P)
    BY <2>3, <2>4, <2>5 DEF SumsOf
  <2> QED
    BY <2>6
<1> HIDE DEF Good
<1>3. SUBSET T \subseteq Good
  BY <1>1, <1>2, SubsetInduction
<1> QED
  BY <1>3 DEF Good

\* A sum is the one its parts add up to.
LEMMA SumIs ==
  ASSUME NEW T, IsFiniteSet(T), NEW f, \A x \in T : f[x] \in Nat, NEW g, SumsOf(g, f, T)
  PROVE  S!SumFunctionOnSet(f, T) = g[T]
<1> DEFINE Pick(s) == CHOOSE x \in s : TRUE
           Body(i) == [s \in SUBSET T |-> IF s = {} THEN 0 ELSE f[Pick(s)] + i[s \ {Pick(s)}]]
<1>1. g = Body(g)
  <2>1. \A s \in SUBSET T : g[s] = Body(g)[s]
    <3>1. \A s \in SUBSET T : s # {} => Pick(s) \in s
      OBVIOUS
    <3> QED
      BY <3>1 DEF SumsOf
  <2>2. g = [s \in SUBSET T |-> g[s]]
    BY DEF SumsOf
  <2> QED
    BY <2>1, <2>2
<1>2. ASSUME NEW h, h = Body(h)
      PROVE  h = g
  <2> DEFINE Good == {s \in SUBSET T : h[s] = g[s]}
  <2>1. {} \in Good
    BY <1>1, <1>2
  <2>2. ASSUME NEW s \in SUBSET T, s # {}, \A x \in s : s \ {x} \in Good
        PROVE  s \in Good
    <3>1. h[s \ {Pick(s)}] = g[s \ {Pick(s)}]
      BY <2>2
    <3>2. h[s] = f[Pick(s)] + h[s \ {Pick(s)}] /\ g[s] = f[Pick(s)] + g[s \ {Pick(s)}]
      BY <1>1, <1>2, <2>2
    <3> QED
      BY <3>1, <3>2
  <2> HIDE DEF Good
  <2>3. SUBSET T \subseteq Good
    BY <2>1, <2>2, SubsetInduction
  <2>4. h = [s \in SUBSET T |-> h[s]] /\ g = [s \in SUBSET T |-> g[s]]
    BY <1>1, <1>2
  <2> QED
    BY <2>3, <2>4 DEF Good
<1>3. (CHOOSE i : i = Body(i)) = g
  BY <1>1, <1>2
<1>4. S!SumFunctionOnSet(f, T) = (CHOOSE i : i = Body(i))[T]
  BY Zenon DEF S!SumFunctionOnSet, S!FoldFunctionOnSet, S!MapThenFoldSet
<1> HIDE DEF Body
<1> QED
  BY <1>3, <1>4

\* A sum of natural numbers is one.
LEMMA SumsAreNatural ==
  ASSUME NEW T, IsFiniteSet(T), NEW f, \A x \in T : f[x] \in Nat
  PROVE  S!SumFunctionOnSet(f, T) \in Nat
<1>1. PICK g : SumsOf(g, f, T)
  BY SumsOfParts
<1>2. S!SumFunctionOnSet(f, T) = g[T]
  BY <1>1, SumIs
<1> QED
  BY <1>1, <1>2 DEF SumsOf

-----------------------------------------------------------------------------
(* Ranks. *)

\* The rank of a class is the first of its places.
LEMMA ClassesRank ==
  ASSUME NEW T, IsFiniteSet(T), NEW R, TotalOrder(R, T), NEW E, Classes(E, R, T), NEW s, InOrder(s, T, R),
         NEW j \in 1..Cardinality(T)
  PROVE  /\ ClassRank(s[j], T, R, E) \in 1..j
         /\ \A i \in 1..Cardinality(T) : i < j =>
              /\ <<s[i], s[j]>> \notin E => i < ClassRank(s[j], T, R, E)
              /\ <<s[i], s[j]>> \in E => ClassRank(s[i], T, R, E) = ClassRank(s[j], T, R, E)
<1>1. PICK n \in Nat : n = Cardinality(T)
  BY FS_CardinalityType
<1> DEFINE Above(x) == {y \in T : <<y, x>> \in R /\ <<y, x>> \notin E}
           First(k) == {s[i] : i \in 1..k}
<1>2. /\ \A i \in 1..n : s[i] \in T
      /\ \A i, k \in 1..n : s[i] = s[k] => i = k
      /\ \A i, k \in 1..n : i < k => <<s[i], s[k]>> \in R
      /\ \A i, k \in 1..n : <<s[i], s[k]>> \in R => i < k
      /\ \A x \in T : \E i \in 1..n : s[i] = x
  BY <1>1, PlacesInOrder DEF InOrder
<1>3. ASSUME NEW x \in T
      PROVE  IsFiniteSet(Above(x)) /\ Cardinality(Above(x)) \in Nat /\ ClassRank(x, T, R, E) = 1 + Cardinality(Above(x))
  <2>1. IsFiniteSet(Above(x))
    BY FS_Subset
  <2>2. Cardinality(Above(x)) \in Nat
    BY <2>1, FS_CardinalityType
  <2> QED
    BY <2>1, <2>2 DEF ClassRank
<1> HIDE DEF Above
<1>4. ASSUME NEW k \in 0..n
      PROVE  IsFiniteSet(First(k)) /\ Cardinality(First(k)) = k
  <2>1. IsFiniteSet(1..k) /\ Cardinality(1..k) = k
    <3>1. 1 \in Int /\ k \in Int /\ (IF 1 > k THEN 0 ELSE k - 1 + 1) = k
      OBVIOUS
    <3> QED
      BY <3>1, FS_Interval
  <2> DEFINE f == [i \in 1..k |-> s[i]]
  <2>2. f \in Bijection(1..k, First(k))
    BY <1>2 DEF Bijection, Injection, Surjection, IsInjective
  <2> HIDE DEF First, f
  <2>3. ExistsBijection(1..k, First(k))
    BY <2>2 DEF ExistsBijection
  <2> QED
    BY <2>1, <2>3, FS_Bijection
<1>5. Above(s[j]) \subseteq First(j - 1)
  <2>1. ASSUME NEW y \in Above(s[j])
        PROVE  y \in First(j - 1)
    <3>1. y \in T /\ <<y, s[j]>> \in R
      BY DEF Above
    <3>2. PICK i \in 1..n : s[i] = y
      BY <1>2, <3>1
    <3>3. i < j
      BY <1>1, <1>2, <3>1, <3>2
    <3> QED
      BY <1>1, <3>2, <3>3
  <2> QED
    BY <2>1
<1>6. ClassRank(s[j], T, R, E) \in 1..j
  <2>1. j - 1 \in 0..n /\ j \in 1..n
    BY <1>1
  <2>2. s[j] \in T
    BY <1>2, <2>1
  <2>3. IsFiniteSet(First(j - 1)) /\ Cardinality(First(j - 1)) = j - 1
    BY <1>4, <2>1
  <2> HIDE DEF First
  <2>4. Cardinality(Above(s[j])) <= Cardinality(First(j - 1))
    BY <1>5, <2>3, FS_Subset
  <2>5. Cardinality(Above(s[j])) \in Nat /\ ClassRank(s[j], T, R, E) = 1 + Cardinality(Above(s[j]))
    BY <1>3, <2>2
  <2> QED
    BY <2>1, <2>3, <2>4, <2>5
<1>7. ASSUME NEW i \in 1..n, i < j, <<s[i], s[j]>> \notin E
      PROVE  i < ClassRank(s[j], T, R, E)
  <2>1. j \in 1..n /\ i \in 0..n
    BY <1>1
  <2>2. ASSUME NEW k \in 1..i
        PROVE  s[k] \in Above(s[j])
    <3>1. k \in 1..n /\ k < j
      BY <1>7, <2>1
    <3>2. s[k] \in T /\ s[i] \in T /\ s[j] \in T /\ <<s[k], s[j]>> \in R /\ <<s[i], s[j]>> \in R
      BY <1>2, <1>7, <2>1, <3>1
    <3>3. k < i => <<s[k], s[i]>> \in R
      BY <1>2, <3>1
    <3>4. <<s[k], s[j]>> \notin E
      <4> SUFFICES ASSUME <<s[k], s[j]>> \in E PROVE FALSE
        OBVIOUS
      <4>1. k # i
        BY <1>7
      <4>2. <<s[k], s[i]>> \in R
        BY <3>3, <4>1
      <4>3. <<s[k], s[i]>> \in E
        BY <3>2, <4>2 DEF Classes
      <4>4. <<s[i], s[j]>> \in E
        BY <3>2, <4>3 DEF Classes
      <4> QED
        BY <1>7, <4>4
    <3> QED
      BY <3>2, <3>4 DEF Above
  <2>3. First(i) \subseteq Above(s[j])
    BY <2>2
  <2>4. s[j] \in T
    BY <1>2, <2>1
  <2>5. Cardinality(First(i)) = i
    BY <1>4, <2>1
  <2> HIDE DEF First
  <2>6. IsFiniteSet(Above(s[j])) /\ Cardinality(Above(s[j])) \in Nat /\ ClassRank(s[j], T, R, E) = 1 + Cardinality(Above(s[j]))
    BY <1>3, <2>4
  <2>7. Cardinality(First(i)) <= Cardinality(Above(s[j]))
    BY <2>3, <2>6, FS_Subset
  <2> QED
    BY <2>5, <2>6, <2>7
<1>8. ASSUME NEW i \in 1..n, i < j, <<s[i], s[j]>> \in E
      PROVE  ClassRank(s[i], T, R, E) = ClassRank(s[j], T, R, E)
  <2>1. PICK x, z : x = s[i] /\ z = s[j]
    OBVIOUS
  <2>2. x \in T /\ z \in T /\ <<x, z>> \in R /\ <<x, z>> \in E
    BY <1>1, <1>2, <1>8, <2>1
  <2>3. <<z, x>> \in E
    BY <2>2 DEF Classes
  <2>4. ASSUME NEW y \in T, <<y, x>> \in R, <<y, x>> \notin E
        PROVE  <<y, z>> \in R /\ <<y, z>> \notin E
    <3>1. <<y, z>> \in R
      BY <2>2, <2>4 DEF TotalOrder
    <3>2. <<y, z>> \in E => <<y, x>> \in E
      BY <2>2, <2>3 DEF Classes
    <3> QED
      BY <2>4, <3>1, <3>2
  <2>5. ASSUME NEW y \in T, <<y, z>> \in R, <<y, z>> \notin E
        PROVE  <<y, x>> \in R /\ <<y, x>> \notin E
    <3>1. y # x
      BY <2>2, <2>5
    <3>2. <<y, x>> \in E => <<y, z>> \in E
      BY <2>2 DEF Classes
    <3>3. <<x, y>> \notin R
      <4> SUFFICES ASSUME <<x, y>> \in R PROVE FALSE
        OBVIOUS
      <4>1. <<x, y>> \in E
        BY <2>2, <2>5 DEF Classes
      <4>2. <<y, x>> \in E
        BY <2>2, <4>1 DEF Classes
      <4> QED
        BY <2>5, <3>2, <4>2
    <3>4. <<y, x>> \in R
      BY <2>2, <3>1, <3>3 DEF TotalOrder
    <3> QED
      BY <2>5, <3>2, <3>4
  <2>6. Above(x) = Above(z)
    BY <2>4, <2>5 DEF Above
  <2> QED
    BY <1>3, <2>1, <2>2, <2>6
<1> QED
  BY <1>1, <1>6, <1>7, <1>8

-----------------------------------------------------------------------------
(* The table of a pool. *)

\* A total over sets is a natural number when each set counts as one.
LEMMA SetsAdd ==
  ASSUME NEW results, Counted(results), NEW mine \in SUBSET results, NEW e,
         \A m \in mine : \A i \in DOMAIN m.sets : e[m][i] \in Nat
  PROVE  S!SumFunction([m \in mine |-> S!SumFunction([i \in DOMAIN m.sets |-> e[m][i]])]) \in Nat
<1> DEFINE f == [m \in mine |-> S!SumFunction([i \in DOMAIN m.sets |-> e[m][i]])]
<1>1. IsFiniteSet(mine)
  BY FS_Subset DEF Counted
<1>2. ASSUME NEW m \in mine
      PROVE  f[m] \in Nat
  <2> DEFINE g == [i \in DOMAIN m.sets |-> e[m][i]]
  <2>1. IsFiniteSet(DOMAIN m.sets)
    <3>1. PICK k \in Nat : DOMAIN m.sets = 1..k
      BY DEF Counted
    <3> QED
      BY <3>1, FS_Interval
  <2>2. DOMAIN g = DOMAIN m.sets /\ \A i \in DOMAIN m.sets : g[i] \in Nat
    OBVIOUS
  <2>3. f[m] = S!SumFunction(g)
    OBVIOUS
  <2> HIDE DEF f, g
  <2>4. S!SumFunction(g) = S!SumFunctionOnSet(g, DOMAIN g)
    BY DEF S!SumFunction
  <2> QED
    BY <2>1, <2>2, <2>3, <2>4, SumsAreNatural
<1>3. DOMAIN f = mine
  OBVIOUS
<1> HIDE DEF f
<1>4. S!SumFunction(f) = S!SumFunctionOnSet(f, DOMAIN f)
  BY DEF S!SumFunction
<1>5. S!SumFunction(f) \in Nat
  BY <1>1, <1>2, <1>3, <1>4, SumsAreNatural
<1> QED
  BY <1>5 DEF f

\* The row of a team is one, and says whose it is and what it played.
LEMMA RowOfTeam ==
  ASSUME NEW results, Counted(results), NEW t \in Nat
  PROVE  /\ S!RowOf(t, results) \in Rows
         /\ S!RowOf(t, results).team = t
         /\ S!RowOf(t, results).played = Cardinality(PlayedBy(t, results))
<1> DEFINE mine == {m \in results : t \in {m.a, m.b}}
<1>1. mine = PlayedBy(t, results)
  BY DEF PlayedBy
<1>2. IsFiniteSet(mine) /\ mine \in SUBSET results
  BY FS_Subset DEF Counted
<1>3. Cardinality(mine) \in Nat
  BY <1>2, FS_CardinalityType
<1>4. Cardinality({m \in mine : m.winner = t}) \in Nat
  <2>1. IsFiniteSet({m \in mine : m.winner = t})
    BY <1>2, FS_Subset
  <2> QED
    BY <2>1, FS_CardinalityType
<1> DEFINE Own(m, i) == S!SetsOf(t, m)[i]
<1>5. ASSUME NEW m \in mine, NEW i \in DOMAIN m.sets
      PROVE  Own(m, i)[1] \in Nat /\ Own(m, i)[2] \in Nat
  <2>1. m.sets \in Seq(Nat \X Nat)
    BY DEF Counted
  <2>2. m.sets[i] \in Nat \X Nat
    BY <2>1
  <2>3. PICK p, q : p = m.sets[i][1] /\ q = m.sets[i][2]
    OBVIOUS
  <2>4. p \in Nat /\ q \in Nat
    BY <2>2, <2>3
  <2>5. Own(m, i) = IF m.a = t THEN m.sets[i] ELSE <<q, p>>
    BY <2>3 DEF S!SetsOf
  <2> QED
    BY <2>3, <2>4, <2>5
<1> DEFINE Total(e) == S!SumFunction([m \in mine |-> S!SumFunction([i \in DOMAIN m.sets |-> e[m][i]])])
           won == [m \in mine |-> [i \in DOMAIN m.sets |-> IF Own(m, i)[1] > Own(m, i)[2] THEN 1 ELSE 0]]
           lost == [m \in mine |-> [i \in DOMAIN m.sets |-> IF Own(m, i)[2] > Own(m, i)[1] THEN 1 ELSE 0]]
           scored == [m \in mine |-> [i \in DOMAIN m.sets |-> Own(m, i)[1]]]
           conceded == [m \in mine |-> [i \in DOMAIN m.sets |-> Own(m, i)[2]]]
<1>6. /\ \A m \in mine : \A i \in DOMAIN m.sets : won[m][i] \in Nat
      /\ \A m \in mine : \A i \in DOMAIN m.sets : lost[m][i] \in Nat
      /\ \A m \in mine : \A i \in DOMAIN m.sets : scored[m][i] \in Nat
      /\ \A m \in mine : \A i \in DOMAIN m.sets : conceded[m][i] \in Nat
  <2> HIDE DEF Own, mine
  <2> QED
    BY <1>5
<1>7. S!RowOf(t, results) =
        [team |-> t, played |-> Cardinality(mine), wins |-> Cardinality({m \in mine : m.winner = t}),
         setsWon |-> Total(won), setsLost |-> Total(lost), scored |-> Total(scored),
         conceded |-> Total(conceded), rank |-> 0, lot |-> FALSE]
  <2>1. /\ Total(won) = S!SumFunction([m \in mine |-> S!SumFunction([i \in DOMAIN m.sets |->
                          IF Own(m, i)[1] > Own(m, i)[2] THEN 1 ELSE 0])])
        /\ Total(lost) = S!SumFunction([m \in mine |-> S!SumFunction([i \in DOMAIN m.sets |->
                          IF Own(m, i)[2] > Own(m, i)[1] THEN 1 ELSE 0])])
        /\ Total(scored) = S!SumFunction([m \in mine |-> S!SumFunction([i \in DOMAIN m.sets |-> Own(m, i)[1]])])
        /\ Total(conceded) = S!SumFunction([m \in mine |-> S!SumFunction([i \in DOMAIN m.sets |-> Own(m, i)[2]])])
    <3> HIDE DEF Own, mine
    <3> QED
      OBVIOUS
  <2> HIDE DEF Total
  <2> QED
    BY <2>1, StandingsCardinality, Zenon DEF S!RowOf
<1> HIDE DEF won, lost, scored, conceded, mine
<1>8. Total(won) \in Nat /\ Total(lost) \in Nat /\ Total(scored) \in Nat /\ Total(conceded) \in Nat
  <2>1. Total(won) \in Nat
    BY <1>2, <1>6, SetsAdd
  <2>2. Total(lost) \in Nat
    BY <1>2, <1>6, SetsAdd
  <2>3. Total(scored) \in Nat
    BY <1>2, <1>6, SetsAdd
  <2>4. Total(conceded) \in Nat
    BY <1>2, <1>6, SetsAdd
  <2> QED
    BY <2>1, <2>2, <2>3, <2>4
<1> HIDE DEF Total
<1>9. S!RowOf(t, results) \in Rows
  BY <1>3, <1>4, <1>7, <1>8 DEF Rows
<1> QED
  BY <1>1, <1>7, <1>9

\* The meetings of two teams decide between these two alone.
LEMMA MeetingsDecide ==
  ASSUME NEW results, Counted(results), NEW rows, NEW Q, OfPool(Q, rows),
         NEW x \in Q, NEW y \in Q, NEW z \in Q
  PROVE  /\ S!BeatHeadToHead(x, y, results) => ~S!BeatHeadToHead(y, x, results)
         /\ x.wins = y.wins /\ S!HeadToHeadDecides(x, y, rows, results)
              => S!HeadToHeadDecides(y, x, rows, results)
         /\ S!HeadToHeadDecides(x, y, rows, results)
              => S!BeatHeadToHead(x, y, results) \/ S!BeatHeadToHead(y, x, results)
         /\ S!HeadToHeadDecides(x, y, rows, results) /\ z.wins = x.wins => z = x \/ z = y
<1>1. S!Meetings(x, y, results) = S!Meetings(y, x, results)
  BY DEF S!Meetings
<1> DEFINE Won(u) == {m \in S!Meetings(x, y, results) : m.winner = u.team}
<1>2. ASSUME NEW u
      PROVE  Cardinality(Won(u)) \in Nat
  <2>1. Won(u) \subseteq results
    BY DEF S!Meetings
  <2> HIDE DEF Won
  <2>2. IsFiniteSet(Won(u))
    BY <2>1, FS_Subset DEF Counted
  <2> QED
    BY <2>2, FS_CardinalityType
<1>3. /\ S!BeatHeadToHead(x, y, results) <=> Cardinality(Won(x)) > Cardinality(Won(y))
      /\ S!BeatHeadToHead(y, x, results) <=> Cardinality(Won(y)) > Cardinality(Won(x))
  BY <1>1, StandingsCardinality DEF S!BeatHeadToHead
<1> HIDE DEF Won
<1>4. S!BeatHeadToHead(x, y, results) => ~S!BeatHeadToHead(y, x, results)
  <2>1. Cardinality(Won(x)) \in Nat /\ Cardinality(Won(y)) \in Nat
    BY <1>2
  <2> QED
    BY <1>3, <2>1
<1>5. x.wins = y.wins /\ S!HeadToHeadDecides(x, y, rows, results)
        => S!HeadToHeadDecides(y, x, rows, results)
  BY DEF S!HeadToHeadDecides
<1>6. S!HeadToHeadDecides(x, y, rows, results)
        => S!BeatHeadToHead(x, y, results) \/ S!BeatHeadToHead(y, x, results)
  BY DEF S!HeadToHeadDecides
<1>7. ASSUME S!HeadToHeadDecides(x, y, rows, results), z.wins = x.wins
      PROVE  z = x \/ z = y
  <2>1. PICK w \in rows : w.team = z.team /\ w.wins = z.wins
    BY DEF OfPool
  <2>2. w \in {v \in rows : v.wins = x.wins}
    BY <1>7, <2>1
  <2>3. w.team \in {x.team, y.team}
    BY <1>7, <2>2 DEF S!HeadToHeadDecides
  <2> QED
    BY <2>1, <2>3 DEF OfPool
<1> QED
  BY <1>4, <1>5, <1>6, <1>7

\* The rows of a pool are in one order.
LEMMA PoolCompare ==
  ASSUME NEW results, Counted(results), NEW rows, NEW Q, OfPool(Q, rows),
         NEW x \in Q, NEW y \in Q, NEW z \in Q
  PROVE  /\ ~S!AheadInPool(x, x, rows, results)
         /\ x # y => S!AheadInPool(x, y, rows, results) \/ S!AheadInPool(y, x, rows, results)
         /\ ~(S!AheadInPool(x, y, rows, results) /\ S!AheadInPool(y, x, rows, results))
         /\ S!AheadInPool(x, y, rows, results) /\ S!AheadInPool(y, z, rows, results)
              => S!AheadInPool(x, z, rows, results)
<1> DEFINE A(u, v) == S!AheadInPool(u, v, rows, results)
           H(u, v) == S!HeadToHeadDecides(u, v, rows, results)
           B(u, v) == S!BeatHeadToHead(u, v, results)
           K(u, v) == S!AheadAfterHeadToHead(u, v)
<1>1. ASSUME NEW u \in Q PROVE u \in Rows /\ u.wins \in Nat
  BY DEF OfPool, Rows
<1>2. \A u, v \in Q : u.team = v.team => u = v
  BY DEF OfPool
<1>3. ASSUME NEW u \in Q, NEW v \in Q, NEW w \in Q
      PROVE  /\ B(u, v) => ~B(v, u)
             /\ u.wins = v.wins /\ H(u, v) => H(v, u)
             /\ H(u, v) => B(u, v) \/ B(v, u)
             /\ H(u, v) /\ w.wins = u.wins => w = u \/ w = v
  BY MeetingsDecide
<1>4. ASSUME NEW u \in Q, NEW v \in Q, NEW w \in Q
      PROVE  /\ ~K(u, u)
             /\ u.team # v.team => K(u, v) \/ K(v, u)
             /\ ~(K(u, v) /\ K(v, u))
             /\ K(u, v) /\ K(v, w) => K(u, w)
  BY <1>1, KeysCompare
<1>5. ASSUME NEW u, NEW v
      PROVE  /\ u.wins # v.wins => (A(u, v) <=> u.wins > v.wins)
             /\ u.wins = v.wins /\ H(u, v) => (A(u, v) <=> B(u, v))
             /\ u.wins = v.wins /\ ~H(u, v) => (A(u, v) <=> K(u, v))
  BY DEF S!AheadInPool
<1> HIDE DEF A, H, B, K
<1>6. ASSUME NEW u \in Q PROVE ~A(u, u)
  BY <1>1, <1>3, <1>4, <1>5
<1>7. ASSUME NEW u \in Q, NEW v \in Q
      PROVE  /\ u # v => A(u, v) \/ A(v, u)
             /\ ~(A(u, v) /\ A(v, u))
  <2>1. CASE u.wins # v.wins
    <3>1. (u.wins > v.wins) <=> ~(v.wins > u.wins)
      BY <1>1, <2>1
    <3> QED
      BY <1>5, <2>1, <3>1
  <2>2. CASE u.wins = v.wins
    BY <1>2, <1>3, <1>4, <1>5, <2>2
  <2> QED
    BY <2>1, <2>2
<1>8. ASSUME A(x, y), A(y, z)
      PROVE  A(x, z)
  <2>1. x # y /\ y # z /\ x # z
    BY <1>6, <1>7, <1>8
  <2>2. x.wins >= y.wins /\ y.wins >= z.wins
    <3>1. x.wins = y.wins \/ x.wins > y.wins
      BY <1>5, <1>8
    <3>2. y.wins = z.wins \/ y.wins > z.wins
      BY <1>5, <1>8
    <3> QED
      BY <1>1, <3>1, <3>2
  <2>3. CASE x.wins # z.wins
    <3>1. x.wins > z.wins
      BY <1>1, <2>2, <2>3
    <3> QED
      BY <1>5, <2>3, <3>1
  <2>4. CASE x.wins = z.wins
    <3>1. x.wins = y.wins /\ y.wins = z.wins
      BY <1>1, <2>2, <2>4
    <3>2. ~H(x, y) /\ ~H(y, z) /\ ~H(x, z)
      BY <1>3, <2>1, <3>1
    <3>3. K(x, y) /\ K(y, z)
      BY <1>5, <1>8, <3>1, <3>2
    <3>4. K(x, z)
      BY <1>4, <3>3
    <3> QED
      BY <1>5, <2>4, <3>2, <3>4
  <2> QED
    BY <2>3, <2>4
<1> QED
  BY <1>6, <1>7, <1>8 DEF A

\* Sharing a rank is an equivalence of neighbours, who differ by team alone.
LEMMA SharesCompare ==
  ASSUME NEW results, Counted(results), NEW rows, NEW Q, OfPool(Q, rows),
         NEW x \in Q, NEW y \in Q, NEW z \in Q
  PROVE  /\ Shares(x, y, rows, results) => Shares(y, x, rows, results)
         /\ x # z /\ Shares(x, y, rows, results) /\ Shares(y, z, rows, results) => Shares(x, z, rows, results)
         /\ S!AheadInPool(x, y, rows, results) /\ S!AheadInPool(y, z, rows, results)
              /\ Shares(x, z, rows, results) => Shares(x, y, rows, results)
         /\ S!AheadInPool(x, y, rows, results) /\ Shares(x, y, rows, results) => x.team < y.team
<1> DEFINE A(u, v) == S!AheadInPool(u, v, rows, results)
           H(u, v) == S!HeadToHeadDecides(u, v, rows, results)
           B(u, v) == S!BeatHeadToHead(u, v, results)
           K(u, v) == S!AheadAfterHeadToHead(u, v)
           L(u, v) == S!LevelOnCompetitiveKeys(u, v)
           E(u, v) == Shares(u, v, rows, results)
<1>1. ASSUME NEW u \in Q PROVE u \in Rows /\ u.wins \in Nat
  BY DEF OfPool, Rows
<1>2. ASSUME NEW u \in Q, NEW v \in Q, NEW w \in Q
      PROVE  /\ u.wins = v.wins /\ H(u, v) => H(v, u)
             /\ H(u, v) => B(u, v) \/ B(v, u)
             /\ B(u, v) => ~B(v, u)
             /\ H(u, v) /\ w.wins = u.wins => w = u \/ w = v
  BY MeetingsDecide
<1>3. ASSUME NEW u \in Q, NEW v \in Q, NEW w \in Q
      PROVE  /\ L(u, v) => L(v, u)
             /\ L(u, v) /\ L(v, w) => L(u, w)
             /\ L(u, w) /\ u.wins = v.wins /\ K(u, v) /\ K(v, w) => L(u, v)
  BY <1>1, LevelCompare
<1>4. ASSUME NEW u, NEW v
      PROVE  /\ u.wins # v.wins => (A(u, v) <=> u.wins > v.wins)
             /\ u.wins = v.wins /\ H(u, v) => (A(u, v) <=> B(u, v))
             /\ u.wins = v.wins /\ ~H(u, v) => (A(u, v) <=> K(u, v))
             /\ L(u, v) => u.wins = v.wins
             /\ E(u, v) <=> L(u, v) /\ ~H(u, v)
  BY DEF S!AheadInPool, S!LevelOnCompetitiveKeys, Shares
<1>5. K(x, y) /\ L(x, y) => x.team < y.team
  BY DEF S!AheadAfterHeadToHead, S!LevelOnCompetitiveKeys
<1>6. ~A(x, x) /\ ~(A(x, y) /\ A(y, x)) /\ ~A(y, y)
  BY PoolCompare
<1> HIDE DEF A, H, B, K, L, E
<1>7. E(x, y) => E(y, x)
  BY <1>2, <1>3, <1>4
<1>8. ASSUME x # z, E(x, y), E(y, z)
      PROVE  E(x, z)
  <2>1. CASE x = y \/ y = z
    BY <1>8, <2>1
  <2>2. CASE x # y /\ y # z
    <3>1. L(x, z) /\ x.wins = y.wins
      BY <1>3, <1>4, <1>8
    <3>2. ~H(x, z)
      BY <1>2, <1>8, <2>2, <3>1
    <3> QED
      BY <1>4, <3>1, <3>2
  <2> QED
    BY <2>1, <2>2
<1>9. ASSUME A(x, y), A(y, z), E(x, z)
      PROVE  E(x, y)
  <2>1. x # y /\ y # z /\ x # z
    BY <1>6, <1>9
  <2>2. x.wins = z.wins /\ L(x, z) /\ ~H(x, z)
    BY <1>4, <1>9
  <2>3. x.wins >= y.wins /\ y.wins >= z.wins
    <3>1. x.wins = y.wins \/ x.wins > y.wins
      BY <1>4, <1>9
    <3>2. y.wins = z.wins \/ y.wins > z.wins
      BY <1>4, <1>9
    <3> QED
      BY <1>1, <3>1, <3>2
  <2>4. x.wins = y.wins /\ y.wins = z.wins
    BY <1>1, <2>2, <2>3
  <2>5. ~H(x, y) /\ ~H(y, z)
    BY <1>2, <2>1, <2>4
  <2>6. K(x, y) /\ K(y, z)
    BY <1>4, <1>9, <2>4, <2>5
  <2>7. L(x, y)
    BY <1>3, <2>2, <2>4, <2>6
  <2> QED
    BY <1>4, <2>5, <2>7
<1>10. ASSUME A(x, y), E(x, y)
       PROVE  x.team < y.team
  BY <1>4, <1>5, <1>10
<1> QED
  BY <1>7, <1>8, <1>9, <1>10 DEF A, E

\* The rank is none of the keys.
LEMMA RankIsNoKey ==
  ASSUME NEW x, NEW y, NEW u, NEW v, SameRecord(x, u), SameRecord(y, v), NEW rows, NEW results
  PROVE  /\ S!LevelAcrossPools(x, y) <=> S!LevelAcrossPools(u, v)
         /\ S!AheadAcrossPools(x, y) <=> S!AheadAcrossPools(u, v)
         /\ S!AheadInPool(x, y, rows, results) <=> S!AheadInPool(u, v, rows, results)
         /\ Shares(x, y, rows, results) <=> Shares(u, v, rows, results)
<1>1. PICK a, b : a = x.team /\ b = y.team
  OBVIOUS
<1>2. u.team = a /\ v.team = b
  BY <1>1 DEF SameRecord
<1>3. /\ S!SetRatioAbove(x, y) = S!SetRatioAbove(u, v)
      /\ S!SetRatioAbove(y, x) = S!SetRatioAbove(v, u)
      /\ S!WinRateAbove(x, y) = S!WinRateAbove(u, v)
      /\ S!WinRateAbove(y, x) = S!WinRateAbove(v, u)
  BY Zenon DEF SameRecord, S!SetRatioAbove, S!WinRateAbove
<1>4. S!PointDiff(x) = S!PointDiff(u) /\ S!PointDiff(y) = S!PointDiff(v)
  BY Zenon DEF SameRecord, S!PointDiff
<1>5. S!AheadAfterHeadToHead(x, y) = S!AheadAfterHeadToHead(u, v)
  BY <1>3, <1>4 DEF SameRecord, S!AheadAfterHeadToHead
<1>6. S!AheadAcrossPools(x, y) = S!AheadAcrossPools(u, v)
  BY <1>3, <1>5 DEF SameRecord, S!AheadAcrossPools
<1>7. S!LevelOnCompetitiveKeys(x, y) <=> S!LevelOnCompetitiveKeys(u, v)
  BY <1>3, <1>4 DEF SameRecord, S!LevelOnCompetitiveKeys
<1>8. S!LevelAcrossPools(x, y) <=> S!LevelAcrossPools(u, v)
  BY <1>3, <1>7 DEF S!LevelAcrossPools
<1>9. S!Meetings(x, y, results) = S!Meetings(u, v, results) /\ S!Meetings(y, x, results) = S!Meetings(v, u, results)
  BY <1>1, <1>2, Zenon DEF S!Meetings
<1>10. /\ S!BeatHeadToHead(x, y, results) = S!BeatHeadToHead(u, v, results)
       /\ S!BeatHeadToHead(y, x, results) = S!BeatHeadToHead(v, u, results)
  BY <1>1, <1>2, <1>9, Zenon DEF S!BeatHeadToHead
<1>11. {w \in rows : w.wins = x.wins} = {w \in rows : w.wins = u.wins}
  BY DEF SameRecord
<1>12. S!HeadToHeadDecides(x, y, rows, results) = S!HeadToHeadDecides(u, v, rows, results)
  BY <1>1, <1>2, <1>10, <1>11, Zenon DEF S!HeadToHeadDecides
<1>13. S!AheadInPool(x, y, rows, results) = S!AheadInPool(u, v, rows, results)
  BY <1>5, <1>10, <1>12 DEF SameRecord, S!AheadInPool
<1>14. Shares(x, y, rows, results) <=> Shares(u, v, rows, results)
  BY <1>7, <1>12 DEF Shares
<1> QED
  BY <1>6, <1>8, <1>13, <1>14

\* Each team of a pool that has played out has played as often as another.
LEMMA AllPlayAlike ==
  ASSUME NEW T, NEW results, PlayedOut(T, results), NEW t \in T
  PROVE  Cardinality(PlayedBy(t, results)) = Cardinality(T) - 1
<1> DEFINE Others == T \ {t}
           Met(s) == CHOOSE m \in results : {m.a, m.b} = {s, t}
           f == [s \in Others |-> Met(s)]
<1>1. ASSUME NEW s \in Others
      PROVE  f[s] \in results /\ {f[s].a, f[s].b} = {s, t}
  BY DEF PlayedOut
<1> HIDE DEF Met
<1>2. f \in [Others -> PlayedBy(t, results)]
  <2>1. ASSUME NEW s \in Others PROVE f[s] \in PlayedBy(t, results)
    BY <1>1 DEF PlayedBy
  <2> QED
    BY <2>1
<1> HIDE DEF f
<1>3. ASSUME NEW r \in Others, NEW s \in Others, f[r] = f[s]
      PROVE  r = s
  <2>1. {r, t} = {s, t}
    BY <1>1, <1>3
  <2> QED
    BY <2>1
<1>4. ASSUME NEW m \in PlayedBy(t, results)
      PROVE  \E s \in Others : f[s] = m
  <2>1. m \in results /\ t \in {m.a, m.b} /\ m.a # m.b /\ {m.a, m.b} \subseteq T
    BY DEF PlayedBy, PlayedOut
  <2>2. PICK s \in Others : {m.a, m.b} = {s, t}
    BY <2>1
  <2>3. f[s] \in results /\ {f[s].a, f[s].b} = {m.a, m.b}
    BY <1>1, <2>2
  <2>4. f[s] = m
    BY <2>1, <2>3 DEF PlayedOut
  <2> QED
    BY <2>4
<1>5. f \in Bijection(Others, PlayedBy(t, results))
  BY <1>2, <1>3, <1>4 DEF Bijection, Injection, Surjection, IsInjective
<1>6. ExistsBijection(Others, PlayedBy(t, results))
  BY <1>5 DEF ExistsBijection
<1>7. IsFiniteSet(T) /\ IsFiniteSet(Others) /\ Cardinality(Others) = Cardinality(T) - 1
  BY FS_RemoveElement DEF PlayedOut
<1> QED
  BY <1>6, <1>7, FS_Bijection

\* The standings of a pool played out are a table of its teams, whatever the
\* results: cycles of wins, meetings that decide, forfeits without sets
\* (computeStandings).
THEOREM StandingsAreATable ==
  ASSUME NEW T, NEW results, PlayedOut(T, results)
  PROVE  Table(S!ComputeStandings(T, results), T)
<1>1. PICK n \in Nat : n = Cardinality(T)
  BY FS_CardinalityType DEF PlayedOut
<1> DEFINE Row(t) == S!RowOf(t, results)
           rows == {Row(t) : t \in T}
<1>2. ASSUME NEW t \in T
      PROVE  Row(t) \in Rows /\ Row(t).team = t /\ Row(t).played = n - 1
  <2>1. t \in Nat /\ Counted(results)
    BY DEF PlayedOut
  <2> QED
    BY <1>1, <2>1, RowOfTeam, AllPlayAlike
<1> HIDE DEF Row
<1>3. IsFiniteSet(rows) /\ OfPool(rows, rows) /\ Counted(results)
  <2> DEFINE f == [t \in T |-> Row(t)]
  <2>1. rows = {f[t] : t \in T}
    OBVIOUS
  <2> HIDE DEF f, rows
  <2>2. IsFiniteSet(rows)
    <3>1. IsFiniteSet(T)
      BY DEF PlayedOut
    <3>2. IsFiniteSet({f[t] : t \in T})
      BY <3>1, ImageIsFinite
    <3> QED
      BY <2>1, <3>2
  <2>3. OfPool(rows, rows)
    BY <1>2 DEF OfPool, rows
  <2> QED
    BY <2>2, <2>3 DEF PlayedOut
<1>4. ASSUME NEW x \in rows
      PROVE  x \in Rows /\ x.team \in T /\ x = Row(x.team) /\ x.played = n - 1
  BY <1>2
<1>5. ASSUME NEW t \in T PROVE Row(t) \in rows
  OBVIOUS
<1> DEFINE Leads(x, y) == S!AheadInPool(x, y, rows, results)
           Alike(x, y) == Shares(x, y, rows, results)
           R0 == {xy \in rows \X rows : Leads(xy[1], xy[2])}
           E0 == {xy \in rows \X rows : xy[1] = xy[2] \/ Alike(xy[1], xy[2])}
<1>6. ASSUME NEW x \in rows, NEW y \in rows
      PROVE  /\ <<x, y>> \in R0 <=> Leads(x, y)
             /\ <<x, y>> \in E0 <=> x = y \/ Alike(x, y)
  <2> HIDE DEF rows, Leads, Alike
  <2> QED
    OBVIOUS
<1> HIDE DEF R0, E0
<1>7. ASSUME NEW x \in rows, NEW y \in rows, NEW z \in rows
      PROVE  /\ ~Leads(x, x)
             /\ x # y => Leads(x, y) \/ Leads(y, x)
             /\ ~(Leads(x, y) /\ Leads(y, x))
             /\ Leads(x, y) /\ Leads(y, z) => Leads(x, z)
  <2> HIDE DEF rows
  <2> QED
    BY <1>3, PoolCompare
<1>8. ASSUME NEW x \in rows, NEW y \in rows, NEW z \in rows
      PROVE  /\ Alike(x, y) => Alike(y, x)
             /\ x # z /\ Alike(x, y) /\ Alike(y, z) => Alike(x, z)
             /\ Leads(x, y) /\ Leads(y, z) /\ Alike(x, z) => Alike(x, y)
             /\ Leads(x, y) /\ Alike(x, y) => x.team < y.team
  <2> HIDE DEF rows
  <2> QED
    BY <1>3, SharesCompare
<1> HIDE DEF rows, Leads, Alike
<1>9. TotalOrder(R0, rows)
  BY <1>6, <1>7 DEF TotalOrder
<1>10. Classes(E0, R0, rows)
  BY <1>6, <1>7, <1>8 DEF Classes
<1> DEFINE Rank(x) == ClassRank(x, rows, R0, E0)
           Ranked(x) == [x EXCEPT !.rank = Rank(x)]
           Q == {Ranked(x) : x \in rows}
<1>11. ASSUME NEW x \in rows
       PROVE  /\ Rank(x) \in Nat
              /\ Rank(x) = 1 + S!Cardinality({y \in rows : Leads(y, x) /\ ~Alike(y, x)})
  <2>1. {y \in rows : Leads(y, x) /\ ~Alike(y, x)} = {y \in rows : <<y, x>> \in R0 /\ <<y, x>> \notin E0}
    BY <1>6, <1>7
  <2> DEFINE A == {y \in rows : Leads(y, x) /\ ~Alike(y, x)}
  <2>2. IsFiniteSet(A)
    BY <1>3, FS_Subset
  <2>3. Cardinality(A) \in Nat
    BY <2>2, FS_CardinalityType
  <2>4. Rank(x) = 1 + Cardinality(A)
    BY <2>1 DEF ClassRank
  <2> QED
    BY <2>3, <2>4, StandingsCardinality
<1> HIDE DEF Rank
<1>12. ASSUME NEW x \in rows
       PROVE  Ranked(x) \in Rows /\ SameRecord(x, Ranked(x)) /\ Ranked(x).rank = Rank(x)
  BY <1>4, <1>11 DEF Rows, SameRecord
<1> HIDE DEF Ranked
<1>13. ASSUME NEW q \in Q
       PROVE  /\ q.team \in T /\ Row(q.team) \in rows /\ q = Ranked(Row(q.team))
              /\ q \in Rows /\ SameRecord(Row(q.team), q) /\ q.rank = Rank(Row(q.team))
  <2>1. PICK x \in rows : q = Ranked(x)
    OBVIOUS
  <2>2. q.team = x.team
    BY <1>12, <2>1 DEF SameRecord
  <2> QED
    BY <1>4, <1>12, <2>1, <2>2
<1>14. ASSUME NEW t \in T PROVE Ranked(Row(t)) \in Q /\ Ranked(Row(t)).team = t
  BY <1>2, <1>5, <1>12 DEF SameRecord
<1>15. IsFiniteSet(Q) /\ Cardinality(Q) = n /\ Cardinality(rows) = n
  <2> DEFINE f == [t \in T |-> Ranked(Row(t))]
             g == [t \in T |-> Row(t)]
  <2>1. f \in [T -> Q] /\ \A t \in T : f[t].team = t
    BY <1>14
  <2>2. g \in [T -> rows] /\ \A t \in T : g[t].team = t
    BY <1>2, <1>5
  <2>3. (\A q \in Q : q.team \in T /\ f[q.team] = q) /\ \A x \in rows : x.team \in T /\ g[x.team] = x
    BY <1>4, <1>13
  <2> HIDE DEF f, g, Q
  <2>4. f \in Bijection(T, Q)
    BY <2>1, <2>3 DEF Bijection, Injection, Surjection, IsInjective
  <2>5. g \in Bijection(T, rows)
    BY <2>2, <2>3 DEF Bijection, Injection, Surjection, IsInjective
  <2>6. ExistsBijection(T, Q) /\ ExistsBijection(T, rows)
    BY <2>4, <2>5 DEF ExistsBijection
  <2>7. IsFiniteSet(T)
    BY DEF PlayedOut
  <2> QED
    BY <1>1, <2>6, <2>7, FS_Bijection
<1> HIDE DEF Q
<1> DEFINE R == {xy \in Q \X Q : Leads(xy[1], xy[2])}
<1>16. ASSUME NEW x \in Q, NEW y \in Q
       PROVE  /\ <<x, y>> \in R <=> Leads(x, y)
              /\ Leads(x, y) <=> Leads(Row(x.team), Row(y.team))
  <2>1. <<x, y>> \in R <=> Leads(x, y)
    OBVIOUS
  <2>2. SameRecord(Row(x.team), x) /\ SameRecord(Row(y.team), y)
    BY <1>13
  <2> HIDE DEF R
  <2>3. Leads(Row(x.team), Row(y.team)) <=> Leads(x, y)
    BY <2>2, RankIsNoKey DEF Leads
  <2> QED
    BY <2>1, <2>3
<1> HIDE DEF R
<1>17. ASSUME NEW x \in Q, NEW y \in Q
       PROVE  Row(x.team) = Row(y.team) => x = y
  BY <1>13
<1>18. TotalOrder(R, Q)
  <2>1. \A x \in Q : Row(x.team) \in rows
    BY <1>13
  <2>2. \A x \in Q : <<x, x>> \notin R
    BY <1>7, <1>16, <2>1
  <2>3. \A x, y \in Q : x # y => <<x, y>> \in R \/ <<y, x>> \in R
    BY <1>7, <1>16, <1>17, <2>1
  <2>4. \A x, y, z \in Q : <<x, y>> \in R /\ <<y, z>> \in R => <<x, z>> \in R
    BY <1>7, <1>16, <2>1
  <2> QED
    BY <2>2, <2>3, <2>4 DEF TotalOrder
<1> DEFINE s == [i \in 1..n |-> CHOOSE x \in Q : S!Cardinality({y \in Q : S!AheadInPool(y, x, rows, results)}) = i - 1]
<1>19. S!ComputeStandings(T, results) = s
  <2> DEFINE B(x, y) == S!AheadInPool(x, y, rows, results)
             P == {[x EXCEPT !.rank = 1 + S!Cardinality({y \in rows : B(y, x)
                       /\ ~(S!LevelOnCompetitiveKeys(y, x) /\ ~S!HeadToHeadDecides(y, x, rows, results))})] : x \in rows}
  <2>1. P = Q
    BY <1>11 DEF Q, Ranked, Leads, Alike, Shares
  <2> HIDE DEF P
  <2>2. S!ComputeStandings(T, results) = S!Sorted(P, LAMBDA x, y : S!AheadInPool(x, y, rows, results))
    BY Zenon DEF S!ComputeStandings, rows, Row, P, Shares
  <2>3. @ = S!SubSeq([i \in 1..S!Cardinality(P) |->
               CHOOSE x \in P : S!Cardinality({y \in P : S!AheadInPool(y, x, rows, results)}) = i - 1], 1, S!Cardinality(P))
    BY Zenon DEF S!Sorted, S!List
  <2>4. [i \in 1..n |-> CHOOSE x \in P : S!Cardinality({y \in P : S!AheadInPool(y, x, rows, results)}) = i - 1] = s
    BY <2>1
  <2>5. S!Cardinality(P) = n
    BY <1>15, <2>1, StandingsCardinality
  <2>6. s = [i \in 1..n |-> s[i]]
    OBVIOUS
  <2> HIDE DEF s
  <2>7. SubSeq(s, 1, n) = s
    BY <2>6, ListIs
  <2> QED
    BY <2>2, <2>3, <2>4, <2>5, <2>7, Zenon
<1>20. InOrder(s, Q, R)
  <2>1. ASSUME NEW i \in 1..n
        PROVE  s[i] \in Q /\ Cardinality({y \in Q : <<y, s[i]>> \in R}) = i - 1
    <3>1. EveryPlaceTaken(Q, R)
      BY <1>15, <1>18, ListsAreInOrder
    <3>2. PICK x \in Q : Cardinality({y \in Q : <<y, x>> \in R}) = i - 1
      BY <1>15, <3>1 DEF EveryPlaceTaken
    <3> DEFINE Count(z) == S!Cardinality({y \in Q : S!AheadInPool(y, z, rows, results)})
    <3>3. ASSUME NEW z \in Q
          PROVE  Count(z) = Cardinality({y \in Q : <<y, z>> \in R})
      <4>1. {y \in Q : S!AheadInPool(y, z, rows, results)} = {y \in Q : <<y, z>> \in R}
        BY <1>16 DEF Leads
      <4> QED
        BY <4>1, StandingsCardinality
    <3>4. s[i] = CHOOSE z \in Q : Count(z) = i - 1
      OBVIOUS
    <3> HIDE DEF s, Count
    <3>5. Count(x) = i - 1
      BY <3>2, <3>3
    <3>6. s[i] \in Q /\ Count(s[i]) = i - 1
      BY <3>4, <3>5
    <3> QED
      BY <3>3, <3>6
  <2>2. s = [i \in 1..n |-> s[i]]
    OBVIOUS
  <2> HIDE DEF s
  <2> QED
    BY <1>15, <1>18, <2>1, <2>2, ListsAreInOrder
<1> HIDE DEF s
<1>21. /\ s \in [1..n -> Q]
       /\ \A q \in Q : \E i \in 1..n : s[i] = q
       /\ \A i, j \in 1..n : i < j => <<s[i], s[j]>> \in R
       /\ \A i, j \in 1..n : s[i] = s[j] => i = j
  <2>1. \A i, j \in 1..n : s[i] = s[j] => i = j
    BY <1>15, <1>18, <1>20, PlacesInOrder
  <2> QED
    BY <1>15, <1>20, <2>1 DEF InOrder
<1> DEFINE s0 == [i \in 1..n |-> Row(s[i].team)]
<1>22. ASSUME NEW i \in 1..n
       PROVE  s0[i] = Row(s[i].team) /\ s0[i] \in rows /\ s[i] \in Q /\ SameRecord(s0[i], s[i])
              /\ s[i].rank = Rank(s0[i]) /\ s[i] \in Rows
  BY <1>13, <1>21
<1>23. InOrder(s0, rows, R0)
  <2>1. s0 \in [1..n -> rows]
    BY <1>22
  <2>2. ASSUME NEW x \in rows
        PROVE  \E i \in 1..n : s0[i] = x
    <3>1. x.team \in T /\ x = Row(x.team)
      BY <1>4
    <3>2. PICK i \in 1..n : s[i] = Ranked(Row(x.team))
      BY <1>14, <1>21, <3>1
    <3>3. s[i].team = x.team
      BY <1>14, <3>1, <3>2
    <3> QED
      BY <3>1, <3>3
  <2> HIDE DEF s0
  <2>3. ASSUME NEW i \in 1..n, NEW j \in 1..n, i < j
        PROVE  <<s0[i], s0[j]>> \in R0
    <3>1. <<s[i], s[j]>> \in R
      BY <1>21, <2>3
    <3>2. s[i] \in Q /\ s[j] \in Q /\ s0[i] = Row(s[i].team) /\ s0[j] = Row(s[j].team)
          /\ s0[i] \in rows /\ s0[j] \in rows
      BY <1>22
    <3>3. Leads(Row(s[i].team), Row(s[j].team))
      BY <1>16, <3>1, <3>2
    <3> QED
      BY <1>6, <3>2, <3>3
  <2> QED
    BY <1>15, <2>1, <2>2, <2>3 DEF InOrder
<1> HIDE DEF s0
<1>24. ASSUME NEW i \in 1..n, NEW j \in 1..n
       PROVE  /\ s[j].rank \in 1..j
              /\ i < j /\ <<s0[i], s0[j]>> \notin E0 => i < s[j].rank
              /\ i < j /\ <<s0[i], s0[j]>> \in E0 => s[i].rank = s[j].rank
  <2>1. s[i].rank = ClassRank(s0[i], rows, R0, E0) /\ s[j].rank = ClassRank(s0[j], rows, R0, E0)
    BY <1>22 DEF Rank
  <2>2. j \in 1..Cardinality(rows) /\ i \in 1..Cardinality(rows)
    BY <1>15
  <2>3. /\ ClassRank(s0[j], rows, R0, E0) \in 1..j
        /\ \A k \in 1..Cardinality(rows) : k < j =>
              /\ <<s0[k], s0[j]>> \notin E0 => k < ClassRank(s0[j], rows, R0, E0)
              /\ <<s0[k], s0[j]>> \in E0 => ClassRank(s0[k], rows, R0, E0) = ClassRank(s0[j], rows, R0, E0)
    BY <1>3, <1>9, <1>10, <1>23, <2>2, ClassesRank
  <2> QED
    BY <2>1, <2>2, <2>3
<1>25. ASSUME NEW i \in 1..n, NEW j \in 1..n, i < j
       PROVE  /\ s[i].rank # s[j].rank => i < s[j].rank
              /\ s[i].rank = s[j].rank => S!LevelAcrossPools(s[i], s[j]) /\ s[i].team < s[j].team
  <2>1. s[i].rank # s[j].rank => i < s[j].rank
    BY <1>24, <1>25
  <2>2. ASSUME s[i].rank = s[j].rank
        PROVE  S!LevelAcrossPools(s[i], s[j]) /\ s[i].team < s[j].team
    <3>1. s[i].rank \in 1..i
      BY <1>24
    <3>2. <<s0[i], s0[j]>> \in E0
      BY <1>24, <1>25, <2>2, <3>1
    <3>3. PICK x, y : x = s0[i] /\ y = s0[j]
      OBVIOUS
    <3>4. x \in rows /\ y \in rows /\ SameRecord(x, s[i]) /\ SameRecord(y, s[j])
      BY <1>22, <3>3
    <3>5. <<x, y>> \in R0
      BY <1>15, <1>23, <1>25, <3>3 DEF InOrder
    <3>6. Leads(x, y) /\ (x = y \/ Alike(x, y))
      BY <1>6, <3>2, <3>3, <3>4, <3>5
    <3>7. Alike(x, y) /\ x.team < y.team
      BY <1>7, <1>8, <3>4, <3>6
    <3>8. S!LevelOnCompetitiveKeys(x, y)
      BY <3>7 DEF Alike, Shares
    <3>9. x \in Rows /\ y \in Rows /\ x.wins = y.wins /\ x.played = y.played
      BY <1>4, <3>4, <3>8 DEF S!LevelOnCompetitiveKeys
    <3>10. S!WinRateAbove(x, y) = S!WinRateAbove(x, x) /\ S!WinRateAbove(y, x) = S!WinRateAbove(x, x)
      BY <3>9 DEF S!WinRateAbove
    <3>11. S!LevelAcrossPools(x, x)
      BY <3>9, LevelCompare
    <3>12. S!LevelAcrossPools(x, y)
      BY <3>8, <3>10, <3>11 DEF S!LevelAcrossPools
    <3>13. S!LevelAcrossPools(s[i], s[j])
      BY <3>4, <3>12, RankIsNoKey
    <3> QED
      BY <3>4, <3>7, <3>13 DEF SameRecord
  <2> QED
    BY <2>1, <2>2
<1>26. {s[i].team : i \in 1..n} = T
  <2>1. \A i \in 1..n : s[i].team \in T
    BY <1>13, <1>22
  <2>2. \A t \in T : \E i \in 1..n : s[i].team = t
    BY <1>14, <1>21
  <2> QED
    BY <2>1, <2>2
<1>27. \A i, j \in 1..n : s[i].team = s[j].team => i = j
  BY <1>17, <1>21, <1>22
<1>28. s \in [1..n -> Rows] /\ \A i \in 1..n : s[i].rank \in 1..i
  <2>1. \A i \in 1..n : s[i] \in Rows /\ s[i].rank \in 1..i
    BY <1>22, <1>24
  <2> QED
    BY <1>21, <2>1
<1> QED
  BY <1>1, <1>19, <1>25, <1>26, <1>27, <1>28 DEF Table

-----------------------------------------------------------------------------
(* Lots. *)

\* The places of a lot are numbered by counting those before.
LEMMA PlacesAreCounted ==
  ASSUME NEW places, IsFiniteSet(places), places \subseteq Nat, NEW b,
         b = [i \in places |-> 1 + S!Cardinality({j \in places : j < i})]
  PROVE  CountsUp(b, places)
<1>1. PICK m \in Nat : m = Cardinality(places)
  BY FS_CardinalityType
<1> DEFINE R == {ij \in places \X places : ij[1] < ij[2]}
           C(i) == Cardinality({j \in places : <<j, i>> \in R})
<1>2. ASSUME NEW i \in places, NEW j \in places
      PROVE  <<i, j>> \in R <=> i < j
  OBVIOUS
<1> HIDE DEF R
<1>3. ASSUME NEW i \in places
      PROVE  b[i] = 1 + C(i)
  <2>1. {j \in places : j < i} = {j \in places : <<j, i>> \in R}
    BY <1>2
  <2> QED
    BY <2>1, StandingsCardinality
<1>4. TotalOrder(R, places)
  BY <1>2 DEF TotalOrder
<1>5. ASSUME NEW k \in 1..m
      PROVE  \E i \in places : C(i) = k - 1
  <2>1. EveryPlaceTaken(places, R)
    BY <1>4, ListsAreInOrder
  <2>2. \A i \in 1..Cardinality(places) : \E x \in places : Cardinality({y \in places : <<y, x>> \in R}) = i - 1
    BY <2>1 DEF EveryPlaceTaken
  <2>3. PICK x \in places : Cardinality({y \in places : <<y, x>> \in R}) = k - 1
    BY <1>1, <2>2
  <2> QED
    BY <2>3
<1> HIDE DEF C
<1> DEFINE p == [k \in 1..m |-> CHOOSE i \in places : C(i) = k - 1]
<1>6. ASSUME NEW k \in 1..m
      PROVE  p[k] \in places /\ C(p[k]) = k - 1
  BY <1>5
<1>7. p = [k \in 1..m |-> p[k]]
  OBVIOUS
<1> HIDE DEF p
<1>8. InOrder(p, places, R)
  <2>1. \A k \in 1..m : p[k] \in places /\ Cardinality({y \in places : <<y, p[k]>> \in R}) = k - 1
    BY <1>6 DEF C
  <2> QED
    BY <1>1, <1>4, <1>7, <2>1, ListsAreInOrder
<1>9. ASSUME NEW i \in places
      PROVE  \E k \in 1..m : p[k] = i /\ b[i] = k
  <2>1. PICK k \in 1..m : p[k] = i
    BY <1>1, <1>8 DEF InOrder
  <2> QED
    BY <1>3, <1>6, <2>1
<1>10. ASSUME NEW i \in places, NEW j \in places, i < j
       PROVE  b[i] < b[j]
  <2>1. PICK k \in 1..m : p[k] = i /\ b[i] = k
    BY <1>9
  <2>2. PICK l \in 1..m : p[l] = j /\ b[j] = l
    BY <1>9
  <2>3. <<p[k], p[l]>> \in R
    BY <1>2, <1>10, <2>1, <2>2
  <2>4. k < l
    BY <1>1, <1>4, <1>8, <2>3, PlacesInOrder
  <2> QED
    BY <2>1, <2>2, <2>4
<1>11. ASSUME NEW k \in 1..m
       PROVE  \E i \in places : b[i] = k
  <2>1. PICK i \in places : C(i) = k - 1
    BY <1>5
  <2>2. b[i] = 1 + C(i)
    BY <1>3
  <2>3. b[i] = k
    BY <2>1, <2>2
  <2> QED
    BY <2>3
<1>12. b \in [places -> 1..m]
  <2>1. \A i \in places : b[i] \in 1..m
    BY <1>9
  <2> QED
    BY <2>1
<1> QED
  BY <1>1, <1>10, <1>11, <1>12 DEF CountsUp

\* The teams of one rank put to a lot: the table stays one, the lot orders
\* them, and nothing else changes.
LEMMA LotsKeepATable ==
  ASSUME NEW T, NEW rows, Table(rows, T), NEW n \in Nat, n = Cardinality(T),
         NEW places, OneRank(rows, places, n), NEW lots, IsLot(lots, T),
         NEW new, new = S!DrawLots(rows, places, lots)
  PROVE  Table(new, T) /\ LotsDrawn(new, rows, places, n, lots)
<1>1. IsFiniteSet(places) /\ places \subseteq Nat
  <2>1. IsFiniteSet(1..n)
    <3>1. 1 \in Int /\ n \in Int
      OBVIOUS
    <3> QED
      BY <3>1, FS_Interval
  <2>2. places \subseteq 1..n
    BY DEF OneRank
  <2>3. IsFiniteSet(places)
    BY <2>1, <2>2, FS_Subset
  <2> QED
    BY <2>2, <2>3
<1>2. PICK m \in Nat : m = Cardinality(places)
  BY <1>1, FS_CardinalityType
<1>3. /\ rows \in [1..n -> Rows]
      /\ \A i \in 1..n : rows[i].team \in T
      /\ \A i, j \in 1..n : rows[i].team = rows[j].team => i = j
      /\ \A i \in places : i \in 1..n
  BY DEF Table, OneRank
<1> DEFINE P == {rows[i] : i \in places}
           R == {xy \in P \X P : lots[xy[1].team] < lots[xy[2].team]}
<1>4. PICK b : b = [i \in places |-> 1 + S!Cardinality({j \in places : j < i})]
  OBVIOUS
<1>5. /\ b \in [places -> 1..m]
      /\ \A i, j \in places : i < j => b[i] < b[j]
      /\ \A k \in 1..m : \E i \in places : b[i] = k
  <2>1. CountsUp(b, places)
    BY <1>1, <1>4, PlacesAreCounted
  <2> QED
    BY <1>2, <2>1 DEF CountsUp
<1>6. ASSUME NEW x \in P, NEW y \in P
      PROVE  <<x, y>> \in R <=> lots[x.team] < lots[y.team]
  OBVIOUS
<1>7. IsFiniteSet(P) /\ Cardinality(P) = m
  <2> DEFINE f == [i \in places |-> rows[i]]
  <2>1. f \in Bijection(places, P)
    BY <1>3 DEF Bijection, Injection, Surjection, IsInjective
  <2> HIDE DEF f, P
  <2>2. ExistsBijection(places, P)
    BY <2>1 DEF ExistsBijection
  <2> QED
    BY <1>1, <1>2, <2>2, FS_Bijection
<1>8. ASSUME NEW x \in P
      PROVE  x \in Rows /\ x.team \in T /\ lots[x.team] \in Int /\ \E j \in places : x = rows[j]
  BY <1>3 DEF IsLot
<1>9. ASSUME NEW x \in P, NEW y \in P, lots[x.team] = lots[y.team]
      PROVE  x = y
  BY <1>3, <1>8, <1>9 DEF IsLot
<1> HIDE DEF R, P
<1>10. TotalOrder(R, P)
  <2>1. \A x \in P : <<x, x>> \notin R
    BY <1>6, <1>8
  <2>2. \A x, y \in P : x # y => <<x, y>> \in R \/ <<y, x>> \in R
    BY <1>6, <1>8, <1>9
  <2>3. \A x, y, z \in P : <<x, y>> \in R /\ <<y, z>> \in R => <<x, z>> \in R
    BY <1>6, <1>8
  <2> QED
    BY <2>1, <2>2, <2>3 DEF TotalOrder
<1> DEFINE Count(z) == S!Cardinality({y \in P : lots[y.team] < lots[z.team]})
           s == [k \in 1..m |-> CHOOSE x \in P : Count(x) = k - 1]
<1>11. s = [k \in 1..m |-> s[k]]
  <2> HIDE DEF Count
  <2> QED
    OBVIOUS
<1>12. InOrder(s, P, R)
  <2>1. ASSUME NEW z \in P
        PROVE  Count(z) = Cardinality({y \in P : <<y, z>> \in R})
    <3>1. {y \in P : lots[y.team] < lots[z.team]} = {y \in P : <<y, z>> \in R}
      BY <1>6
    <3> QED
      BY <3>1, StandingsCardinality
  <2> HIDE DEF Count
  <2>2. ASSUME NEW k \in 1..m
        PROVE  s[k] \in P /\ Cardinality({y \in P : <<y, s[k]>> \in R}) = k - 1
    <3>1. EveryPlaceTaken(P, R)
      BY <1>7, <1>10, ListsAreInOrder
    <3>2. PICK x \in P : Cardinality({y \in P : <<y, x>> \in R}) = k - 1
      BY <1>7, <3>1 DEF EveryPlaceTaken
    <3>3. s[k] = CHOOSE z \in P : Count(z) = k - 1
      OBVIOUS
    <3> HIDE DEF s
    <3>4. Count(x) = k - 1
      BY <2>1, <3>2
    <3>5. s[k] \in P /\ Count(s[k]) = k - 1
      BY <3>3, <3>4
    <3> QED
      BY <2>1, <3>5
  <2> HIDE DEF s
  <2> QED
    BY <1>7, <1>10, <1>11, <2>2, ListsAreInOrder
<1>13. S!InLotOrder(P, lots) = s
  <2>1. S!InLotOrder(P, lots) = S!Sorted(P, LAMBDA x, y : lots[x.team] < lots[y.team])
    BY Zenon DEF S!InLotOrder
  <2>2. @ = S!SubSeq([k \in 1..S!Cardinality(P) |->
              CHOOSE x \in P : S!Cardinality({y \in P : lots[y.team] < lots[x.team]}) = k - 1], 1, S!Cardinality(P))
    BY Zenon DEF S!Sorted, S!List
  <2>3. S!Cardinality(P) = m
    BY <1>7, StandingsCardinality
  <2>4. S!InLotOrder(P, lots) = SubSeq(s, 1, m)
    BY <2>1, <2>2, <2>3, Zenon
  <2> HIDE DEF s
  <2>5. SubSeq(s, 1, m) = s
    BY <1>11, ListIs
  <2> QED
    BY <2>4, <2>5
<1> HIDE DEF s
<1>14. /\ s \in [1..m -> P]
       /\ \A x \in P : \E k \in 1..m : s[k] = x
       /\ \A k, l \in 1..m : k < l => lots[s[k].team] < lots[s[l].team]
       /\ \A k, l \in 1..m : s[k] = s[l] => k = l
  <2>1. \A k, l \in 1..m : s[k] = s[l] => k = l
    BY <1>7, <1>10, <1>12, PlacesInOrder
  <2>2. /\ s \in [1..m -> P]
        /\ \A x \in P : \E k \in 1..m : s[k] = x
        /\ \A k, l \in 1..m : k < l => <<s[k], s[l]>> \in R
    BY <1>7, <1>12 DEF InOrder
  <2> QED
    BY <1>6, <2>1, <2>2
<1>15. /\ new = [i \in 1..n |-> new[i]]
       /\ \A i \in places : new[i] = [s[b[i]] EXCEPT !.rank = i, !.lot = TRUE]
       /\ \A i \in (1..n) \ places : new[i] = rows[i]
  <2> DEFINE Row(i) == IF i \in places THEN [s[1 + S!Cardinality({j \in places : j < i})] EXCEPT !.rank = i, !.lot = TRUE]
                       ELSE rows[i]
  <2>1. DOMAIN rows = 1..n
    BY <1>3
  <2>2. S!DrawLots(rows, places, lots) = [i \in DOMAIN rows |-> Row(i)]
    BY <1>13, Zenon DEF S!DrawLots, P
  <2>3. new = [i \in 1..n |-> Row(i)]
    BY <2>1, <2>2, Zenon
  <2>4. \A i \in places : Row(i) = [s[b[i]] EXCEPT !.rank = i, !.lot = TRUE]
    BY <1>4
  <2>5. \A i \in (1..n) \ places : Row(i) = rows[i]
    OBVIOUS
  <2> HIDE DEF Row
  <2> QED
    BY <1>3, <2>3, <2>4, <2>5, Zenon
<1>16. ASSUME NEW i \in places
       PROVE  /\ i \in 1..n /\ b[i] \in 1..m /\ s[b[i]] \in P
              /\ new[i] \in Rows /\ new[i].rank = i /\ new[i].team = s[b[i]].team
              /\ SameRecord(s[b[i]], new[i])
  <2>1. i \in 1..n /\ b[i] \in 1..m /\ s[b[i]] \in P
    BY <1>3, <1>5, <1>14
  <2>2. s[b[i]] \in Rows
    BY <1>8, <2>1
  <2>3. i \in Nat /\ new[i] = [s[b[i]] EXCEPT !.rank = i, !.lot = TRUE]
    <3>1. i \in Nat
      BY <2>1
    <3>2. new[i] = [s[b[i]] EXCEPT !.rank = i, !.lot = TRUE]
      BY <1>15, Zenon
    <3> QED
      BY <3>1, <3>2
  <2>4. PICK x \in Rows : x = s[b[i]]
    BY <2>2
  <2>5. new[i] = [x EXCEPT !.rank = i, !.lot = TRUE]
    BY <2>3, <2>4
  <2>6. new[i] \in Rows /\ new[i].rank = i /\ SameRecord(x, new[i])
    BY <2>3, <2>5 DEF Rows, SameRecord
  <2> QED
    BY <2>1, <2>4, <2>6 DEF SameRecord
<1>17. ASSUME NEW i \in places
       PROVE  \E j \in places : SameRecord(rows[j], new[i])
  BY <1>8, <1>16
<1>18. ASSUME NEW i \in places, NEW j \in places, i < j
       PROVE  lots[new[i].team] < lots[new[j].team]
  <2>1. b[i] \in 1..m /\ b[j] \in 1..m /\ b[i] < b[j]
    BY <1>5, <1>18
  <2>2. lots[s[b[i]].team] < lots[s[b[j]].team]
    BY <1>14, <2>1
  <2>3. new[i].team = s[b[i]].team /\ new[j].team = s[b[j]].team
    BY <1>16
  <2> QED
    BY <2>2, <2>3
<1>19. {new[i].team : i \in 1..n} = T
  <2>1. ASSUME NEW i \in 1..n PROVE new[i].team \in T
    <3>1. CASE i \in places
      BY <1>8, <1>16, <3>1
    <3>2. CASE i \notin places
      BY <1>3, <1>15, <3>2, Zenon
    <3> QED
      BY <3>1, <3>2
  <2>2. ASSUME NEW t \in T PROVE \E i \in 1..n : new[i].team = t
    <3>1. PICK j \in 1..n : rows[j].team = t
      BY DEF Table
    <3>2. CASE j \notin places
      BY <1>15, <3>1, <3>2, Zenon
    <3>3. CASE j \in places
      <4>1. rows[j] \in P
        BY <3>3 DEF P
      <4>2. PICK k \in 1..m : s[k] = rows[j]
        BY <1>14, <4>1
      <4>3. PICK i \in places : b[i] = k
        BY <1>5
      <4> QED
        BY <1>16, <3>1, <4>2, <4>3
    <3> QED
      BY <3>2, <3>3
  <2> QED
    BY <2>1, <2>2
<1>20. ASSUME NEW i \in 1..n, NEW j \in 1..n, new[i].team = new[j].team
       PROVE  i = j
  <2>1. CASE i \in places /\ j \in places
    <3>1. s[b[i]].team = s[b[j]].team /\ s[b[i]] \in P /\ s[b[j]] \in P
      BY <1>16, <1>20, <2>1
    <3>2. s[b[i]] = s[b[j]]
      BY <1>9, <3>1
    <3>3. b[i] = b[j]
      BY <1>14, <1>16, <2>1, <3>2
    <3>4. b[i] \in Nat /\ i \in Nat /\ j \in Nat
      BY <1>16, <2>1
    <3> QED
      BY <1>5, <2>1, <3>3, <3>4
  <2>2. CASE i \notin places /\ j \notin places
    BY <1>3, <1>15, <1>20, <2>2, Zenon
  <2>3. ASSUME NEW x \in places, NEW y \in (1..n) \ places, new[x].team = new[y].team
        PROVE  FALSE
    <3>1. PICK z \in places : s[b[x]] = rows[z]
      BY <1>8, <1>16
    <3>2. rows[z].team = rows[y].team
      BY <1>15, <1>16, <2>3, <3>1
    <3>3. z = y
      BY <1>3, <3>2
    <3> QED
      BY <3>3
  <2> QED
    BY <1>20, <2>1, <2>2, <2>3
<1>21. ASSUME NEW i \in 1..n PROVE new[i] \in Rows /\ new[i].rank \in 1..i
  <2>1. CASE i \in places
    BY <1>16, <2>1
  <2>2. CASE i \notin places
    <3>1. new[i] = rows[i]
      BY <1>15, <2>2, Zenon
    <3> QED
      BY <3>1 DEF Table
  <2> QED
    BY <2>1, <2>2
<1>22. ASSUME NEW i \in 1..n, NEW j \in 1..n, i < j
       PROVE  /\ new[i].rank # new[j].rank => i < new[j].rank
              /\ new[i].rank = new[j].rank =>
                   S!LevelAcrossPools(new[i], new[j]) /\ new[i].team < new[j].team
  <2>1. /\ rows[i].rank # rows[j].rank => i < rows[j].rank
        /\ rows[i].rank = rows[j].rank =>
             S!LevelAcrossPools(rows[i], rows[j]) /\ rows[i].team < rows[j].team
    BY <1>22 DEF Table
  <2>2. CASE j \in places
    <3>1. new[j].rank = j /\ new[i].rank \in 1..i
      BY <1>16, <1>21, <2>2
    <3> QED
      BY <1>22, <3>1
  <2>3. CASE i \in places /\ j \notin places
    <3>1. rows[i].rank # rows[j].rank /\ new[j] = rows[j] /\ new[i].rank = i
      BY <1>15, <1>16, <2>3, Zenon DEF OneRank
    <3>2. i < new[j].rank
      BY <2>1, <3>1
    <3> QED
      BY <3>1, <3>2
  <2>4. CASE i \notin places /\ j \notin places
    <3>1. new[i] = rows[i] /\ new[j] = rows[j]
      BY <1>15, <2>4, Zenon
    <3> QED
      BY <2>1, <3>1
  <2> QED
    BY <2>2, <2>3, <2>4
<1>23. new \in [1..n -> Rows]
  BY <1>15, <1>21, Zenon
<1>24. Table(new, T)
  BY <1>19, <1>20, <1>21, <1>22, <1>23 DEF Table
<1>25. \A i \in places : new[i].rank = i
  BY <1>16
<1> QED
  BY <1>15, <1>17, <1>18, <1>24, <1>25, Zenon DEF LotsDrawn

\* A class that stands together in an order may be ordered by itself.
LEMMA ClassReordered ==
  ASSUME NEW T, NEW R, TotalOrder(R, T), NEW C \in SUBSET T, NEW L, TotalOrder(L, C),
         \A x, y \in C, z \in T \ C : ~(<<x, z>> \in R /\ <<z, y>> \in R),
         NEW N, \A x, y \in T : <<x, y>> \in N <=> IF x \in C /\ y \in C THEN <<x, y>> \in L ELSE <<x, y>> \in R
  PROVE  TotalOrder(N, T)
<1>1. \A x \in T : <<x, x>> \notin N
  BY Zenon DEF TotalOrder
<1>2. \A x, y \in T : x # y => <<x, y>> \in N \/ <<y, x>> \in N
  BY Zenon DEF TotalOrder
<1>3. ASSUME NEW x \in T, NEW y \in T, NEW z \in T, <<x, y>> \in N, <<y, z>> \in N
      PROVE  <<x, z>> \in N
  <2>1. CASE x \in C /\ y \in C /\ z \in C
    BY <1>3, <2>1 DEF TotalOrder
  <2>2. CASE x \in C /\ y \in C /\ z \notin C
    <3>1. <<y, z>> \in R
      BY <1>3, <2>2
    <3>2. x # z /\ ~(<<z, x>> \in R)
      BY <2>2, <3>1
    <3> QED
      BY <2>2, <3>2 DEF TotalOrder
  <2>3. CASE x \notin C /\ y \in C /\ z \in C
    <3>1. <<x, y>> \in R
      BY <1>3, <2>3
    <3>2. x # z /\ ~(<<z, x>> \in R)
      BY <2>3, <3>1
    <3> QED
      BY <2>3, <3>2 DEF TotalOrder
  <2>4. CASE x \in C /\ y \notin C /\ z \in C
    BY <1>3, <2>4
  <2>5. CASE y \notin C /\ ~(x \in C /\ z \in C)
    BY <1>3, <2>5 DEF TotalOrder
  <2>6. CASE y \in C /\ x \notin C /\ z \notin C
    BY <1>3, <2>6 DEF TotalOrder
  <2> QED
    BY <2>1, <2>2, <2>3, <2>4, <2>5, <2>6
<1> QED
  BY <1>1, <1>2, <1>3 DEF TotalOrder

\* Who stands at a place has as many before it.
LEMMA PlaceIsCount ==
  ASSUME NEW T, IsFiniteSet(T), NEW R, TotalOrder(R, T), NEW s, InOrder(s, T, R),
         NEW n \in Nat, n = Cardinality(T), NEW k \in 1..n
  PROVE  Cardinality({y \in T : <<y, s[k]>> \in R}) = k - 1
<1> DEFINE B == {y \in T : <<y, s[k]>> \in R}
           f == [i \in 1..(k - 1) |-> s[i]]
<1>1. /\ \A i \in 1..n : s[i] \in T
      /\ \A i, j \in 1..n : s[i] = s[j] => i = j
      /\ \A i, j \in 1..n : <<s[i], s[j]>> \in R => i < j
      /\ \A i, j \in 1..n : i < j => <<s[i], s[j]>> \in R
      /\ \A x \in T : \E i \in 1..n : s[i] = x
  BY PlacesInOrder DEF InOrder
<1>2. f \in Bijection(1..(k - 1), B)
  <2>1. \A i \in 1..(k - 1) : f[i] = s[i] /\ i \in 1..n /\ f[i] \in B
    BY <1>1
  <2>2. ASSUME NEW y \in B PROVE \E i \in 1..(k - 1) : f[i] = y
    <3>1. PICK i \in 1..n : s[i] = y
      BY <1>1
    <3>2. i < k
      BY <1>1, <3>1
    <3> QED
      BY <3>1, <3>2
  <2>3. f \in [1..(k - 1) -> B]
    BY <2>1
  <2> HIDE DEF f, B
  <2>4. \A i, j \in 1..(k - 1) : f[i] = f[j] => i = j
    BY <1>1, <2>1
  <2> QED
    BY <2>2, <2>3, <2>4 DEF Bijection, Injection, Surjection, IsInjective
<1>3. IsFiniteSet(1..(k - 1)) /\ Cardinality(1..(k - 1)) = k - 1
  <2>1. 1 \in Int /\ k - 1 \in Int /\ (IF 1 > k - 1 THEN 0 ELSE k - 1 - 1 + 1) = k - 1
    OBVIOUS
  <2> QED
    BY <2>1, FS_Interval
<1> HIDE DEF f, B
<1>4. ExistsBijection(1..(k - 1), B)
  BY <1>2 DEF ExistsBijection
<1>5. Cardinality(B) = k - 1
  BY <1>3, <1>4, FS_Bijection
<1> QED
  BY <1>5 DEF B

\* Once the cut of a pool is put to the lot there is a table with no rank
\* shared across it.
LEMMA CutIsDrawn ==
  ASSUME NEW T, NEW rows, Table(rows, T), NEW n \in Nat, n = Cardinality(T), NEW perPool \in Nat \ {0},
         NEW lots, IsLot(lots, T),
         NEW new, new = S!DrawLots(rows, S!TiedAtCut(rows, perPool), lots)
  PROVE  Table(new, T) /\ CutApart(new, n, perPool)
<1> DEFINE tied == {i \in 1..n : rows[i].rank = rows[perPool].rank}
<1>1. PICK places : places = S!TiedAtCut(rows, perPool)
  OBVIOUS
<1>2. DOMAIN rows = 1..n /\ Len(rows) = n /\ \A i \in 1..n : rows[i].rank \in 1..i
  BY DEF Table
<1>3. places = IF perPool >= n THEN {} ELSE IF \A i \in tied : i <= perPool THEN {} ELSE tied
  BY <1>1, <1>2 DEF S!TiedAtCut
<1>4. OneRank(rows, places, n)
  BY <1>3 DEF OneRank
<1>5. Table(new, T)
  BY <1>1, <1>4, LotsKeepATable
<1>6. LotsDrawn(new, rows, places, n, lots)
  BY <1>1, <1>4, LotsKeepATable
<1>7. /\ \A i \in places : new[i].rank = i
      /\ \A i \in (1..n) \ places : new[i] = rows[i]
  BY <1>6 DEF LotsDrawn
<1>8. ASSUME NEW i \in 1..n, NEW j \in 1..n, i <= perPool, perPool < j
      PROVE  new[i].rank # new[j].rank
  <2>1. perPool \in 1..n /\ perPool < n
    BY <1>8
  <2>2. rows[i].rank \in 1..i /\ rows[j].rank \in 1..j /\ rows[perPool].rank \in 1..perPool
    BY <1>2, <2>1
  <2>3. CASE j \in places
    <3>1. new[j].rank = j
      BY <1>7, <2>3
    <3>2. new[i].rank \in 1..i
      BY <1>5 DEF Table
    <3> QED
      BY <1>8, <3>1, <3>2
  <2>4. CASE i \in places /\ j \notin places
    <3>1. new[i].rank = i /\ new[j] = rows[j]
      BY <1>7, <2>4
    <3>2. rows[i].rank # rows[j].rank
      BY <1>4, <2>4 DEF OneRank
    <3>3. i < rows[j].rank
      BY <1>8, <3>2 DEF Table
    <3> QED
      BY <3>1, <3>3
  <2>5. CASE i \notin places /\ j \notin places
    <3>1. new[i] = rows[i] /\ new[j] = rows[j]
      BY <1>7, <2>5
    <3>2. ASSUME rows[i].rank = rows[j].rank
          PROVE  FALSE
      <4>1. i < perPool /\ rows[i].rank # rows[perPool].rank => i < rows[perPool].rank
        BY <2>1 DEF Table
      <4>2. rows[perPool].rank # rows[j].rank => perPool < rows[j].rank
        BY <1>8, <2>1 DEF Table
      <4>3. rows[perPool].rank = rows[j].rank
        BY <1>8, <2>1, <2>2, <3>2, <4>2
      <4>4. j \in tied
        BY <4>3
      <4> QED
        BY <1>3, <1>8, <2>1, <2>5, <4>4
    <3> QED
      BY <3>1, <3>2
  <2> QED
    BY <2>3, <2>4, <2>5
<1> QED
  BY <1>5, <1>8 DEF CutApart

\* Place and strength put rows of different teams in one order, and level rows
\* of one rank stand together in it.
LEMMA StrengthCompare ==
  ASSUME NEW x \in Rows, NEW y \in Rows, NEW z \in Rows
  PROVE  /\ ~S!ByPlaceThenStrength(x, x)
         /\ x.team # y.team => S!ByPlaceThenStrength(x, y) \/ S!ByPlaceThenStrength(y, x)
         /\ S!ByPlaceThenStrength(x, y) /\ S!ByPlaceThenStrength(y, z) => S!ByPlaceThenStrength(x, z)
         /\ S!ByPlaceThenStrength(x, y) /\ S!ByPlaceThenStrength(y, z) /\ x.rank = z.rank /\ S!LevelAcrossPools(x, z)
              => x.rank = y.rank /\ S!LevelAcrossPools(x, y)
         /\ x.rank = y.rank /\ S!LevelAcrossPools(x, y) /\ x.team < y.team => S!ByPlaceThenStrength(x, y)
         /\ x.rank < y.rank => S!ByPlaceThenStrength(x, y)
<1>1. x.rank \in Nat /\ y.rank \in Nat /\ z.rank \in Nat
  BY DEF Rows
<1>2. ASSUME NEW u \in {x, y, z}, NEW v \in {x, y, z}
      PROVE  /\ u.rank # v.rank => (S!ByPlaceThenStrength(u, v) <=> u.rank < v.rank)
             /\ u.rank = v.rank => (S!ByPlaceThenStrength(u, v) <=> S!AheadAcrossPools(u, v))
  BY DEF S!ByPlaceThenStrength
<1>3. /\ ~S!AheadAcrossPools(x, x)
      /\ x.team # y.team => S!AheadAcrossPools(x, y) \/ S!AheadAcrossPools(y, x)
      /\ S!AheadAcrossPools(x, y) /\ S!AheadAcrossPools(y, z) => S!AheadAcrossPools(x, z)
      /\ S!LevelAcrossPools(x, y) => (S!AheadAcrossPools(x, y) <=> x.team < y.team)
  BY AcrossCompare
<1>4. S!LevelAcrossPools(x, z) /\ S!AheadAcrossPools(x, y) /\ S!AheadAcrossPools(y, z)
        => S!LevelAcrossPools(x, y)
  BY LevelCompare
<1>5. ~S!ByPlaceThenStrength(x, x)
  BY <1>2, <1>3
<1>6. x.team # y.team => S!ByPlaceThenStrength(x, y) \/ S!ByPlaceThenStrength(y, x)
  <2>1. x.rank < y.rank \/ x.rank = y.rank \/ y.rank < x.rank
    BY <1>1
  <2> QED
    BY <1>1, <1>2, <1>3, <2>1
<1>7. ASSUME S!ByPlaceThenStrength(x, y), S!ByPlaceThenStrength(y, z)
      PROVE  /\ S!ByPlaceThenStrength(x, z)
             /\ x.rank = z.rank /\ S!LevelAcrossPools(x, z) => x.rank = y.rank /\ S!LevelAcrossPools(x, y)
  <2>1. x.rank < y.rank \/ (x.rank = y.rank /\ S!AheadAcrossPools(x, y))
    BY <1>2, <1>7
  <2>2. y.rank < z.rank \/ (y.rank = z.rank /\ S!AheadAcrossPools(y, z))
    BY <1>2, <1>7
  <2>3. CASE x.rank = y.rank /\ y.rank = z.rank
    <3>1. S!AheadAcrossPools(x, y) /\ S!AheadAcrossPools(y, z)
      BY <1>1, <2>1, <2>2, <2>3
    <3> QED
      BY <1>2, <1>3, <1>4, <2>3, <3>1
  <2>4. CASE ~(x.rank = y.rank /\ y.rank = z.rank)
    <3>1. x.rank < z.rank /\ x.rank # z.rank
      BY <1>1, <2>1, <2>2, <2>4
    <3> QED
      BY <1>2, <3>1
  <2> QED
    BY <2>3, <2>4
<1>8. x.rank < y.rank => S!ByPlaceThenStrength(x, y)
  BY <1>1, <1>2
<1>9. x.rank = y.rank /\ S!LevelAcrossPools(x, y) /\ x.team < y.team => S!ByPlaceThenStrength(x, y)
  BY <1>2, <1>3
<1> QED
  BY <1>5, <1>6, <1>7, <1>8, <1>9

-----------------------------------------------------------------------------
(* The order across pools. *)

\* Rows sorted by place and strength are in that order.
LEMMA StrengthSorts ==
  ASSUME NEW A, OfTeams(A), NEW R, \A x, y \in A : <<x, y>> \in R <=> S!ByPlaceThenStrength(x, y)
  PROVE  TotalOrder(R, A) /\ InOrder(S!Sorted(A, S!ByPlaceThenStrength), A, R)
<1>1. PICK m \in Nat : m = Cardinality(A)
  BY FS_CardinalityType DEF OfTeams
<1>2. IsFiniteSet(A) /\ \A x \in A : x \in Rows
  BY DEF OfTeams
<1>3. TotalOrder(R, A)
  <2>1. \A x \in A : <<x, x>> \notin R
    BY <1>2, StrengthCompare
  <2>2. ASSUME NEW x \in A, NEW y \in A, x # y
        PROVE  <<x, y>> \in R \/ <<y, x>> \in R
    <3>1. x.team # y.team
      BY <2>2 DEF OfTeams
    <3> QED
      BY <1>2, <3>1, StrengthCompare
  <2>3. \A x, y, z \in A : <<x, y>> \in R /\ <<y, z>> \in R => <<x, z>> \in R
    BY <1>2, StrengthCompare
  <2> QED
    BY <2>1, <2>2, <2>3 DEF TotalOrder
<1> DEFINE Count(z) == S!Cardinality({y \in A : S!ByPlaceThenStrength(y, z)})
           s == [k \in 1..m |-> CHOOSE x \in A : Count(x) = k - 1]
<1>4. s = [k \in 1..m |-> s[k]]
  <2> HIDE DEF Count
  <2> QED
    OBVIOUS
<1>5. S!Sorted(A, S!ByPlaceThenStrength) = s
  <2>1. S!Sorted(A, S!ByPlaceThenStrength) = S!SubSeq([k \in 1..S!Cardinality(A) |->
          CHOOSE x \in A : S!Cardinality({y \in A : S!ByPlaceThenStrength(y, x)}) = k - 1], 1, S!Cardinality(A))
    BY Zenon DEF S!Sorted, S!List
  <2>2. S!Cardinality(A) = m
    BY <1>1, StandingsCardinality
  <2>3. S!Sorted(A, S!ByPlaceThenStrength) = SubSeq(s, 1, m)
    BY <2>1, <2>2
  <2> HIDE DEF s
  <2>4. SubSeq(s, 1, m) = s
    BY <1>4, ListIs
  <2> QED
    BY <2>3, <2>4
<1>6. ASSUME NEW z \in A
      PROVE  Count(z) = Cardinality({y \in A : <<y, z>> \in R})
  <2>1. {y \in A : S!ByPlaceThenStrength(y, z)} = {y \in A : <<y, z>> \in R}
    OBVIOUS
  <2> QED
    BY <2>1, StandingsCardinality
<1> HIDE DEF Count
<1>7. ASSUME NEW k \in 1..m
      PROVE  s[k] \in A /\ Cardinality({y \in A : <<y, s[k]>> \in R}) = k - 1
  <2>1. EveryPlaceTaken(A, R)
    BY <1>2, <1>3, ListsAreInOrder
  <2>2. PICK x \in A : Cardinality({y \in A : <<y, x>> \in R}) = k - 1
    BY <1>1, <2>1 DEF EveryPlaceTaken
  <2>3. s[k] = CHOOSE z \in A : Count(z) = k - 1
    OBVIOUS
  <2> HIDE DEF s
  <2>4. Count(x) = k - 1
    BY <1>6, <2>2
  <2>5. s[k] \in A /\ Count(s[k]) = k - 1
    BY <2>3, <2>4
  <2> QED
    BY <1>6, <2>5
<1> HIDE DEF s
<1>8. InOrder(s, A, R)
  BY <1>1, <1>2, <1>3, <1>4, <1>7, ListsAreInOrder
<1> QED
  BY <1>3, <1>5, <1>8

\* The rows tied for the last wildcard are the class its cut goes through.
LEMMA TiedAreACutClass ==
  ASSUME NEW A, OfTeams(A), NEW R, \A x, y \in A : <<x, y>> \in R <=> S!ByPlaceThenStrength(x, y),
         NEW s, InOrder(s, A, R), NEW m \in Nat, m = Cardinality(A), NEW n \in 0..m
  PROVE  CutClass(S!TiedAtLast(s, n), s, A, m, n)
<1>1. /\ s \in [1..m -> A]
      /\ \A x \in A : \E i \in 1..m : s[i] = x
      /\ \A i, j \in 1..m : i < j => S!ByPlaceThenStrength(s[i], s[j])
      /\ \A x \in A : x \in Rows
  BY DEF InOrder, OfTeams
<1>2. ASSUME NEW x \in A, NEW y \in A, NEW z \in A
      PROVE  /\ Even(x, x)
             /\ Even(x, y) => Even(y, x)
             /\ Even(x, y) /\ Even(y, z) => Even(x, z)
             /\ S!ByPlaceThenStrength(x, y) /\ S!ByPlaceThenStrength(y, z) /\ Even(x, z) => Even(x, y)
  <2>1. x \in Rows /\ y \in Rows /\ z \in Rows
    BY <1>1
  <2>2. /\ S!LevelAcrossPools(x, x)
        /\ S!LevelAcrossPools(x, y) => S!LevelAcrossPools(y, x)
        /\ S!LevelAcrossPools(x, y) /\ S!LevelAcrossPools(y, z) => S!LevelAcrossPools(x, z)
    BY <2>1, LevelCompare
  <2>3. S!ByPlaceThenStrength(x, y) /\ S!ByPlaceThenStrength(y, z) /\ x.rank = z.rank /\ S!LevelAcrossPools(x, z)
          => x.rank = y.rank /\ S!LevelAcrossPools(x, y)
    BY <2>1, StrengthCompare
  <2> QED
    BY <2>2, <2>3 DEF Even
<1> DEFINE Class == {x \in A : Even(x, s[n])}
           C == IF n = 0 \/ n >= m THEN {} ELSE IF Even(s[n], s[n + 1]) THEN Class ELSE {}
<1>3. S!TiedAtLast(s, n) = C
  <2>1. Len(s) = m
    BY <1>1
  <2>2. S!ToSet(s) = A
    BY <1>1 DEF S!ToSet
  <2> QED
    BY <2>1, <2>2 DEF S!TiedAtLast, Even
<1>4. C = {} \/ (C = Class /\ n \in 1..m)
  OBVIOUS
<1>5. C \in SUBSET A /\ (\A x, y \in C : Even(x, y)) /\ (\A x \in C, y \in A : Even(x, y) => y \in C)
  <2>1. ASSUME n \in 1..m
        PROVE  (\A x, y \in Class : Even(x, y)) /\ (\A x \in Class, y \in A : Even(x, y) => y \in Class)
    <3>1. PICK z \in A : z = s[n]
      BY <1>1, <2>1
    <3> QED
      BY <1>2, <3>1
  <2> HIDE DEF C
  <2> QED
    BY <1>4, <2>1
<1>6. ASSUME NEW a \in 1..m, NEW b \in 1..m, a <= n, n < b, Even(s[a], s[b])
      PROVE  s[a] \in C
  <2>1. n \in 1..m /\ n + 1 \in 1..m /\ n # 0 /\ ~(n >= m)
    BY <1>6
  <2>2. PICK x, y, z, w : x = s[a] /\ y = s[n] /\ z = s[n + 1] /\ w = s[b]
    OBVIOUS
  <2>3. x \in A /\ y \in A /\ z \in A /\ w \in A
    BY <1>1, <2>1, <2>2
  <2>4. x = y \/ S!ByPlaceThenStrength(x, y)
    <3>1. a = n \/ a < n
      BY <1>6, <2>1
    <3> QED
      BY <1>1, <2>1, <2>2, <3>1
  <2>5. z = w \/ S!ByPlaceThenStrength(z, w)
    <3>1. n + 1 = b \/ n + 1 < b
      BY <1>6, <2>1
    <3> QED
      BY <1>1, <2>1, <2>2, <3>1
  <2>6. S!ByPlaceThenStrength(y, w) /\ S!ByPlaceThenStrength(x, z)
    <3>1. n < b /\ a < n + 1
      BY <1>6, <2>1
    <3> QED
      BY <1>1, <2>1, <2>2, <3>1
  <2>7. Even(x, w)
    BY <1>6, <2>2
  <2>8. Even(x, y)
    BY <1>2, <2>3, <2>4, <2>6, <2>7
  <2>9. Even(x, z)
    BY <1>2, <2>3, <2>5, <2>6, <2>7
  <2>10. Even(y, z)
    BY <1>2, <2>3, <2>8, <2>9
  <2> QED
    BY <2>1, <2>2, <2>3, <2>8, <2>10
<1> HIDE DEF C
<1> QED
  BY <1>3, <1>5, <1>6 DEF CutClass

\* The wildcards' order is one, in which whoever is not of the class stands
\* where it did.
LEMMA WildOrderIsOne ==
  ASSUME NEW A, OfTeams(A), NEW R, \A x, y \in A : <<x, y>> \in R <=> S!ByPlaceThenStrength(x, y),
         NEW s, InOrder(s, A, R), NEW m \in Nat, m = Cardinality(A), NEW n \in 0..m,
         NEW C, CutClass(C, s, A, m, n), NEW lots, \A x \in A : lots[x.team] \in Int,
         \A x, y \in A : lots[x.team] = lots[y.team] => x = y
  PROVE  /\ TotalOrder(WildOrder(A, C, lots), A)
         /\ \A o : InOrder(o, A, WildOrder(A, C, lots)) => OthersStay(o, s, A, C, m)
<1> DEFINE N == WildOrder(A, C, lots)
           L == {xy \in C \X C : lots[xy[1].team] < lots[xy[2].team]}
<1>1. IsFiniteSet(A) /\ (\A x \in A : x \in Rows) /\ C \in SUBSET A
  BY DEF OfTeams, CutClass
<1>2. ASSUME NEW x \in A, NEW y \in A
      PROVE  /\ x \in C /\ y \in C => (<<x, y>> \in N <=> lots[x.team] < lots[y.team])
             /\ ~(x \in C /\ y \in C) => (<<x, y>> \in N <=> <<x, y>> \in R)
  BY DEF WildOrder
<1>3. ASSUME NEW x \in C, NEW y \in C
      PROVE  <<x, y>> \in L <=> lots[x.team] < lots[y.team]
  OBVIOUS
<1> HIDE DEF N, L
<1>4. TotalOrder(R, A)
  BY StrengthSorts
<1>5. TotalOrder(L, C)
  <2>1. \A x \in C : lots[x.team] \in Int
    BY <1>1
  <2>2. \A x, y \in C : x # y => lots[x.team] # lots[y.team]
    BY <1>1
  <2>3. \A x \in C : <<x, x>> \notin L
    BY <1>3, <2>1
  <2>4. \A x, y \in C : x # y => <<x, y>> \in L \/ <<y, x>> \in L
    BY <1>3, <2>1, <2>2
  <2>5. \A x, y, z \in C : <<x, y>> \in L /\ <<y, z>> \in L => <<x, z>> \in L
    BY <1>3, <2>1
  <2> QED
    BY <2>3, <2>4, <2>5 DEF TotalOrder
<1>6. ASSUME NEW x \in C, NEW y \in C, NEW z \in A \ C, <<x, z>> \in R, <<z, y>> \in R
      PROVE  FALSE
  <2>1. Even(x, y)
    BY DEF CutClass
  <2>2. S!ByPlaceThenStrength(x, z) /\ S!ByPlaceThenStrength(z, y)
    BY <1>1, <1>6
  <2>3. x \in Rows /\ y \in Rows /\ z \in Rows
    BY <1>1
  <2>4. Even(x, z)
    BY <2>1, <2>2, <2>3, StrengthCompare DEF Even
  <2> QED
    BY <2>4 DEF CutClass
<1>7. TotalOrder(N, A)
  <2>1. \A x, y \in A : <<x, y>> \in N <=> IF x \in C /\ y \in C THEN <<x, y>> \in L ELSE <<x, y>> \in R
    BY <1>2, <1>3, Zenon
  <2>2. \A x, y \in C, z \in A \ C : ~(<<x, z>> \in R /\ <<z, y>> \in R)
    BY <1>6, Zenon
  <2> QED
    BY <1>1, <1>4, <1>5, <2>1, <2>2, ClassReordered
<1>8. ASSUME NEW o, InOrder(o, A, N), NEW x \in A \ C, NEW k \in 1..m
      PROVE  o[k] = x <=> s[k] = x
  <2>1. {y \in A : <<y, x>> \in N} = {y \in A : <<y, x>> \in R}
    BY <1>2
  <2>2. ASSUME NEW j \in 1..m PROVE Cardinality({y \in A : <<y, o[j]>> \in N}) = j - 1
    BY <1>1, <1>7, <1>8, PlaceIsCount
  <2>3. ASSUME NEW j \in 1..m PROVE Cardinality({y \in A : <<y, s[j]>> \in R}) = j - 1
    BY <1>1, <1>4, PlaceIsCount
  <2>4. PICK i \in 1..m : o[i] = x
    BY <1>8 DEF InOrder
  <2>5. PICK j \in 1..m : s[j] = x
    BY DEF InOrder
  <2>6. i = j
    <3>1. Cardinality({y \in A : <<y, x>> \in N}) = i - 1
      BY <2>2, <2>4
    <3>2. Cardinality({y \in A : <<y, x>> \in R}) = j - 1
      BY <2>3, <2>5
    <3>3. i - 1 = j - 1
      BY <2>1, <3>1, <3>2
    <3> QED
      BY <3>3
  <2>7. \A a, b \in 1..m : o[a] = o[b] => a = b
    BY <1>1, <1>7, <1>8, PlacesInOrder
  <2>8. \A a, b \in 1..m : s[a] = s[b] => a = b
    BY <1>1, <1>4, PlacesInOrder
  <2> QED
    BY <2>4, <2>5, <2>6, <2>7, <2>8
<1> QED
  BY <1>7, <1>8 DEF N, OthersStay

-----------------------------------------------------------------------------
(* The cut lines. *)

\* A team has one row in the tables.
LEMMA OneRowEach ==
  ASSUME NEW k \in Nat, NEW F, NEW pools, Tables(pools, F, k),
         NEW p \in 1..k, NEW q \in 1..k, NEW i \in 1..Cardinality(F[p]), NEW j \in 1..Cardinality(F[q]),
         pools[p][i].team = pools[q][j].team
  PROVE  p = q /\ i = j
<1>1. Table(pools[p], F[p]) /\ Table(pools[q], F[q])
  BY DEF Tables
<1>2. pools[p][i].team \in F[p] /\ pools[q][j].team \in F[q]
  BY <1>1 DEF Table
<1>3. p = q
  BY <1>2 DEF Tables
<1>4. i = j
  BY <1>1, <1>3 DEF Table
<1> QED
  BY <1>3, <1>4

\* The rows of the tables from a place on, and up to it.
LEMMA RowsOfTables ==
  ASSUME NEW k \in Nat, NEW F, NEW pools, Tables(pools, F, k), NEW place
  PROVE  /\ AfterPlace(S!RowsAfter(pools, place), pools, F, k, place)
         /\ UpToPlace(S!RowsUpTo(pools, place), pools, F, k, place)
         /\ OfTeams(S!RowsAfter(pools, place))
         /\ OfTeams(S!RowsUpTo(pools, place))
<1>1. DOMAIN pools = 1..k
  BY DEF Tables
<1>2. ASSUME NEW p \in 1..k
      PROVE  /\ DOMAIN pools[p] = 1..Cardinality(F[p]) /\ IsFiniteSet(1..Cardinality(F[p]))
             /\ \A i \in 1..Cardinality(F[p]) : pools[p][i] \in Rows
  <2>1. pools[p] \in [1..Cardinality(F[p]) -> Rows] /\ Cardinality(F[p]) \in Nat
    BY DEF Tables, Table
  <2>2. 1 \in Int /\ Cardinality(F[p]) \in Int
    BY <2>1
  <2>3. IsFiniteSet(1..Cardinality(F[p]))
    BY <2>2, FS_Interval
  <2> QED
    BY <2>1, <2>3
<1> DEFINE All == UNION {{pools[p][i] : i \in 1..Cardinality(F[p])} : p \in 1..k}
<1>3. IsFiniteSet(All)
  <2> DEFINE Part(p) == {pools[p][i] : i \in 1..Cardinality(F[p])}
             f == [p \in 1..k |-> Part(p)]
  <2>1. ASSUME NEW p \in 1..k PROVE IsFiniteSet(Part(p))
    <3>1. PICK g, I : g = pools[p] /\ I = 1..Cardinality(F[p])
      OBVIOUS
    <3>2. IsFiniteSet(I)
      BY <1>2, <3>1
    <3>3. IsFiniteSet({g[i] : i \in I})
      BY <3>2, ImageIsFinite
    <3> QED
      BY <3>1, <3>3
  <2>2. IsFiniteSet(1..k)
    <3>1. 1 \in Int /\ k \in Int
      OBVIOUS
    <3> QED
      BY <3>1, FS_Interval
  <2> HIDE DEF Part
  <2>3. All = UNION {f[p] : p \in 1..k} /\ \A p \in 1..k : IsFiniteSet(f[p])
    BY <2>1 DEF Part
  <2> HIDE DEF f, All
  <2>4. IsFiniteSet({f[p] : p \in 1..k})
    BY <2>2, ImageIsFinite
  <2>5. \A P \in {f[p] : p \in 1..k} : IsFiniteSet(P)
    BY <2>3
  <2>6. IsFiniteSet(UNION {f[p] : p \in 1..k})
    BY <2>4, <2>5, FS_UNION
  <2> QED
    BY <2>3, <2>6
<1>4. AfterPlace(S!RowsAfter(pools, place), pools, F, k, place)
  <2> SUFFICES ASSUME NEW x
               PROVE  x \in S!RowsAfter(pools, place) <=>
                        \E p \in 1..k : \E i \in 1..Cardinality(F[p]) : i > place /\ x = pools[p][i]
    BY DEF AfterPlace
  <2>1. x \in S!RowsAfter(pools, place) <=>
          \E p \in DOMAIN pools : x \in {pools[p][i] : i \in {j \in DOMAIN pools[p] : j > place}}
    BY DEF S!RowsAfter
  <2>2. ASSUME NEW p \in 1..k
        PROVE  x \in {pools[p][i] : i \in {j \in DOMAIN pools[p] : j > place}} <=>
                 \E i \in 1..Cardinality(F[p]) : i > place /\ x = pools[p][i]
    <3>1. DOMAIN pools[p] = 1..Cardinality(F[p])
      BY <1>2
    <3> QED
      BY <3>1
  <2> QED
    BY <1>1, <2>1, <2>2
<1>5. UpToPlace(S!RowsUpTo(pools, place), pools, F, k, place)
  <2> SUFFICES ASSUME NEW x
               PROVE  x \in S!RowsUpTo(pools, place) <=>
                        \E p \in 1..k : \E i \in 1..Cardinality(F[p]) : i <= place /\ x = pools[p][i]
    BY DEF UpToPlace
  <2>1. x \in S!RowsUpTo(pools, place) <=>
          \E p \in DOMAIN pools : x \in {pools[p][i] : i \in {j \in DOMAIN pools[p] : j <= place}}
    BY DEF S!RowsUpTo
  <2>2. ASSUME NEW p \in 1..k
        PROVE  x \in {pools[p][i] : i \in {j \in DOMAIN pools[p] : j <= place}} <=>
                 \E i \in 1..Cardinality(F[p]) : i <= place /\ x = pools[p][i]
    <3>1. DOMAIN pools[p] = 1..Cardinality(F[p])
      BY <1>2
    <3> QED
      BY <3>1
  <2> QED
    BY <1>1, <2>1, <2>2
<1>6. ASSUME NEW A, \A x \in A : \E p \in 1..k : \E i \in 1..Cardinality(F[p]) : x = pools[p][i]
      PROVE  OfTeams(A)
  <2>1. A \subseteq Rows
    BY <1>2, <1>6
  <2>2. A \subseteq All
    BY <1>6
  <2> HIDE DEF All
  <2>3. IsFiniteSet(A)
    BY <1>3, <2>2, FS_Subset
  <2>4. \A x, y \in A : x.team = y.team => x = y
    BY <1>6, OneRowEach
  <2> QED
    BY <2>1, <2>3, <2>4 DEF OfTeams
<1>7. OfTeams(S!RowsAfter(pools, place))
  BY <1>4, <1>6 DEF AfterPlace
<1>8. OfTeams(S!RowsUpTo(pools, place))
  BY <1>5, <1>6 DEF UpToPlace
<1> QED
  BY <1>4, <1>5, <1>7, <1>8

\* The wildcards taken by lot leave tables with fair cuts.
LEMMA WildcardsAreDrawn ==
  ASSUME NEW k \in Nat, NEW F, NEW cut, Tables(cut, F, k), NEW perPool \in Nat, CutsApart(cut, F, k, perPool),
         NEW A, A = S!RowsAfter(cut, perPool), NEW m \in Nat, m = Cardinality(A), NEW w \in 0..m,
         NEW lots, IsLot(lots, TeamsIn(F, k)), NEW R, ByStrength(R, A),
         NEW s, InOrder(s, A, R), NEW tied, CutClass(tied, s, A, m, w),
         NEW res, LotAcross(res, cut, k, tied, lots, A, m)
  PROVE  TakenFairly(res.pools, F, k, perPool, Taken(res, w), A)
<1>1. PICK o : InOrder(o, A, WildOrder(A, tied, lots)) /\ res.wildcards = [i \in 1..m |-> o[i].team]
  BY DEF LotAcross
<1> SUFFICES ASSUME NEW pools, pools = [p \in 1..k |-> S!DrawLots(cut[p], {i \in DOMAIN cut[p] : cut[p][i] \in tied}, lots)],
                    NEW taken, taken = {o[i].team : i \in 1..w},
                    InOrder(o, A, WildOrder(A, tied, lots)),
                    \A x, y \in A : <<x, y>> \in R <=> S!ByPlaceThenStrength(x, y),
                    \A p \in 1..k : CutApart(cut[p], Cardinality(F[p]), perPool)
             PROVE  TakenFairly(pools, F, k, perPool, taken, A)
  <2>1. Taken(res, w) = {o[i].team : i \in 1..w}
    <3>1. \A i \in 1..w : res.wildcards[i] = o[i].team
      BY <1>1
    <3> QED
      BY <3>1 DEF Taken
  <2>2. res.pools = [p \in 1..k |-> S!DrawLots(cut[p], {i \in DOMAIN cut[p] : cut[p][i] \in tied}, lots)]
    BY ONLY LotAcross(res, cut, k, tied, lots, A, m) DEF LotAcross
  <2>3. \A x, y \in A : <<x, y>> \in R <=> S!ByPlaceThenStrength(x, y)
    <3>1. ByStrength(R, A)
      OBVIOUS
    <3> QED
      BY ONLY <3>1, Zenon DEF ByStrength
  <2>4. \A p \in 1..k : CutApart(cut[p], Cardinality(F[p]), perPool)
    BY ONLY CutsApart(cut, F, k, perPool) DEF CutsApart
  <2> QED
    BY <1>1, <2>1, <2>2, <2>3, <2>4
<1>2. /\ \A x : x \in A <=> \E p \in 1..k : \E i \in 1..Cardinality(F[p]) : i > perPool /\ x = cut[p][i]
      /\ OfTeams(A)
  <2>1. AfterPlace(S!RowsAfter(cut, perPool), cut, F, k, perPool) /\ OfTeams(S!RowsAfter(cut, perPool))
    BY RowsOfTables
  <2> QED
    BY <2>1 DEF AfterPlace
<1>3. ASSUME NEW x \in A
      PROVE  x \in Rows /\ x.team \in TeamsIn(F, k) /\ lots[x.team] \in Int
  <2>1. x \in Rows
    BY <1>2 DEF OfTeams
  <2>2. PICK p \in 1..k : \E i \in 1..Cardinality(F[p]) : x = cut[p][i]
    BY <1>2
  <2>3. x.team \in F[p]
    BY <2>2 DEF Tables, Table
  <2>4. x.team \in TeamsIn(F, k)
    BY <2>3 DEF TeamsIn
  <2> QED
    BY <2>1, <2>4 DEF IsLot
<1>4. \A x, y \in A : lots[x.team] = lots[y.team] => x = y
  BY <1>2, <1>3 DEF IsLot, OfTeams
<1> DEFINE N == WildOrder(A, tied, lots)
<1>5. ASSUME NEW x \in A, NEW y \in A
      PROVE  /\ x \in tied /\ y \in tied => (<<x, y>> \in N <=> lots[x.team] < lots[y.team])
             /\ ~(x \in tied /\ y \in tied) => (<<x, y>> \in N <=> S!ByPlaceThenStrength(x, y))
  BY DEF WildOrder
<1> HIDE DEF N
<1>6. TotalOrder(N, A)
  BY <1>2, <1>3, <1>4, WildOrderIsOne DEF N
<1>7. \A x \in A \ tied : \A i \in 1..m : o[i] = x <=> s[i] = x
  <2>1. (\A x \in A : lots[x.team] \in Int) /\ \A x, y \in A : lots[x.team] = lots[y.team] => x = y
    BY <1>3, <1>4
  <2>2. OthersStay(o, s, A, tied, m)
    BY <1>2, <2>1, WildOrderIsOne
  <2> QED
    BY <2>2 DEF OthersStay
<1>8. ASSUME NEW x \in A
      PROVE  x.team \in taken <=> \E i \in 1..w : o[i] = x
  <2>1. \A i \in 1..w : o[i] \in A
    BY DEF InOrder
  <2> QED
    BY <1>2, <2>1 DEF OfTeams
<1>9. ASSUME NEW x \in A, NEW y \in A, <<x, y>> \in N, y.team \in taken
      PROVE  x.team \in taken
  <2>1. PICK j \in 1..w : o[j] = y
    BY <1>8, <1>9
  <2>2. PICK i \in 1..m : o[i] = x
    BY DEF InOrder
  <2>3. \A a, b \in 1..m : <<o[a], o[b]>> \in N => a < b
    BY <1>2, <1>6, PlacesInOrder DEF N, OfTeams
  <2>4. i < j
    BY <1>9, <2>1, <2>2, <2>3
  <2> QED
    BY <1>8, <2>1, <2>2, <2>4
<1>10. ASSUME NEW x \in A \ tied, NEW y \in A \ tied, x.team \in taken, y.team \notin taken, Even(x, y)
      PROVE  FALSE
  <2>1. PICK i \in 1..w : o[i] = x
    BY <1>8, <1>10
  <2>2. PICK j \in 1..m : o[j] = y
    BY DEF InOrder
  <2>3. w < j
    BY <1>8, <1>10, <2>2
  <2>4. s[i] = x /\ s[j] = y /\ i \in 1..m
    BY <1>7, <2>1, <2>2
  <2> QED
    BY <1>10, <2>1, <2>3, <2>4 DEF CutClass
<1>11. ASSUME NEW p \in 1..k, NEW n \in Nat, n = Cardinality(F[p]), NEW rows, rows = cut[p], NEW new, new = pools[p]
       PROVE  /\ Table(new, F[p])
              /\ CameFrom(new, rows, n, perPool, tied)
              /\ TiedAreDrawn(new, rows, n, perPool, tied, lots)
  <2>1. Table(rows, F[p]) /\ DOMAIN rows = 1..n /\ \A i \in 1..n : rows[i] \in Rows
    <3>1. Table(rows, F[p])
      BY <1>11 DEF Tables
    <3> QED
      BY <1>11, <3>1 DEF Table
  <2> DEFINE places == {i \in 1..n : rows[i] \in tied}
  <2>2. new = S!DrawLots(rows, places, lots)
    BY <1>11, <2>1
  <2>3. ASSUME NEW i \in places PROVE i \in 1..n /\ rows[i] \in A /\ i > perPool
    <3>1. rows[i] \in A
      BY DEF CutClass
    <3>2. PICK q \in 1..k : \E j \in 1..Cardinality(F[q]) : j > perPool /\ rows[i] = cut[q][j]
      BY <1>2, <3>1
    <3>3. PICK j \in 1..Cardinality(F[q]) : j > perPool /\ rows[i] = cut[q][j]
      BY <3>2
    <3>4. i = j
      BY <1>11, <3>3, OneRowEach
    <3> QED
      BY <3>1, <3>3, <3>4
  <2>4. ASSUME NEW i \in places, NEW j \in 1..n
        PROVE  j \in places <=> rows[j].rank = rows[i].rank
    <3>1. ASSUME j \in places PROVE rows[j].rank = rows[i].rank
      BY <3>1 DEF CutClass, Even
    <3>2. ASSUME rows[j].rank = rows[i].rank PROVE j \in places
      <4>1. j > perPool
        BY <1>11, <2>3, <3>2 DEF CutApart
      <4>2. rows[j] \in A /\ rows[i] \in A
        BY <1>2, <1>11, <2>3, <4>1
      <4>3. i = j \/ S!LevelAcrossPools(rows[i], rows[j]) \/ S!LevelAcrossPools(rows[j], rows[i])
        <5>1. i < j \/ i = j \/ j < i
          BY <2>3
        <5> QED
          BY <1>11, <2>1, <2>3, <3>2, <5>1 DEF Table
      <4>4. i = j \/ Even(rows[i], rows[j])
        BY <2>1, <2>3, <3>2, <4>3, LevelCompare DEF Even
      <4>5. rows[j] \in tied
        BY <4>2, <4>4 DEF CutClass
      <4> QED
        BY <4>5
    <3> QED
      BY <3>1, <3>2
  <2>5. OneRank(rows, places, n)
    BY <2>4 DEF OneRank
  <2>6. IsLot(lots, F[p])
    <3>1. F[p] \subseteq TeamsIn(F, k)
      BY DEF TeamsIn
    <3> QED
      BY <3>1 DEF IsLot
  <2>7. \A i \in 1..n : i \in places <=> rows[i] \in tied
    OBVIOUS
  <2> HIDE DEF places
  <2>8. Table(new, F[p])
    BY <1>11, <2>1, <2>2, <2>5, <2>6, LotsKeepATable
  <2>9. LotsDrawn(new, rows, places, n, lots)
    BY <1>11, <2>1, <2>2, <2>5, <2>6, LotsKeepATable
  <2>10. ASSUME NEW i \in 1..n
         PROVE  \E j \in 1..n :
                  /\ SameRecord(rows[j], new[i]) /\ rows[j].rank = rows[i].rank
                  /\ (i > perPool <=> j > perPool)
                  /\ (rows[i] \in tied <=> rows[j] \in tied)
                  /\ (rows[i] \notin tied => new[i] = rows[i] /\ i = j)
    <3>1. CASE i \in places
      <4>1. PICK j \in places : SameRecord(rows[j], new[i])
        BY <2>9, <3>1 DEF LotsDrawn
      <4>2. j \in 1..n /\ j > perPool /\ i > perPool
        BY <2>3, <3>1
      <4>3. rows[j].rank = rows[i].rank /\ rows[i] \in tied /\ rows[j] \in tied
        BY <2>4, <2>7, <3>1, <4>2
      <4> QED
        BY <4>1, <4>2, <4>3
    <3>2. CASE i \notin places
      <4>1. new[i] = rows[i]
        BY <2>9, <3>2 DEF LotsDrawn
      <4>2. rows[i] \notin tied
        BY <2>7, <3>2
      <4>3. SameRecord(rows[i], new[i])
        BY <4>1 DEF SameRecord
      <4> QED
        BY <4>1, <4>2, <4>3
    <3> QED
      BY <3>1, <3>2
  <2>11. CameFrom(new, rows, n, perPool, tied)
    BY <2>10 DEF CameFrom
  <2>12. ASSUME NEW i \in 1..n, NEW j \in 1..n
         PROVE  /\ (i < j /\ rows[i] \in tied /\ rows[j] \in tied => lots[new[i].team] < lots[new[j].team])
                /\ (rows[i] \in tied => new[i].rank = i /\ i > perPool)
                /\ (rows[i] \in tied => (rows[j] \in tied <=> rows[j].rank = rows[i].rank))
    <3>1. i < j /\ rows[i] \in tied /\ rows[j] \in tied => lots[new[i].team] < lots[new[j].team]
      BY <2>7, <2>9 DEF LotsDrawn
    <3>2. rows[i] \in tied => new[i].rank = i /\ i > perPool
      BY <2>3, <2>7, <2>9 DEF LotsDrawn
    <3>3. rows[i] \in tied => (rows[j] \in tied <=> rows[j].rank = rows[i].rank)
      BY <2>4, <2>7
    <3> QED
      BY <3>1, <3>2, <3>3
  <2>13. TiedAreDrawn(new, rows, n, perPool, tied, lots)
    BY <2>12 DEF TiedAreDrawn
  <2> QED
    BY <2>8, <2>11, <2>13
<1>12. Tables(pools, F, k)
  <2>1. \A p \in 1..k : Table(pools[p], F[p])
    <3> SUFFICES ASSUME NEW p \in 1..k PROVE Table(pools[p], F[p])
      OBVIOUS
    <3>1. PICK n \in Nat : n = Cardinality(F[p])
      BY DEF Tables, Table
    <3> QED
      BY <1>11, <3>1
  <2> QED
    BY <2>1 DEF Tables
<1>13. ASSUME NEW p \in 1..k, NEW n \in Nat, n = Cardinality(F[p]), NEW i \in 1..n, NEW j \in 1..n,
              i < j, perPool < i, pools[p][j].team \in taken
       PROVE  pools[p][i].team \in taken
  <2>1. PICK rows, new : rows = cut[p] /\ new = pools[p]
    OBVIOUS
  <2>2. CameFrom(new, rows, n, perPool, tied) /\ TiedAreDrawn(new, rows, n, perPool, tied, lots)
    BY <1>11, <1>13, <2>1
  <2>3. PICK a \in 1..n : /\ SameRecord(rows[a], new[i]) /\ rows[a].rank = rows[i].rank
                          /\ a > perPool
                          /\ (rows[i] \in tied <=> rows[a] \in tied)
                          /\ (rows[i] \notin tied => new[i] = rows[i] /\ i = a)
    BY <1>13, <2>2 DEF CameFrom
  <2>4. PICK b \in 1..n : /\ SameRecord(rows[b], new[j]) /\ rows[b].rank = rows[j].rank
                          /\ b > perPool
                          /\ (rows[j] \in tied <=> rows[b] \in tied)
                          /\ (rows[j] \notin tied => new[j] = rows[j] /\ j = b)
    <3>1. j > perPool
      BY <1>13
    <3> QED
      BY <2>2, <3>1 DEF CameFrom
  <2>5. PICK x, y : x = rows[a] /\ y = rows[b]
    OBVIOUS
  <2>6. x \in A /\ y \in A
    BY <1>2, <1>13, <2>1, <2>3, <2>4, <2>5
  <2>7. x.team = new[i].team /\ y.team = new[j].team /\ x.rank = rows[i].rank /\ y.rank = rows[j].rank
    BY <2>3, <2>4, <2>5 DEF SameRecord
  <2>8. Table(rows, F[p])
    BY <2>1 DEF Tables
  <2>9. <<x, y>> \in N
    <3>1. CASE rows[i] \in tied /\ rows[j] \in tied
      <4>1. lots[new[i].team] < lots[new[j].team]
        BY <1>13, <2>2, <3>1 DEF TiedAreDrawn
      <4> QED
        BY <1>5, <2>3, <2>4, <2>5, <2>6, <2>7, <3>1, <4>1
    <3>2. CASE rows[i].rank # rows[j].rank
      <4>1. i < rows[j].rank /\ rows[i].rank \in 1..i /\ rows[j].rank \in 1..j
        BY ONLY <1>13, <2>8, <3>2 DEF Table
      <4>2. x.rank < y.rank
        BY <2>7, <4>1
      <4>3. ~(x \in tied /\ y \in tied)
        BY <2>7, <3>2 DEF CutClass, Even
      <4>4. S!ByPlaceThenStrength(x, y)
        BY <1>3, <2>6, <4>2, StrengthCompare
      <4> QED
        BY <1>5, <2>6, <4>3, <4>4
    <3>3. CASE rows[i].rank = rows[j].rank /\ ~(rows[i] \in tied /\ rows[j] \in tied)
      <4>1. rows[i] \notin tied /\ rows[j] \notin tied
        BY <2>2, <3>3 DEF TiedAreDrawn
      <4>2. x = rows[i] /\ y = rows[j]
        BY <2>3, <2>4, <2>5, <4>1
      <4>3. S!LevelAcrossPools(x, y) /\ x.team < y.team /\ x.rank = y.rank
        BY <1>13, <2>8, <3>3, <4>2 DEF Table
      <4>4. S!ByPlaceThenStrength(x, y)
        BY <1>3, <2>6, <4>3, StrengthCompare
      <4> QED
        BY <1>5, <2>6, <4>1, <4>2, <4>4
    <3> QED
      BY <3>1, <3>2, <3>3
  <2> QED
    BY <1>9, <1>13, <2>1, <2>6, <2>7, <2>9
<1>14. ASSUME NEW p \in 1..k, NEW n \in Nat, n = Cardinality(F[p]), NEW i \in 1..n, NEW j \in 1..n,
              i <= perPool \/ pools[p][i].team \in taken, perPool < j, pools[p][j].team \notin taken
       PROVE  pools[p][i].rank < pools[p][j].rank
  <2>1. PICK rows, new : rows = cut[p] /\ new = pools[p]
    OBVIOUS
  <2>2. CameFrom(new, rows, n, perPool, tied) /\ TiedAreDrawn(new, rows, n, perPool, tied, lots)
    BY <1>11, <1>14, <2>1
  <2>3. i < j
    <3>1. i <= perPool => i < j
      BY <1>14
    <3>2. ASSUME perPool < i PROVE i < j
      <4>1. ~(i <= perPool) /\ pools[p][i] = new[i] /\ pools[p][j] = new[j]
        BY <2>1, <3>2
      <4>2. new[i].team \in taken /\ new[j].team \notin taken
        BY <1>14, <4>1
      <4>3. i # j
        BY <4>2
      <4>4. ~(j < i)
        BY <1>13, <1>14, <2>1, <4>2
      <4> QED
        BY <4>3, <4>4
    <3> QED
      BY <3>1, <3>2
  <2>4. Table(new, F[p]) /\ Table(rows, F[p])
    BY <1>11, <1>14, <2>1 DEF Tables
  <2>5. new[i].rank \in 1..i /\ (new[i].rank # new[j].rank => i < new[j].rank)
    BY <1>14, <2>3, <2>4 DEF Table
  <2>6. ASSUME new[i].rank = new[j].rank PROVE FALSE
    <3>1. rows[j] \notin tied
      <4>1. rows[j] \in tied => new[j].rank = j
        BY <2>2 DEF TiedAreDrawn
      <4> QED
        BY <2>3, <2>5, <2>6, <4>1
    <3>2. new[j] = rows[j]
      BY <2>2, <3>1 DEF CameFrom
    <3>3. rows[i] \notin tied
      <4> SUFFICES ASSUME rows[i] \in tied PROVE FALSE
        OBVIOUS
      <4>1. new[i].rank = i /\ rows[j].rank # rows[i].rank
        BY <2>2, <3>1 DEF TiedAreDrawn
      <4>2. i < rows[j].rank
        BY <1>14, <2>3, <2>4, <4>1 DEF Table
      <4> QED
        BY <2>6, <3>2, <4>1, <4>2
    <3>4. new[i] = rows[i]
      BY <2>2, <3>3 DEF CameFrom
    <3>5. perPool < i /\ new[i].team \in taken
      <4>1. rows[i].rank = rows[j].rank
        BY <2>6, <3>2, <3>4
      <4>2. CutApart(rows, n, perPool)
        BY <1>14, <2>1
      <4>3. perPool < j /\ i \in 1..n /\ j \in 1..n
        BY <1>14
      <4>4. ~(i <= perPool)
        BY ONLY <4>1, <4>2, <4>3 DEF CutApart
      <4>5. pools[p][i].team \in taken /\ perPool < i
        BY <1>14, <4>4
      <4> QED
        BY <2>1, <4>5
    <3>6. rows[i] \in A \ tied /\ rows[j] \in A \ tied
      BY <1>2, <1>14, <2>1, <3>1, <3>3, <3>5
    <3>7. Even(rows[i], rows[j])
      BY <1>14, <2>3, <2>4, <2>6, <3>2, <3>4 DEF Even, Table
    <3> QED
      BY <1>10, <1>14, <2>1, <3>2, <3>4, <3>5, <3>6, <3>7
  <2>7. new[i].rank < new[j].rank
    <3>1. new[j].rank \in 1..j /\ i \in Nat /\ j \in Nat
      BY <1>14, <2>4 DEF Table
    <3>2. i < new[j].rank
      BY ONLY <2>5, <2>6
    <3> QED
      BY <2>5, <3>1, <3>2
  <2> QED
    BY <2>1, <2>7
<1>15. CutIsFair(pools, F, k, perPool, taken)
  <2> SUFFICES ASSUME NEW p \in 1..k, NEW i \in 1..Cardinality(F[p]), NEW j \in 1..Cardinality(F[p])
               PROVE  /\ i < j /\ perPool < i /\ pools[p][j].team \in taken => pools[p][i].team \in taken
                      /\ (i <= perPool \/ pools[p][i].team \in taken) /\ perPool < j /\ pools[p][j].team \notin taken
                           => pools[p][i].rank < pools[p][j].rank
    BY DEF CutIsFair
  <2>1. PICK n \in Nat : n = Cardinality(F[p])
    BY DEF Tables, Table
  <2> QED
    BY <1>13, <1>14, <2>1
<1>16. {x.team : x \in S!RowsAfter(pools, perPool)} = {x.team : x \in A}
  <2>1. PICK B : B = S!RowsAfter(pools, perPool)
    OBVIOUS
  <2>2. AfterPlace(B, pools, F, k, perPool)
    BY <1>12, <2>1, RowsOfTables
  <2>3. ASSUME NEW x \in B PROVE \E y \in A : y.team = x.team
    <3>1. PICK p \in 1..k : \E i \in 1..Cardinality(F[p]) : i > perPool /\ x = pools[p][i]
      BY ONLY <2>2, x \in B DEF AfterPlace
    <3>2. PICK n \in Nat : n = Cardinality(F[p])
      BY DEF Tables, Table
    <3>3. PICK i \in 1..n : i > perPool /\ x = pools[p][i]
      BY <3>1, <3>2
    <3>4. PICK j \in 1..n : SameRecord(cut[p][j], pools[p][i]) /\ j > perPool
      <4>1. PICK rows, new : rows = cut[p] /\ new = pools[p]
        OBVIOUS
      <4>2. CameFrom(new, rows, n, perPool, tied)
        BY <1>11, <3>2, <4>1
      <4> QED
        BY <3>3, <4>1, <4>2 DEF CameFrom
    <3>5. cut[p][j] \in A /\ cut[p][j].team = x.team
      BY <1>2, <3>2, <3>3, <3>4 DEF SameRecord
    <3> QED
      BY <3>5
  <2>4. ASSUME NEW y \in A PROVE \E x \in B : x.team = y.team
    <3>1. PICK p \in 1..k : \E i \in 1..Cardinality(F[p]) : i > perPool /\ y = cut[p][i]
      BY <1>2
    <3>2. PICK n \in Nat : n = Cardinality(F[p])
      BY DEF Tables, Table
    <3>3. PICK i \in 1..n : i > perPool /\ y = cut[p][i]
      BY <3>1, <3>2
    <3>4. Table(pools[p], F[p]) /\ y.team \in F[p]
      <4>1. Table(pools[p], F[p]) /\ Table(cut[p], F[p])
        BY <1>12 DEF Tables
      <4> QED
        BY <3>2, <3>3, <4>1 DEF Table
    <3>5. PICK a \in 1..n : pools[p][a].team = y.team
      BY <3>2, <3>4 DEF Table
    <3>6. PICK j \in 1..n : SameRecord(cut[p][j], pools[p][a]) /\ (a > perPool <=> j > perPool)
      <4>1. PICK rows, new : rows = cut[p] /\ new = pools[p]
        OBVIOUS
      <4>2. CameFrom(new, rows, n, perPool, tied)
        BY <1>11, <3>2, <4>1
      <4> QED
        BY <4>1, <4>2 DEF CameFrom
    <3>7. cut[p][j].team = cut[p][i].team
      BY <3>3, <3>5, <3>6 DEF SameRecord
    <3>8. j = i
      BY <3>2, <3>7, OneRowEach
    <3> QED
      <4>1. \E q \in 1..k : \E l \in 1..Cardinality(F[q]) : l > perPool /\ pools[p][a] = pools[q][l]
        BY <3>2, <3>3, <3>6, <3>8
      <4>2. pools[p][a] \in B
        BY ONLY <2>2, <4>1 DEF AfterPlace
      <4> QED
        BY <3>5, <4>2
  <2>5. {x.team : x \in B} = {x.team : x \in A}
    BY <2>3, <2>4
  <2> QED
    BY <2>1, <2>5
<1> QED
  BY <1>12, <1>15, <1>16 DEF TakenFairly

-----------------------------------------------------------------------------
(* Counting what advances. *)

\* The members of disjoint parts are as many as those of the parts together.
LEMMA PartsAddUp ==
  ASSUME NEW T, IsFiniteSet(T), NEW P, \A x \in T : IsFiniteSet(P[x]),
         \A x, y \in T : x # y => P[x] \cap P[y] = {},
         NEW f, \A x \in T : f[x] = Cardinality(P[x])
  PROVE  Cardinality(UNION {P[x] : x \in T}) = S!SumFunctionOnSet(f, T)
<1> DEFINE Part(s) == UNION {P[x] : x \in s}
           g == [s \in SUBSET T |-> Cardinality(Part(s))]
<1>1. ASSUME NEW s \in SUBSET T
      PROVE  IsFiniteSet(Part(s))
  <2>1. IsFiniteSet(s)
    BY FS_Subset
  <2>2. IsFiniteSet({P[x] : x \in s})
    BY <2>1, ImageIsFinite
  <2>3. \A Q \in {P[x] : x \in s} : IsFiniteSet(Q)
    OBVIOUS
  <2> QED
    BY <2>2, <2>3, FS_UNION
<1>2. g \in [SUBSET T -> Nat]
  <2>1. \A s \in SUBSET T : Cardinality(Part(s)) \in Nat
    <3> HIDE DEF Part
    <3> QED
      BY <1>1, FS_CardinalityType
  <2> QED
    BY <2>1
<1>3. g[{}] = 0
  <2>1. Part({}) = {}
    OBVIOUS
  <2> QED
    BY <2>1, FS_EmptySet
<1>4. ASSUME NEW s \in SUBSET T, NEW x \in s
      PROVE  g[s] = f[x] + g[s \ {x}]
  <2>1. Part(s) = P[x] \cup Part(s \ {x})
    OBVIOUS
  <2>2. P[x] \cap Part(s \ {x}) = {}
    OBVIOUS
  <2>3. IsFiniteSet(P[x]) /\ IsFiniteSet(Part(s \ {x})) /\ s \ {x} \in SUBSET T
    <3>1. s \ {x} \in SUBSET T
      OBVIOUS
    <3> HIDE DEF Part
    <3> QED
      BY <1>1, <3>1
  <2> HIDE DEF Part
  <2>4. PICK A, B : A = P[x] /\ B = Part(s \ {x})
    OBVIOUS
  <2>5. Cardinality(A \cup B) = Cardinality(A) + Cardinality(B)
    <3>1. Cardinality(A \cup B) = Cardinality(A) + Cardinality(B) - Cardinality(A \cap B)
      BY <2>3, <2>4, FS_Union
    <3>2. Cardinality(A \cap B) = 0
      BY <2>2, <2>4, FS_EmptySet
    <3>3. Cardinality(A) \in Nat /\ Cardinality(B) \in Nat
      BY <2>3, <2>4, FS_CardinalityType
    <3> QED
      BY <3>1, <3>2, <3>3
  <2> QED
    BY <2>1, <2>3, <2>4, <2>5
<1>5. \A x \in T : f[x] \in Nat
  BY FS_CardinalityType
<1> HIDE DEF g
<1>6. SumsOf(g, f, T)
  BY <1>2, <1>3, <1>4 DEF SumsOf
<1>7. S!SumFunctionOnSet(f, T) = g[T]
  BY <1>5, <1>6, SumIs
<1> QED
  BY <1>7 DEF g

\* As many rows are up to a place as each pool has of them.
LEMMA RowsUpToCounted ==
  ASSUME NEW k \in Nat, NEW F, NEW pools, Tables(pools, F, k), NEW place \in Nat, NEW h,
         h = [p \in 1..k |-> IF Cardinality(F[p]) < place THEN Cardinality(F[p]) ELSE place]
  PROVE  Cardinality(S!RowsUpTo(pools, place)) = S!SumFunction(h)
<1> DEFINE P == [p \in 1..k |-> {pools[p][i] : i \in 1..h[p]}]
<1>1. ASSUME NEW p \in 1..k
      PROVE  /\ h[p] \in Nat /\ h[p] <= place /\ IsFiniteSet(P[p]) /\ Cardinality(P[p]) = h[p]
             /\ \A i \in 1..Cardinality(F[p]) : i <= place <=> i \in 1..h[p]
             /\ 1..h[p] \subseteq 1..Cardinality(F[p])
  <2>1. Table(pools[p], F[p])
    BY DEF Tables
  <2>2. Cardinality(F[p]) \in Nat
    BY <2>1 DEF Table
  <2>3. /\ h[p] \in Nat /\ h[p] <= place
        /\ \A i \in 1..Cardinality(F[p]) : i <= place <=> i \in 1..h[p]
        /\ 1..h[p] \subseteq 1..Cardinality(F[p])
    BY <2>2
  <2>4. PICK n, rows : n = h[p] /\ rows = pools[p] /\ n \in Nat
    BY <2>3
  <2>5. \A i, j \in 1..n : rows[i] = rows[j] => i = j
    BY <2>1, <2>3, <2>4 DEF Table
  <2>6. IsFiniteSet(1..n) /\ Cardinality(1..n) = n
    <3>1. n \in Nat
      BY <2>4
    <3>2. 1 \in Int /\ n \in Int /\ (IF 1 > n THEN 0 ELSE n - 1 + 1) = n
      BY ONLY <3>1
    <3> QED
      BY <3>2, FS_Interval
  <2> DEFINE Q == {rows[i] : i \in 1..n}
             f == [i \in 1..n |-> rows[i]]
  <2>7. f \in Bijection(1..n, Q)
    BY <2>5 DEF Bijection, Injection, Surjection, IsInjective
  <2>8. P[p] = Q
    BY <2>4
  <2> HIDE DEF f, Q, P
  <2>9. ExistsBijection(1..n, Q)
    BY <2>7 DEF ExistsBijection
  <2>10. IsFiniteSet(Q) /\ Cardinality(Q) = n
    BY <2>6, <2>9, FS_Bijection
  <2> QED
    BY <2>3, <2>4, <2>8, <2>10
<1>2. ASSUME NEW p \in 1..k, NEW q \in 1..k, p # q
      PROVE  P[p] \cap P[q] = {}
  <2> SUFFICES ASSUME NEW x \in P[p], x \in P[q] PROVE FALSE
    OBVIOUS
  <2>1. PICK i \in 1..h[p] : x = pools[p][i]
    OBVIOUS
  <2>2. PICK j \in 1..h[q] : x = pools[q][j]
    OBVIOUS
  <2>3. i \in 1..Cardinality(F[p]) /\ j \in 1..Cardinality(F[q])
    BY <1>1
  <2>4. pools[p][i].team = pools[q][j].team
    BY <2>1, <2>2
  <2> HIDE DEF P
  <2>5. k \in Nat /\ Tables(pools, F, k)
    OBVIOUS
  <2>6. p = q
    BY ONLY <2>3, <2>4, <2>5, p \in 1..k, q \in 1..k, OneRowEach
  <2> QED
    BY <1>2, <2>6
<1>3. S!RowsUpTo(pools, place) = UNION {P[p] : p \in 1..k}
  <2>1. PICK B : B = S!RowsUpTo(pools, place)
    OBVIOUS
  <2>2. UpToPlace(B, pools, F, k, place)
    BY <2>1, RowsOfTables
  <2>3. ASSUME NEW x
        PROVE  x \in B <=> \E p \in 1..k : x \in P[p]
    <3>1. x \in B <=> \E p \in 1..k : \E i \in 1..Cardinality(F[p]) : i <= place /\ x = pools[p][i]
      BY ONLY <2>2 DEF UpToPlace
    <3>2. ASSUME NEW p \in 1..k
          PROVE  x \in P[p] <=> \E i \in 1..Cardinality(F[p]) : i <= place /\ x = pools[p][i]
      <4>1. x \in P[p] <=> \E i \in 1..h[p] : x = pools[p][i]
        OBVIOUS
      <4> HIDE DEF P
      <4> QED
        BY <1>1, <4>1
    <3> HIDE DEF P
    <3> QED
      BY <3>1, <3>2
  <2> HIDE DEF P
  <2> QED
    BY <2>1, <2>3
<1> HIDE DEF P
<1>4. IsFiniteSet(1..k)
  <2>1. 1 \in Int /\ k \in Int
    OBVIOUS
  <2> QED
    BY <2>1, FS_Interval
<1>5. Cardinality(UNION {P[p] : p \in 1..k}) = S!SumFunctionOnSet(h, 1..k)
  BY <1>1, <1>2, <1>4, PartsAddUp
<1>6. S!SumFunction(h) = S!SumFunctionOnSet(h, DOMAIN h)
  BY Zenon DEF S!SumFunction
<1>7. DOMAIN h = 1..k
  OBVIOUS
<1> QED
  BY <1>3, <1>5, <1>6, <1>7

-----------------------------------------------------------------------------
(* The cut lines resolved. *)

\* Sorting by how many come before is sorting.
LEMMA SortIs ==
  ASSUME NEW A, IsFiniteSet(A), NEW R, TotalOrder(R, A), NEW m, m = Cardinality(A),
         NEW c, \A x \in A : c[x] = Cardinality({y \in A : <<y, x>> \in R}),
         NEW s, s = [i \in 1..m |-> s[i]],
         \A i \in 1..m : (\E x \in A : c[x] = i - 1) => s[i] \in A /\ c[s[i]] = i - 1
  PROVE  InOrder(s, A, R)
<1>1. ASSUME NEW i \in 1..m
      PROVE  s[i] \in A /\ Cardinality({y \in A : <<y, s[i]>> \in R}) = i - 1
  <2>1. EveryPlaceTaken(A, R)
    BY ListsAreInOrder
  <2>2. PICK x \in A : Cardinality({y \in A : <<y, x>> \in R}) = i - 1
    BY <2>1 DEF EveryPlaceTaken
  <2>3. c[x] = i - 1
    BY <2>2
  <2>4. s[i] \in A /\ c[s[i]] = i - 1
    BY <2>3
  <2> QED
    BY <2>4
<1> QED
  BY <1>1, ListsAreInOrder

\* The teams of a list of rows, in its order.
LEMMA TeamsOfList ==
  ASSUME NEW n \in Nat, NEW rows, rows = [i \in 1..n |-> rows[i]]
  PROVE  S!TeamsInOrder(rows) = [i \in 1..n |-> rows[i].team]
<1> DEFINE t == [i \in 1..n |-> rows[i].team]
<1>1. DOMAIN rows = 1..n
  OBVIOUS
<1>2. Len(rows) = n
  BY <1>1
<1>3. S!TeamsInOrder(rows) = SubSeq([i \in 1..Len(rows) |-> rows[i].team], 1, Len(rows))
  BY Zenon DEF S!TeamsInOrder, S!Mapped, S!List
<1>4. S!TeamsInOrder(rows) = SubSeq(t, 1, n)
  BY <1>2, <1>3
<1>5. t = [i \in 1..n |-> t[i]]
  OBVIOUS
<1> HIDE DEF t
<1>6. SubSeq(t, 1, n) = t
  BY <1>5, ListIs
<1>7. S!TeamsInOrder(rows) = t
  BY <1>4, <1>6
<1> QED
  BY <1>7 DEF t

\* What the lot across pools makes of the tables and of the wildcards' order.
LEMMA WildcardsAreOrdered ==
  ASSUME NEW k \in Nat, NEW F, NEW cut, Tables(cut, F, k), NEW rule, NEW A, A = S!RowsAfter(cut, rule.perPool),
         NEW m \in Nat, m = Cardinality(A), NEW tied, NEW draws, TotalOrder(WildOrder(A, tied, draws.wild), A)
  PROVE  LotAcross(S!WithWildcardLot(cut, tied, rule, draws), cut, k, tied, draws.wild, A, m)
<1> DEFINE lots == draws.wild
           pools == [p \in 1..k |-> S!DrawLots(cut[p], {i \in DOMAIN cut[p] : cut[p][i] \in tied}, lots)]
           Leads(x, y) == IF x \in tied /\ y \in tied THEN lots[x.team] < lots[y.team]
                                                      ELSE S!ByPlaceThenStrength(x, y)
           Count(x) == S!Cardinality({y \in A : Leads(y, x)})
           c == [x \in A |-> Count(x)]
           o == [i \in 1..m |-> CHOOSE x \in A : Count(x) = i - 1]
<1>1. IsFiniteSet(A)
  <2>1. OfTeams(S!RowsAfter(cut, rule.perPool))
    BY RowsOfTables
  <2> QED
    BY <2>1 DEF OfTeams
<1>2. InOrder(o, A, WildOrder(A, tied, lots))
  <2>1. ASSUME NEW x \in A
        PROVE  Count(x) = Cardinality({y \in A : <<y, x>> \in WildOrder(A, tied, lots)})
    <3>1. {y \in A : Leads(y, x)} = {y \in A : <<y, x>> \in WildOrder(A, tied, lots)}
      BY DEF WildOrder
    <3> QED
      BY <3>1, StandingsCardinality
  <2> HIDE DEF Count
  <2>2. \A x \in A : c[x] = Cardinality({y \in A : <<y, x>> \in WildOrder(A, tied, lots)})
    BY <2>1
  <2>3. o = [i \in 1..m |-> o[i]]
    OBVIOUS
  <2>4. ASSUME NEW i \in 1..m, \E x \in A : c[x] = i - 1
        PROVE  o[i] \in A /\ c[o[i]] = i - 1
    <3>1. \E x \in A : Count(x) = i - 1
      BY <2>4
    <3>2. o[i] = CHOOSE x \in A : Count(x) = i - 1
      OBVIOUS
    <3> HIDE DEF o
    <3>3. o[i] \in A /\ Count(o[i]) = i - 1
      BY <3>1, <3>2
    <3> QED
      BY <3>3
  <2> HIDE DEF o, c
  <2> QED
    BY <1>1, <2>2, <2>3, <2>4, SortIs
<1>3. S!WithWildcardLot(cut, tied, rule, draws).pools = pools
  <2>1. S!WithWildcardLot(cut, tied, rule, draws).pools
          = SubSeq([p \in 1..Len(cut) |-> S!DrawLots(cut[p], {i \in DOMAIN cut[p] : cut[p][i] \in tied}, draws.wild)],
                   1, Len(cut))
    BY DEF S!WithWildcardLot, S!Mapped, S!List
  <2>2. Len(cut) = k
    BY DEF Tables
  <2>3. pools = [p \in 1..k |-> pools[p]]
    OBVIOUS
  <2>4. S!WithWildcardLot(cut, tied, rule, draws).pools = SubSeq(pools, 1, k)
    BY <2>1, <2>2
  <2> HIDE DEF pools
  <2>5. SubSeq(pools, 1, k) = pools
    BY <2>3, ListIs
  <2> QED
    BY <2>4, <2>5
<1>4. S!WithWildcardLot(cut, tied, rule, draws).wildcards = [i \in 1..m |-> o[i].team]
  <2> DEFINE sorted == S!Sorted(A, Leads)
  <2>1. S!WithWildcardLot(cut, tied, rule, draws).wildcards = S!TeamsInOrder(sorted)
    BY DEF S!WithWildcardLot
  <2>2. sorted = SubSeq([i \in 1..S!Cardinality(A) |->
                           CHOOSE x \in A : S!Cardinality({y \in A : Leads(y, x)}) = i - 1], 1, S!Cardinality(A))
    BY Zenon DEF S!Sorted, S!List
  <2>3. S!Cardinality(A) = m
    BY StandingsCardinality
  <2> HIDE DEF sorted
  <2>4. sorted = SubSeq([i \in 1..m |-> CHOOSE x \in A : Count(x) = i - 1], 1, m)
    BY <2>2, <2>3
  <2> HIDE DEF Count
  <2>5. sorted = SubSeq(o, 1, m)
    BY <2>4
  <2>6. o = [i \in 1..m |-> o[i]]
    OBVIOUS
  <2> HIDE DEF o
  <2>7. SubSeq(o, 1, m) = o
    BY <2>6, ListIs
  <2>8. S!TeamsInOrder(o) = [i \in 1..m |-> o[i].team]
    BY <2>6, TeamsOfList
  <2> QED
    BY <2>1, <2>5, <2>7, <2>8
<1> HIDE DEF o, pools
<1>5. S!WithWildcardLot(cut, tied, rule, draws).pools = pools
  BY <1>3
<1> QED
  BY <1>2, <1>4, <1>5 DEF pools, LotAcross

\* As many rows are after a place as each pool has of them.
LEMMA RowsAfterCounted ==
  ASSUME NEW k \in Nat, NEW F, NEW pools, Tables(pools, F, k), NEW place \in Nat, NEW h,
         h = [p \in 1..k |-> IF Cardinality(F[p]) > place THEN Cardinality(F[p]) - place ELSE 0]
  PROVE  Cardinality(S!RowsAfter(pools, place)) = S!SumFunction(h)
<1> DEFINE P == [p \in 1..k |-> {pools[p][place + i] : i \in 1..h[p]}]
<1>1. ASSUME NEW p \in 1..k
      PROVE  /\ h[p] \in Nat /\ IsFiniteSet(P[p]) /\ Cardinality(P[p]) = h[p]
             /\ \A i \in 1..h[p] : place + i \in 1..Cardinality(F[p]) /\ place + i > place
             /\ \A i \in 1..Cardinality(F[p]) : i > place => i - place \in 1..h[p] /\ place + (i - place) = i
  <2>1. Table(pools[p], F[p])
    BY DEF Tables
  <2>2. Cardinality(F[p]) \in Nat
    BY <2>1 DEF Table
  <2>3. /\ h[p] \in Nat
        /\ \A i \in 1..h[p] : place + i \in 1..Cardinality(F[p]) /\ place + i > place
        /\ \A i \in 1..Cardinality(F[p]) : i > place => i - place \in 1..h[p] /\ place + (i - place) = i
    BY <2>2
  <2>4. PICK n, rows : n = h[p] /\ rows = pools[p] /\ n \in Nat
    BY <2>3
  <2>5. \A i, j \in 1..n : rows[place + i] = rows[place + j] => i = j
    <3> SUFFICES ASSUME NEW i \in 1..n, NEW j \in 1..n, rows[place + i] = rows[place + j] PROVE i = j
      OBVIOUS
    <3>1. place + i \in 1..Cardinality(F[p]) /\ place + j \in 1..Cardinality(F[p])
      BY <2>3, <2>4
    <3>2. place + i = place + j
      BY <2>1, <2>4, <3>1 DEF Table
    <3>3. i \in Nat /\ j \in Nat
      OBVIOUS
    <3> QED
      BY ONLY <3>2, <3>3, place \in Nat
  <2>6. IsFiniteSet(1..n) /\ Cardinality(1..n) = n
    <3>1. n \in Nat
      BY <2>4
    <3>2. 1 \in Int /\ n \in Int /\ (IF 1 > n THEN 0 ELSE n - 1 + 1) = n
      BY ONLY <3>1
    <3> QED
      BY <3>2, FS_Interval
  <2> DEFINE Q == {rows[place + i] : i \in 1..n}
             f == [i \in 1..n |-> rows[place + i]]
  <2>7. f \in Bijection(1..n, Q)
    BY <2>5 DEF Bijection, Injection, Surjection, IsInjective
  <2>8. P[p] = Q
    BY <2>4
  <2> HIDE DEF f, Q, P
  <2>9. ExistsBijection(1..n, Q)
    BY <2>7 DEF ExistsBijection
  <2>10. IsFiniteSet(Q) /\ Cardinality(Q) = n
    BY <2>6, <2>9, FS_Bijection
  <2> QED
    BY <2>3, <2>4, <2>8, <2>10
<1>2. ASSUME NEW p \in 1..k, NEW q \in 1..k, p # q
      PROVE  P[p] \cap P[q] = {}
  <2> SUFFICES ASSUME NEW x \in P[p], x \in P[q] PROVE FALSE
    OBVIOUS
  <2>1. PICK i \in 1..h[p] : x = pools[p][place + i]
    OBVIOUS
  <2>2. PICK j \in 1..h[q] : x = pools[q][place + j]
    OBVIOUS
  <2>3. place + i \in 1..Cardinality(F[p]) /\ place + j \in 1..Cardinality(F[q])
    BY <1>1
  <2>4. pools[p][place + i].team = pools[q][place + j].team
    BY <2>1, <2>2
  <2> HIDE DEF P
  <2>5. k \in Nat /\ Tables(pools, F, k)
    OBVIOUS
  <2>6. p = q
    BY ONLY <2>3, <2>4, <2>5, p \in 1..k, q \in 1..k, OneRowEach
  <2> QED
    BY <1>2, <2>6
<1>3. S!RowsAfter(pools, place) = UNION {P[p] : p \in 1..k}
  <2>1. PICK B : B = S!RowsAfter(pools, place)
    OBVIOUS
  <2>2. AfterPlace(B, pools, F, k, place)
    BY <2>1, RowsOfTables
  <2>3. ASSUME NEW x
        PROVE  x \in B <=> \E p \in 1..k : x \in P[p]
    <3>1. x \in B <=> \E p \in 1..k : \E i \in 1..Cardinality(F[p]) : i > place /\ x = pools[p][i]
      BY ONLY <2>2 DEF AfterPlace
    <3>2. ASSUME NEW p \in 1..k
          PROVE  x \in P[p] <=> \E i \in 1..Cardinality(F[p]) : i > place /\ x = pools[p][i]
      <4>1. x \in P[p] <=> \E i \in 1..h[p] : x = pools[p][place + i]
        OBVIOUS
      <4> HIDE DEF P
      <4>2. PICK rows : rows = pools[p]
        OBVIOUS
      <4>3. ASSUME NEW i \in 1..h[p], x = rows[place + i]
            PROVE  \E j \in 1..Cardinality(F[p]) : j > place /\ x = rows[j]
        BY <1>1, <4>3
      <4>4. ASSUME NEW j \in 1..Cardinality(F[p]), j > place, x = rows[j]
            PROVE  \E i \in 1..h[p] : x = rows[place + i]
        BY <1>1, <4>4
      <4> QED
        BY <4>1, <4>2, <4>3, <4>4
    <3> HIDE DEF P
    <3> QED
      BY <3>1, <3>2
  <2> HIDE DEF P
  <2> QED
    BY <2>1, <2>3
<1> HIDE DEF P
<1>4. IsFiniteSet(1..k)
  <2>1. 1 \in Int /\ k \in Int
    OBVIOUS
  <2> QED
    BY <2>1, FS_Interval
<1>5. Cardinality(UNION {P[p] : p \in 1..k}) = S!SumFunctionOnSet(h, 1..k)
  BY <1>1, <1>2, <1>4, PartsAddUp
<1>6. S!SumFunction(h) = S!SumFunctionOnSet(h, DOMAIN h)
  BY Zenon DEF S!SumFunction
<1>7. DOMAIN h = 1..k
  OBVIOUS
<1> QED
  BY <1>3, <1>5, <1>6, <1>7

\* The cuts drawn leave tables with no rank across a cut.
LEMMA CutsAreDrawn ==
  ASSUME NEW k \in Nat, NEW F, NEW pools, Tables(pools, F, k), NEW perPool \in Nat \ {0}, NEW lots, IsLot(lots, TeamsIn(F, k)),
         NEW cut, cut = CutsDrawn(pools, perPool, lots)
  PROVE  Tables(cut, F, k) /\ CutsApart(cut, F, k, perPool)
<1> DEFINE d == [p \in 1..k |-> S!DrawLots(pools[p], S!TiedAtCut(pools[p], perPool), lots)]
<1>1. cut = d
  <2>1. cut = SubSeq([p \in 1..Len(pools) |-> S!DrawLots(pools[p], S!TiedAtCut(pools[p], perPool), lots)], 1, Len(pools))
    BY DEF CutsDrawn, S!Mapped, S!List
  <2>2. Len(pools) = k
    BY DEF Tables
  <2>3. d = [p \in 1..k |-> d[p]]
    OBVIOUS
  <2>4. cut = SubSeq(d, 1, k)
    BY <2>1, <2>2
  <2> HIDE DEF d
  <2> QED
    BY <2>3, <2>4, ListIs
<1>2. ASSUME NEW p \in 1..k
      PROVE  Table(cut[p], F[p]) /\ CutApart(cut[p], Cardinality(F[p]), perPool)
  <2>1. cut[p] = S!DrawLots(pools[p], S!TiedAtCut(pools[p], perPool), lots)
    BY <1>1
  <2>2. Table(pools[p], F[p])
    BY DEF Tables
  <2>3. Cardinality(F[p]) \in Nat
    BY <2>2 DEF Table
  <2>4. IsLot(lots, F[p])
    <3>1. F[p] \subseteq TeamsIn(F, k)
      BY DEF TeamsIn
    <3> QED
      BY <3>1 DEF IsLot
  <2> QED
    BY <2>1, <2>2, <2>3, <2>4, CutIsDrawn
<1>3. cut = [p \in 1..k |-> cut[p]]
  BY <1>1
<1> QED
  BY <1>2, <1>3 DEF Tables, CutsApart

\* The cut lines are resolved, whatever the ties and the lots
\* (resolveCutLineTies).
LEMMA CutLinesAreResolved ==
  ASSUME NEW k \in Nat, NEW F, NEW pools, Tables(pools, F, k), NEW rule, NEW perPool \in Nat \ {0},
         rule.perPool = perPool, NEW w \in Nat, rule.wildcards = w, w <= LeftAfter(F, k, perPool),
         NEW draws, IsLot(draws.pool, TeamsIn(F, k)), IsLot(draws.wild, TeamsIn(F, k)),
         NEW res, res = S!ResolveCutLineTies(pools, rule, draws)
  PROVE  Resolved(res, F, k, perPool, w)
<1>1. PICK cut : cut = CutsDrawn(pools, perPool, draws.pool)
  OBVIOUS
<1>2. Tables(cut, F, k) /\ CutsApart(cut, F, k, perPool)
  <2>1. PICK lots : lots = draws.pool
    OBVIOUS
  <2> QED
    BY <1>1, <2>1, CutsAreDrawn
<1>3. PICK A : A = S!RowsAfter(cut, perPool)
  OBVIOUS
<1>4. OfTeams(A)
  BY <1>2, <1>3, RowsOfTables
<1>5. PICK m \in Nat : m = Cardinality(A)
  BY <1>4, FS_CardinalityType DEF OfTeams
<1>6. w \in 0..m
  <2>1. Cardinality(A) = LeftAfter(F, k, perPool)
    BY <1>2, <1>3, RowsAfterCounted DEF LeftAfter
  <2> QED
    BY <1>5, <2>1
<1>7. PICK R : ByStrength(R, A)
  <2> DEFINE R == {xy \in A \X A : S!ByPlaceThenStrength(xy[1], xy[2])}
  <2>1. ByStrength(R, A)
    BY DEF ByStrength
  <2> HIDE DEF R
  <2> QED
    BY <2>1
<1>8. PICK s : s = S!Sorted(A, S!ByPlaceThenStrength)
  OBVIOUS
<1>9. InOrder(s, A, R)
  BY <1>4, <1>7, <1>8, StrengthSorts DEF ByStrength
<1>10. PICK tied : tied = S!TiedAtLast(s, w)
  OBVIOUS
<1>11. CutClass(tied, s, A, m, w)
  BY <1>4, <1>5, <1>6, <1>7, <1>9, <1>10, TiedAreACutClass DEF ByStrength
<1>12. tied = S!TiedForWildcard(cut, rule)
  BY <1>3, <1>8, <1>10 DEF S!TiedForWildcard
<1>13. res = S!WithWildcardLot(cut, tied, rule, draws)
  <2>1. PICK drawn : drawn = CutsDrawn(pools, rule.perPool, draws.pool)
    OBVIOUS
  <2>2. res = S!WithWildcardLot(drawn, S!TiedForWildcard(drawn, rule), rule, draws)
    BY <2>1, Zenon DEF S!ResolveCutLineTies, CutsDrawn
  <2>3. drawn = cut
    BY <1>1, <2>1
  <2> QED
    BY <1>12, <2>2, <2>3
<1>14. /\ \A x \in A : draws.wild[x.team] \in Int
       /\ \A x, y \in A : draws.wild[x.team] = draws.wild[y.team] => x = y
  <2>1. ASSUME NEW x \in A PROVE x.team \in TeamsIn(F, k)
    <3>1. AfterPlace(A, cut, F, k, perPool)
      BY <1>2, <1>3, RowsOfTables
    <3>2. PICK p \in 1..k : \E i \in 1..Cardinality(F[p]) : x = cut[p][i]
      BY <3>1 DEF AfterPlace
    <3>3. Table(cut[p], F[p])
      BY <1>2 DEF Tables
    <3>4. x.team \in F[p]
      BY <3>2, <3>3 DEF Table
    <3> QED
      BY <3>4 DEF TeamsIn
  <2> QED
    BY <1>4, <2>1 DEF IsLot, OfTeams
<1>15. PICK W : W = WildOrder(A, tied, draws.wild)
  OBVIOUS
<1>16. TotalOrder(W, A)
  BY <1>4, <1>5, <1>6, <1>7, <1>9, <1>11, <1>14, <1>15, WildOrderIsOne DEF ByStrength
<1>17. LotAcross(res, cut, k, tied, draws.wild, A, m)
  BY <1>2, <1>3, <1>5, <1>13, <1>15, <1>16, WildcardsAreOrdered
<1>18. PICK o : InOrder(o, A, W) /\ res.wildcards = [i \in 1..m |-> o[i].team]
  BY <1>15, <1>17 DEF LotAcross
<1>19. Taken(res, w) = {o[i].team : i \in 1..w}
  <2>1. \A i \in 1..w : res.wildcards[i] = o[i].team
    BY <1>6, <1>18
  <2> QED
    BY <2>1 DEF Taken
<1>20. TakenFairly(res.pools, F, k, perPool, Taken(res, w), A)
  <2>1. PICK lots : lots = draws.wild
    OBVIOUS
  <2>2. IsLot(lots, TeamsIn(F, k)) /\ LotAcross(res, cut, k, tied, lots, A, m)
    BY <1>17, <2>1
  <2> QED
    BY <1>2, <1>3, <1>5, <1>6, <1>7, <1>9, <1>11, <2>2, WildcardsAreDrawn
<1>21. \A i, j \in 1..m : o[i] = o[j] => i = j
  BY <1>4, <1>5, <1>16, <1>18, PlacesInOrder DEF OfTeams
<1>22. \A i \in 1..m : o[i] \in A
  BY <1>5, <1>18 DEF InOrder
<1>23. PICK taken : taken = Taken(res, w)
  OBVIOUS
<1>24. taken \subseteq {x.team : x \in A}
  BY <1>6, <1>19, <1>22, <1>23
<1>25. IsFiniteSet(taken) /\ Cardinality(taken) = w
  <2> DEFINE f == [i \in 1..w |-> o[i].team]
  <2>1. \A i, j \in 1..w : f[i] = f[j] => i = j
    BY <1>4, <1>6, <1>21, <1>22 DEF OfTeams
  <2>2. taken = {f[i] : i \in 1..w}
    BY <1>19, <1>23
  <2>3. f \in Bijection(1..w, taken)
    BY <2>1, <2>2 DEF Bijection, Injection, Surjection, IsInjective
  <2> HIDE DEF f
  <2>4. ExistsBijection(1..w, taken)
    BY <2>3 DEF ExistsBijection
  <2>5. IsFiniteSet(1..w) /\ Cardinality(1..w) = w
    <3>1. 1 \in Int /\ w \in Int /\ (IF 1 > w THEN 0 ELSE w - 1 + 1) = w
      BY ONLY w \in Nat
    <3> QED
      BY <3>1, FS_Interval
  <2> QED
    BY <2>4, <2>5, FS_Bijection
<1> QED
  BY <1>20, <1>23, <1>25, <1>24 DEF Resolved, TakenFairly

-----------------------------------------------------------------------------
(* The seeds. *)

\* Those who advance are the seeds (rankForBracket).
LEMMA SeedsAreDrawn ==
  ASSUME NEW k \in Nat, NEW F, NEW perPool \in Nat \ {0}, NEW w \in Nat, NEW rule,
         rule.perPool = perPool, rule.wildcards = w, NEW pools, NEW draws,
         NEW res, res = S!ResolveCutLineTies(pools, rule, draws), Resolved(res, F, k, perPool, w)
  PROVE  SeededFrom(S!RankForBracket(pools, rule, draws), res.pools, F, k, perPool, Taken(res, w), TopOf(F, k, perPool) + w)
<1>1. PICK new, taken : new = res.pools /\ taken = Taken(res, w)
  OBVIOUS
<1>2. /\ Tables(new, F, k)
      /\ taken \subseteq {x.team : x \in S!RowsAfter(new, perPool)}
      /\ IsFiniteSet(taken) /\ Cardinality(taken) = w
  BY <1>1 DEF Resolved
<1>3. PICK U, A : U = S!RowsUpTo(new, perPool) /\ A = S!RowsAfter(new, perPool)
  OBVIOUS
<1>4. /\ UpToPlace(U, new, F, k, perPool) /\ AfterPlace(A, new, F, k, perPool)
      /\ OfTeams(U) /\ OfTeams(A)
  <2>1. AfterPlace(A, new, F, k, perPool) /\ OfTeams(A)
    BY <1>2, <1>3, RowsOfTables
  <2>2. UpToPlace(U, new, F, k, perPool) /\ OfTeams(U)
    BY <1>2, <1>3, RowsOfTables
  <2> QED
    BY <2>1, <2>2
<1>5. PICK B : B = {x \in A : x.team \in taken}
  OBVIOUS
<1>6. OfTeams(U \cup B) /\ U \cap B = {}
  <2>1. ASSUME NEW x \in U, NEW y \in A, x.team = y.team PROVE FALSE
    <3>1. PICK p \in 1..k : \E i \in 1..Cardinality(F[p]) : i <= perPool /\ x = new[p][i]
      BY <1>4 DEF UpToPlace
    <3>2. PICK q \in 1..k : \E i \in 1..Cardinality(F[q]) : i > perPool /\ y = new[q][i]
      BY <1>4 DEF AfterPlace
    <3>3. PICK i \in 1..Cardinality(F[p]) : i <= perPool /\ x = new[p][i]
      BY <3>1
    <3>4. PICK j \in 1..Cardinality(F[q]) : j > perPool /\ y = new[q][j]
      BY <3>2
    <3>5. new[p][i].team = new[q][j].team
      BY <2>1, <3>3, <3>4
    <3>6. k \in Nat /\ Tables(new, F, k)
      BY <1>2
    <3>7. p = q /\ i = j
      BY ONLY <3>5, <3>6, p \in 1..k, q \in 1..k, i \in 1..Cardinality(F[p]), j \in 1..Cardinality(F[q]), OneRowEach
    <3>8. Table(new[p], F[p])
      BY <1>2 DEF Tables
    <3>9. Cardinality(F[p]) \in Nat
      BY <3>8 DEF Table
    <3> QED
      BY <3>3, <3>4, <3>7, <3>9
  <2>2. B \subseteq A
    BY <1>5
  <2>3. IsFiniteSet(B) /\ IsFiniteSet(U)
    <3>1. IsFiniteSet(A) /\ IsFiniteSet(U)
      BY <1>4 DEF OfTeams
    <3> QED
      BY <2>2, <3>1, FS_Subset
  <2>4. IsFiniteSet(U \cup B)
    BY <2>3, FS_Union
  <2>5. U \cup B \in SUBSET Rows /\ \A x, y \in U \cup B : x.team = y.team => x = y
    BY <1>4, <2>1, <2>2 DEF OfTeams
  <2>6. U \cap B = {}
    BY <2>1, <2>2
  <2> QED
    BY <2>4, <2>5, <2>6 DEF OfTeams
<1>7. IsFiniteSet(B) /\ Cardinality(B) = w
  <2> DEFINE f == [x \in B |-> x.team]
  <2>1. \A x, y \in B : f[x] = f[y] => x = y
    BY <1>4, <1>5 DEF OfTeams
  <2>2. ASSUME NEW t \in taken PROVE \E x \in B : f[x] = t
    <3>1. PICK x \in A : x.team = t
      BY <1>2, <1>3
    <3> QED
      BY <1>5, <3>1
  <2>3. \A x \in B : f[x] \in taken
    BY <1>5
  <2>4. f \in Bijection(B, taken)
    BY <2>1, <2>2, <2>3 DEF Bijection, Injection, Surjection, IsInjective
  <2> HIDE DEF f
  <2>5. ExistsBijection(B, taken)
    BY <2>4 DEF ExistsBijection
  <2>6. IsFiniteSet(B)
    <3>1. IsFiniteSet(A) /\ B \subseteq A
      BY <1>4, <1>5 DEF OfTeams
    <3> QED
      BY <3>1, FS_Subset
  <2> QED
    BY <1>2, <2>5, <2>6, FS_Bijection
<1>8. PICK n \in Nat : n = TopOf(F, k, perPool) + w /\ Cardinality(U \cup B) = n
  <2>1. Cardinality(U) = TopOf(F, k, perPool)
    BY <1>2, <1>3, RowsUpToCounted DEF TopOf
  <2>2. IsFiniteSet(U)
    BY <1>4 DEF OfTeams
  <2>3. Cardinality(U) \in Nat
    BY <2>2, FS_CardinalityType
  <2>4. Cardinality(U \cup B) = Cardinality(U) + Cardinality(B) - Cardinality(U \cap B)
    BY <1>7, <2>2, FS_Union
  <2>5. Cardinality(U \cap B) = 0
    BY <1>6, FS_EmptySet
  <2> QED
    BY <1>7, <2>1, <2>3, <2>4, <2>5
<1>9. PICK fieldRows : fieldRows = U \cup B
  OBVIOUS
<1>10. PICK s : s = S!Sorted(fieldRows, S!ByPlaceThenStrength)
  OBVIOUS
<1>11. PICK R : ByStrength(R, fieldRows)
  <2> DEFINE R == {xy \in fieldRows \X fieldRows : S!ByPlaceThenStrength(xy[1], xy[2])}
  <2>1. ByStrength(R, fieldRows)
    BY DEF ByStrength
  <2> HIDE DEF R
  <2> QED
    BY <2>1
<1>12. TotalOrder(R, fieldRows) /\ InOrder(s, fieldRows, R)
  BY <1>6, <1>9, <1>10, <1>11, StrengthSorts DEF ByStrength
<1>13. /\ s = [i \in 1..n |-> s[i]] /\ s \in [1..n -> fieldRows]
       /\ \A x \in fieldRows : \E i \in 1..n : s[i] = x
       /\ \A i, j \in 1..n : s[i] = s[j] => i = j
  <2>1. IsFiniteSet(fieldRows)
    BY <1>6, <1>9 DEF OfTeams
  <2>2. \A i, j \in 1..n : s[i] = s[j] => i = j
    BY <1>8, <1>9, <1>12, <2>1, PlacesInOrder
  <2> QED
    BY <1>8, <1>9, <1>12, <2>2 DEF InOrder
<1>14. PICK seeds : seeds = S!RankForBracket(pools, rule, draws)
  OBVIOUS
<1>15. seeds = [i \in 1..n |-> s[i].team]
  <2>1. seeds = S!TeamsInOrder(S!Sorted(S!RowsUpTo(res.pools, rule.perPool)
                                  \cup {x \in S!RowsAfter(res.pools, rule.perPool) :
                                          x.team \in {res.wildcards[i] : i \in 1..rule.wildcards}},
                                S!ByPlaceThenStrength))
    BY <1>14, Zenon DEF S!RankForBracket
  <2>2. fieldRows = S!RowsUpTo(res.pools, rule.perPool)
                     \cup {x \in S!RowsAfter(res.pools, rule.perPool) :
                             x.team \in {res.wildcards[i] : i \in 1..rule.wildcards}}
    BY <1>1, <1>3, <1>5, <1>9 DEF Taken
  <2>3. seeds = S!TeamsInOrder(s)
    BY <1>10, <2>1, <2>2, Zenon
  <2> QED
    BY <1>13, <2>3, TeamsOfList
<1>16. ASSUME NEW p \in 1..k, NEW i \in 1..Cardinality(F[p])
       PROVE  /\ new[p][i] \in U \cup A
              /\ new[p][i].team \in TeamsIn(F, k)
              /\ new[p][i] \in U <=> i <= perPool
  <2>1. Table(new[p], F[p])
    BY <1>2 DEF Tables
  <2>2. Cardinality(F[p]) \in Nat
    BY <2>1 DEF Table
  <2>3. i <= perPool \/ i > perPool
    BY <2>2
  <2>4. i <= perPool => new[p][i] \in U
    BY <1>4 DEF UpToPlace
  <2>5. i > perPool => new[p][i] \in A
    BY <1>4 DEF AfterPlace
  <2>6. ASSUME new[p][i] \in U PROVE i <= perPool
    <3>1. PICK q \in 1..k : \E j \in 1..Cardinality(F[q]) : j <= perPool /\ new[p][i] = new[q][j]
      BY <1>4, <2>6 DEF UpToPlace
    <3>2. PICK j \in 1..Cardinality(F[q]) : j <= perPool /\ new[p][i] = new[q][j]
      BY <3>1
    <3>3. new[p][i].team = new[q][j].team
      BY <3>2
    <3>4. k \in Nat /\ Tables(new, F, k)
      BY <1>2
    <3>5. p = q /\ i = j
      BY ONLY <3>3, <3>4, p \in 1..k, q \in 1..k, i \in 1..Cardinality(F[p]), j \in 1..Cardinality(F[q]), OneRowEach
    <3> QED
      BY <3>2, <3>5
  <2>7. new[p][i].team \in TeamsIn(F, k)
    <3>1. new[p][i].team \in F[p]
      BY <2>1 DEF Table
    <3> QED
      BY <3>1 DEF TeamsIn
  <2> QED
    BY <2>3, <2>4, <2>5, <2>6, <2>7
<1>17. ASSUME NEW x \in fieldRows
       PROVE  x.team \in TeamsIn(F, k)
  <2>1. x \in U \/ x \in A
    BY <1>5, <1>9
  <2>2. x \in U => \E p \in 1..k : \E i \in 1..Cardinality(F[p]) : x = new[p][i]
    BY <1>4 DEF UpToPlace
  <2>3. x \in A => \E p \in 1..k : \E i \in 1..Cardinality(F[p]) : x = new[p][i]
    BY <1>4 DEF AfterPlace
  <2> QED
    BY <1>16, <2>1, <2>2, <2>3
<1>18. seeds \in [1..n -> TeamsIn(F, k)]
  BY <1>13, <1>15, <1>17
<1>19. ASSUME NEW i \in 1..n, NEW j \in 1..n, seeds[i] = seeds[j]
       PROVE  i = j
  <2>1. s[i] \in fieldRows /\ s[j] \in fieldRows /\ s[i].team = s[j].team
    BY <1>13, <1>15, <1>19
  <2>2. s[i] = s[j]
    BY <1>6, <1>9, <2>1 DEF OfTeams
  <2> QED
    BY <1>13, <2>2
<1>20. ASSUME NEW p \in 1..k, NEW i \in 1..Cardinality(F[p])
       PROVE  (\E l \in 1..n : seeds[l] = new[p][i].team) <=> (i <= perPool \/ new[p][i].team \in taken)
  <2>1. PICK x : x = new[p][i]
    OBVIOUS
  <2>2. x \in U \cup A /\ (x \in U <=> i <= perPool)
    BY <1>16, <2>1
  <2>3. (\E l \in 1..n : seeds[l] = x.team) <=> \E y \in fieldRows : y.team = x.team
    BY <1>13, <1>15
  <2>4. ASSUME NEW y \in fieldRows, y.team = x.team PROVE x \in U \/ x.team \in taken
    <3>1. CASE y \in U
      <4>1. PICK q \in 1..k : \E j \in 1..Cardinality(F[q]) : j <= perPool /\ y = new[q][j]
        BY <1>4, <3>1 DEF UpToPlace
      <4>2. PICK j \in 1..Cardinality(F[q]) : j <= perPool /\ y = new[q][j]
        BY <4>1
      <4>3. new[p][i].team = new[q][j].team
        BY <2>1, <2>4, <4>2
      <4>4. k \in Nat /\ Tables(new, F, k)
        BY <1>2
      <4>5. p = q /\ i = j
        BY ONLY <4>3, <4>4, p \in 1..k, q \in 1..k, i \in 1..Cardinality(F[p]), j \in 1..Cardinality(F[q]), OneRowEach
      <4> QED
        BY <2>2, <4>2, <4>5
    <3>2. CASE y \notin U
      BY <1>5, <1>9, <2>4, <3>2
    <3> QED
      BY <3>1, <3>2
  <2>5. x \in U => x \in fieldRows
    BY <1>9
  <2>6. x \notin U /\ x.team \in taken => x \in fieldRows
    BY <1>5, <1>9, <2>2
  <2> QED
    BY <2>1, <2>2, <2>3, <2>4, <2>5, <2>6
<1>21. SeededFrom(seeds, new, F, k, perPool, taken, n)
  BY <1>18, <1>19, <1>20 DEF SeededFrom
<1> QED
  BY <1>1, <1>8, <1>14, <1>21

\* The greater of zero and a difference.
LEMMA ExcessIs ==
  ASSUME NEW a \in Nat, NEW b \in Nat
  PROVE  S!Max({0, a - b}) = IF a > b THEN a - b ELSE 0
<1> DEFINE v == IF a > b THEN a - b ELSE 0
           S0 == {0, a - b}
<1>1. v \in S0 /\ \A y \in S0 : v >= y
  OBVIOUS
<1>2. \A x \in S0 : (\A y \in S0 : x >= y) => x = v
  OBVIOUS
<1>3. S!Max(S0) = CHOOSE x \in S0 : \A y \in S0 : x >= y
  BY Zenon DEF S!Max
<1> HIDE DEF v, S0
<1>4. S!Max(S0) = v
  BY <1>1, <1>2, <1>3
<1> QED
  BY <1>4 DEF v, S0

\* The standings of pools that have played out are a table each.
LEMMA StandingsAreTables ==
  ASSUME NEW k \in Nat, NEW F, NEW pools, StandingsOfPools(pools, F, k)
  PROVE  Tables(pools, F, k)
<1>1. PICK results : /\ \A p \in 1..k : PlayedOut(F[p], results[p])
                     /\ pools = [p \in 1..k |-> S!ComputeStandings(F[p], results[p])]
  BY DEF StandingsOfPools
<1>2. ASSUME NEW p \in 1..k PROVE Table(pools[p], F[p])
  <2>1. pools[p] = S!ComputeStandings(F[p], results[p])
    BY <1>1
  <2>2. PICK T, played : T = F[p] /\ played = results[p]
    OBVIOUS
  <2>3. Table(S!ComputeStandings(T, played), T)
    BY <1>1, <2>2, StandingsAreATable
  <2> QED
    BY <2>1, <2>2, <2>3
<1>3. pools = [p \in 1..k |-> pools[p]]
  BY <1>1
<1> QED
  BY <1>2, <1>3 DEF Tables, StandingsOfPools

\* A rule that fits the pools has a team for every wildcard.
LEMMA WildcardsFit ==
  ASSUME NEW k \in Nat, NEW F, \A p \in 1..k : Cardinality(F[p]) \in Nat,
         NEW rule, rule.perPool \in Nat, NEW largest, NEW sizes, sizes = [p \in 1..k |-> Cardinality(F[p])],
         S!AdvancementFits(sizes, rule, largest)
  PROVE  rule.wildcards <= LeftAfter(F, k, rule.perPool)
<1> DEFINE h == [p \in 1..k |-> S!Max({0, sizes[p] - rule.perPool})]
           g == [p \in 1..k |-> IF Cardinality(F[p]) > rule.perPool THEN Cardinality(F[p]) - rule.perPool ELSE 0]
<1>1. ASSUME NEW p \in 1..k
      PROVE  S!Max({0, sizes[p] - rule.perPool})
               = IF Cardinality(F[p]) > rule.perPool THEN Cardinality(F[p]) - rule.perPool ELSE 0
  <2>1. PICK a, b : a = Cardinality(F[p]) /\ b = rule.perPool
    OBVIOUS
  <2>2. sizes[p] = a /\ a \in Nat /\ b \in Nat
    BY <2>1
  <2>3. S!Max({0, a - b}) = IF a > b THEN a - b ELSE 0
    BY <2>2, ExcessIs
  <2> QED
    BY <2>1, <2>2, <2>3
<1>2. h = g
  BY <1>1
<1>3. rule.wildcards <= S!SumFunction([p \in DOMAIN sizes |-> S!Max({0, sizes[p] - rule.perPool})])
  BY DEF S!AdvancementFits
<1>4. [p \in DOMAIN sizes |-> S!Max({0, sizes[p] - rule.perPool})] = h
  OBVIOUS
<1>5. LeftAfter(F, k, rule.perPool) = S!SumFunction(g)
  BY DEF LeftAfter
<1> HIDE DEF h, g
<1> QED
  BY <1>2, <1>3, <1>4, <1>5

\* The bracket takes exactly what the public standings show, whatever the
\* results and the lots and however many pools, teams, places and wildcards
\* (CutIsShown; standings.ts, resolveCutLineTies and rankForBracket).
THEOREM CutLineHolds ==
  ASSUME NEW k \in Nat, NEW F, NEW pools, StandingsOfPools(pools, F, k),
         NEW rule, rule.perPool \in Nat \ {0}, rule.wildcards \in Nat,
         NEW largest, S!AdvancementFits([p \in 1..k |-> Cardinality(F[p])], rule, largest),
         NEW draws, IsLot(draws.pool, TeamsIn(F, k)), IsLot(draws.wild, TeamsIn(F, k))
  PROVE  S!CutIsShown(S!RankForBracket(pools, rule, draws), S!PublicStandings(pools, rule, draws, TRUE), rule)
<1>1. PICK perPool, w : perPool = rule.perPool /\ w = rule.wildcards
  OBVIOUS
<1>2. Tables(pools, F, k)
  BY StandingsAreTables
<1>3. \A p \in 1..k : Cardinality(F[p]) \in Nat
  BY <1>2 DEF Tables, Table
<1>4. w <= LeftAfter(F, k, perPool)
  <2>1. PICK sizes : sizes = [p \in 1..k |-> Cardinality(F[p])]
    OBVIOUS
  <2>2. rule.perPool \in Nat /\ S!AdvancementFits(sizes, rule, largest)
    BY <2>1
  <2>3. rule.wildcards <= LeftAfter(F, k, rule.perPool)
    BY <1>3, <2>1, <2>2, WildcardsFit
  <2> QED
    BY <1>1, <2>3
<1>5. PICK res : res = S!ResolveCutLineTies(pools, rule, draws)
  OBVIOUS
<1>6. Resolved(res, F, k, perPool, w)
  BY <1>1, <1>2, <1>4, <1>5, CutLinesAreResolved
<1>7. PICK seeds, new, n, taken : /\ seeds = S!RankForBracket(pools, rule, draws) /\ new = res.pools
                                  /\ n = TopOf(F, k, perPool) + w /\ taken = Taken(res, w)
  OBVIOUS
<1>8. SeededFrom(seeds, new, F, k, perPool, taken, n)
  BY <1>1, <1>5, <1>6, <1>7, SeedsAreDrawn
<1>9. S!PublicStandings(pools, rule, draws, TRUE) = new
  BY <1>5, <1>7 DEF S!PublicStandings
<1>10. Tables(new, F, k) /\ CutIsFair(new, F, k, perPool, taken)
  BY <1>6, <1>7 DEF Resolved
<1>11. /\ DOMAIN new = 1..k
       /\ \A p \in 1..k : DOMAIN new[p] = 1..Cardinality(F[p]) /\ Len(new[p]) = Cardinality(F[p])
  <2>1. \A p \in 1..k : Table(new[p], F[p])
    BY <1>10 DEF Tables
  <2>2. \A p \in 1..k : DOMAIN new[p] = 1..Cardinality(F[p]) /\ Len(new[p]) = Cardinality(F[p])
    BY <1>3, <2>1 DEF Table
  <2> QED
    BY <1>10, <2>2 DEF Tables
<1>12. DOMAIN seeds = 1..n /\ Len(seeds) = n /\ \A l, m \in 1..n : seeds[l] = seeds[m] => l = m
  BY <1>8 DEF SeededFrom
<1>13. n = rule.wildcards + S!SumFunction([p \in DOMAIN new |->
                              IF Len(new[p]) < rule.perPool THEN Len(new[p]) ELSE rule.perPool])
  <2>1. PICK h : h = [p \in 1..k |-> IF Cardinality(F[p]) < perPool THEN Cardinality(F[p]) ELSE perPool]
    OBVIOUS
  <2>2. [p \in DOMAIN new |-> IF Len(new[p]) < rule.perPool THEN Len(new[p]) ELSE rule.perPool] = h
    BY <1>1, <1>11, <2>1
  <2>3. n = S!SumFunction(h) + w
    BY <1>7, <2>1 DEF TopOf
  <2>4. S!SumFunction(h) \in Nat
    <3>1. S!SumFunction(h) = S!SumFunctionOnSet(h, DOMAIN h)
      BY Zenon DEF S!SumFunction
    <3>2. DOMAIN h = 1..k /\ \A p \in 1..k : h[p] \in Nat
      BY <1>1, <1>3, <2>1
    <3>3. IsFiniteSet(1..k)
      <4>1. 1 \in Int /\ k \in Int
        OBVIOUS
      <4> QED
        BY <4>1, FS_Interval
    <3> QED
      BY <3>1, <3>2, <3>3, SumsAreNatural
  <2>5. PICK sum \in Nat : sum = S!SumFunction(h)
    BY <2>4
  <2>6. n = w + sum
    BY <1>1, <2>3, <2>5
  <2> QED
    BY <1>1, <2>2, <2>5, <2>6
<1>14. ASSUME NEW p \in 1..k, NEW i \in 1..Cardinality(F[p]), NEW j \in 1..Cardinality(F[p]), NEW x, x = new[p][i], NEW y, y = new[p][j]
       PROVE  /\ i <= perPool => \E l \in 1..n : seeds[l] = x.team
              /\ i < j /\ (\E l \in 1..n : seeds[l] = y.team) => \E l \in 1..n : seeds[l] = x.team
              /\ (\E l \in 1..n : seeds[l] = x.team) /\ ~(\E l \in 1..n : seeds[l] = y.team) => x.rank < y.rank
  <2>1. /\ (\E l \in 1..n : seeds[l] = x.team) <=> (i <= perPool \/ x.team \in taken)
        /\ (\E l \in 1..n : seeds[l] = y.team) <=> (j <= perPool \/ y.team \in taken)
    BY <1>8, <1>14 DEF SeededFrom
  <2>2. /\ i < j /\ perPool < i /\ y.team \in taken => x.team \in taken
        /\ (i <= perPool \/ x.team \in taken) /\ perPool < j /\ y.team \notin taken => x.rank < y.rank
    BY <1>10, <1>14 DEF CutIsFair
  <2>3. i \in Nat /\ j \in Nat /\ perPool \in Nat
    BY <1>1, <1>3
  <2>4. (perPool < i \/ i <= perPool) /\ (perPool < j \/ j <= perPool) /\ (i < j /\ j <= perPool => i <= perPool)
    BY <2>3
  <2> QED
    BY <2>1, <2>2, <2>4
<1>15. S!CutIsShown(seeds, new, rule)
  <2> DEFINE Advances(x) == \E l \in DOMAIN seeds : seeds[l] = x.team
  <2>1. \A p \in DOMAIN new : \A i, j \in DOMAIN new[p] :
          /\ i <= rule.perPool => Advances(new[p][i])
          /\ i < j /\ Advances(new[p][j]) => Advances(new[p][i])
          /\ Advances(new[p][i]) /\ ~Advances(new[p][j]) => new[p][i].rank < new[p][j].rank
    <3> SUFFICES ASSUME NEW p \in 1..k, NEW i \in 1..Cardinality(F[p]), NEW j \in 1..Cardinality(F[p])
                 PROVE  /\ i <= rule.perPool => Advances(new[p][i])
                        /\ i < j /\ Advances(new[p][j]) => Advances(new[p][i])
                        /\ Advances(new[p][i]) /\ ~Advances(new[p][j]) => new[p][i].rank < new[p][j].rank
      BY <1>11
    <3>1. PICK x, y : x = new[p][i] /\ y = new[p][j]
      OBVIOUS
    <3>2. /\ Advances(x) <=> \E l \in 1..n : seeds[l] = x.team
          /\ Advances(y) <=> \E l \in 1..n : seeds[l] = y.team
      BY <1>12
    <3> HIDE DEF Advances
    <3>3. /\ i <= perPool => \E l \in 1..n : seeds[l] = x.team
          /\ i < j /\ (\E l \in 1..n : seeds[l] = y.team) => \E l \in 1..n : seeds[l] = x.team
          /\ (\E l \in 1..n : seeds[l] = x.team) /\ ~(\E l \in 1..n : seeds[l] = y.team) => x.rank < y.rank
      BY <1>14, <3>1
    <3> QED
      BY <1>1, <3>1, <3>2, <3>3
  <2>2. \A l, m \in DOMAIN seeds : seeds[l] = seeds[m] => l = m
    BY <1>12
  <2> HIDE DEF Advances
  <2>3. Len(seeds) = rule.wildcards + S!SumFunction([p \in DOMAIN new |->
                       IF Len(new[p]) < rule.perPool THEN Len(new[p]) ELSE rule.perPool])
    BY <1>12, <1>13
  <2> QED
    BY <2>1, <2>2, <2>3, Zenon DEF S!CutIsShown, Advances
<1> QED
  BY <1>7, <1>9, <1>15

-----------------------------------------------------------------------------
(* The final placements. *)

\* Every earlier one has the members of a later one.
LEMMA EarlierIsLarger ==
  ASSUME NEW n \in Nat, NEW Z, Shrinking(Z, n), NEW r \in 1..(n + 1), NEW s \in 1..(n + 1), r <= s
  PROVE  Z[s] \subseteq Z[r]
<1> DEFINE Good == {d \in Nat : r + d \in 1..(n + 1) => Z[r + d] \subseteq Z[r]}
<1>1. 0 \in Good
  OBVIOUS
<1>2. ASSUME NEW d \in Nat, d \in Good
      PROVE  d + 1 \in Good
  <2> SUFFICES ASSUME r + (d + 1) \in 1..(n + 1) PROVE Z[r + (d + 1)] \subseteq Z[r]
    OBVIOUS
  <2>1. PICK q : q = r + d
    OBVIOUS
  <2>2. q \in 1..n /\ r + d \in 1..(n + 1) /\ q + 1 = r + (d + 1)
    BY <2>1
  <2>3. Z[q + 1] \subseteq Z[q]
    BY <2>2 DEF Shrinking
  <2>4. Z[q] \subseteq Z[r]
    BY <1>2, <2>1, <2>2
  <2> QED
    BY <2>2, <2>3, <2>4
<1> HIDE DEF Good
<1>3. Nat \subseteq Good
  BY <1>1, <1>2, NumberInduction
<1>4. s - r \in Nat /\ r + (s - r) = s
  OBVIOUS
<1> QED
  BY <1>3, <1>4 DEF Good

\* Whoever is in the first is in a last one.
LEMMA LeavesOnce ==
  ASSUME NEW n \in Nat, NEW Z, Shrinking(Z, n), NEW x \in Z[1]
  PROVE  \E r \in 1..(n + 1) : x \in Z[r] /\ (r = n + 1 \/ x \notin Z[r + 1])
<1> SUFFICES ASSUME \A r \in 1..(n + 1) : x \in Z[r] => r # n + 1 /\ x \in Z[r + 1]
             PROVE  FALSE
  OBVIOUS
<1> DEFINE Good == {d \in Nat : d + 1 \in 1..(n + 1) => x \in Z[d + 1]}
<1>1. 0 \in Good
  OBVIOUS
<1>2. ASSUME NEW d \in Nat, d \in Good
      PROVE  d + 1 \in Good
  <2> SUFFICES ASSUME (d + 1) + 1 \in 1..(n + 1) PROVE x \in Z[(d + 1) + 1]
    OBVIOUS
  <2>1. PICK q : q = d + 1
    OBVIOUS
  <2>2. q \in 1..(n + 1) /\ x \in Z[q]
    BY <1>2, <2>1
  <2>3. x \in Z[q + 1]
    BY <2>2
  <2> QED
    BY <2>1, <2>3
<1> HIDE DEF Good
<1>3. n \in Good
  BY <1>1, <1>2, NumberInduction
<1>4. n + 1 \in 1..(n + 1) /\ x \in Z[n + 1]
  BY <1>3 DEF Good
<1> QED
  BY <1>4

\* Everyone is in one group, and has fewer ahead than whoever is in a later one.
LEMMA GroupsRank ==
  ASSUME NEW n \in Nat, NEW Z, Shrinking(Z, n), IsFiniteSet(Z[1]), NEW G, G = GroupsOf(Z, n)
  PROVE  /\ \A x : x \in Z[1] <=> \E g : InGroup(G, n, x, g)
         /\ \A x, g, h : InGroup(G, n, x, g) /\ InGroup(G, n, x, h) => g = h
         /\ \A x, g, r : InGroup(G, n, x, g) /\ r \in 1..(n + 1) => (x \in Z[r] <=> g <= n + 2 - r)
         /\ \A g \in 1..(n + 1) : IsFiniteSet(Ahead(G, g)) /\ Ahead(G, g) \subseteq Z[1]
         /\ \A x, g, y, h : InGroup(G, n, x, g) /\ InGroup(G, n, y, h) /\ g < h =>
              Cardinality(Ahead(G, g)) < Cardinality(Ahead(G, h))
<1>1. ASSUME NEW x, NEW g, InGroup(G, n, x, g), NEW r \in 1..(n + 1)
      PROVE  x \in Z[r] <=> g <= n + 2 - r
  <2>1. g \in 1..(n + 1) /\ x \in G[g]
    BY <1>1 DEF InGroup
  <2>2. PICK q \in 1..(n + 1) : q = n + 2 - g
    BY <2>1
  <2>3. x \in Z[q] /\ (q # n + 1 => x \notin Z[q + 1])
    <3>1. CASE g = 1
      BY <2>1, <2>2, <3>1 DEF GroupsOf
    <3>2. CASE g # 1
      <4>1. x \in Z[n + 2 - g] /\ x \notin Z[n + 3 - g]
        BY <2>1, <3>2 DEF GroupsOf
      <4>2. n + 3 - g = q + 1
        BY <2>1, <2>2
      <4> QED
        BY <2>2, <4>1, <4>2
    <3> QED
      BY <3>1, <3>2
  <2>4. r <= q => x \in Z[r]
    BY <2>3, EarlierIsLarger
  <2>5. ASSUME ~(r <= q)
        PROVE  x \notin Z[r]
    <3>1. PICK v : v = q + 1
      OBVIOUS
    <3>2. v \in 1..(n + 1) /\ v <= r /\ q # n + 1
      BY <2>5, <3>1
    <3>3. Z[r] \subseteq Z[v]
      BY <3>2, EarlierIsLarger
    <3> QED
      BY <2>3, <3>1, <3>2, <3>3
  <2>6. r <= q <=> g <= n + 2 - r
    BY <2>1, <2>2
  <2> QED
    BY <2>4, <2>5, <2>6
<1>2. ASSUME NEW x \in Z[1]
      PROVE  \E g : InGroup(G, n, x, g)
  <2>1. PICK r \in 1..(n + 1) : x \in Z[r] /\ (r = n + 1 \/ x \notin Z[r + 1])
    BY LeavesOnce
  <2>2. PICK g \in 1..(n + 1) : g = n + 2 - r
    <3>1. n + 2 - r \in 1..(n + 1)
      OBVIOUS
    <3> QED
      BY <3>1
  <2>3. x \in G[g]
    <3>1. CASE g = 1
      <4>1. r = n + 1
        BY <2>2, <3>1
      <4> QED
        BY <2>1, <3>1, <4>1 DEF GroupsOf
    <3>2. CASE g # 1
      <4>1. n + 2 - g = r /\ n + 3 - g = r + 1 /\ r # n + 1
        BY <2>2, <3>2
      <4> QED
        BY <2>1, <3>2, <4>1 DEF GroupsOf
    <3> QED
      BY <3>1, <3>2
  <2> QED
    BY <2>3 DEF InGroup
<1>3. ASSUME NEW x, NEW g, InGroup(G, n, x, g)
      PROVE  x \in Z[1]
  <2>1. g \in 1..(n + 1) /\ 1 \in 1..(n + 1) /\ g <= n + 2 - 1
    BY <1>3 DEF InGroup
  <2> QED
    BY <1>1, <1>3, <2>1
<1>4. ASSUME NEW x, NEW g, NEW h, InGroup(G, n, x, g), InGroup(G, n, x, h)
      PROVE  ~(g < h)
  <2>1. PICK r \in 1..(n + 1) : r = n + 2 - g
    BY <1>4 DEF InGroup
  <2>2. g \in Nat /\ h \in Nat /\ g = n + 2 - r
    BY <1>4, <2>1 DEF InGroup
  <2>3. x \in Z[r]
    BY <1>1, <1>4, <2>2
  <2>4. h <= n + 2 - r
    BY <1>1, <1>4, <2>3
  <2> QED
    BY <2>2, <2>4
<1>5. ASSUME NEW x, NEW g, NEW h, InGroup(G, n, x, g), InGroup(G, n, x, h)
      PROVE  g = h
  <2>1. g \in Nat /\ h \in Nat
    BY <1>5 DEF InGroup
  <2>2. ~(g < h) /\ ~(h < g)
    BY <1>4, <1>5
  <2> QED
    BY <2>1, <2>2
<1>6. ASSUME NEW g \in 1..(n + 1)
      PROVE  IsFiniteSet(Ahead(G, g)) /\ Ahead(G, g) \subseteq Z[1]
  <2>1. ASSUME NEW x \in Ahead(G, g)
        PROVE  x \in Z[1]
    <3>1. PICK h \in 1..(g - 1) : x \in G[h]
      BY <2>1 DEF Ahead
    <3> QED
      BY <1>3, <3>1 DEF InGroup
  <2> QED
    BY <2>1, FS_Subset
<1>7. ASSUME NEW x, NEW g, NEW y, NEW h, InGroup(G, n, x, g), InGroup(G, n, y, h), g < h
      PROVE  Cardinality(Ahead(G, g)) < Cardinality(Ahead(G, h))
  <2>1. g \in 1..(n + 1) /\ h \in 1..(n + 1) /\ x \in G[g]
    BY <1>7 DEF InGroup
  <2>2. Ahead(G, g) \subseteq Ahead(G, h)
    <3>1. 1..(g - 1) \subseteq 1..(h - 1)
      BY <1>7, <2>1
    <3> QED
      BY <3>1 DEF Ahead
  <2>3. x \in Ahead(G, h)
    <3>1. g \in 1..(h - 1)
      BY <1>7, <2>1
    <3> QED
      BY <2>1, <3>1 DEF Ahead
  <2>4. x \notin Ahead(G, g)
    <3> SUFFICES ASSUME x \in Ahead(G, g) PROVE FALSE
      OBVIOUS
    <3>1. PICK i \in 1..(g - 1) : x \in G[i]
      BY DEF Ahead
    <3>2. InGroup(G, n, x, i) /\ i # g
      BY <2>1, <3>1 DEF InGroup
    <3> QED
      BY <1>5, <1>7, <3>2
  <2>5. IsFiniteSet(Ahead(G, h)) /\ IsFiniteSet(Ahead(G, g))
    BY <1>6, <2>1
  <2>6. /\ Cardinality(Ahead(G, g)) <= Cardinality(Ahead(G, h))
        /\ Cardinality(Ahead(G, g)) # Cardinality(Ahead(G, h))
    BY <2>2, <2>3, <2>4, <2>5, FS_Subset
  <2>7. Cardinality(Ahead(G, g)) \in Nat /\ Cardinality(Ahead(G, h)) \in Nat
    BY <2>5, FS_CardinalityType
  <2> QED
    BY <2>6, <2>7
<1> QED
  BY <1>1, <1>2, <1>3, <1>5, <1>6, <1>7

\* The rounds of single elimination shrink to its champion, and the groups the
\* bracket is placed by are of those who leave them (bracketGroups).
LEMMA RoundsShrink ==
  ASSUME NEW B, NEW n, Knockout(B, n), NEW Z, Z = Reaching(B, n)
  PROVE  /\ Shrinking(Z, n)
         /\ S!BracketGroups(B) = GroupsOf(Z, n)
         /\ Z[1] = InRound(B, 1)
         /\ \A m \in B : m.round = n => m.winner = S!Champion(B)
         /\ \A m \in B : m.round \in 1..n /\ m.winner \in Z[m.round + 1] /\ m.winner \in Z[1]
         /\ \A m \in B : \A t \in TeamsOfMatch(m) : t # m.winner => t \in Z[m.round] /\ t \notin Z[m.round + 1] /\ t \in Z[1]
<1>1. /\ n \in Nat \ {0}
      /\ \A m \in B : m.round \in 1..n /\ m.winner \in TeamsOfMatch(m) /\ (m.bye \/ m.a # m.b)
      /\ \A m, o \in B : \A t \in TeamsOfMatch(m) \cap TeamsOfMatch(o) : m.round = o.round => m = o
      /\ \A r \in 1..n, t \in UNION {TeamsOfMatch(m) : m \in B} : r # n => (WinsIn(B, r, t) <=> t \in InRound(B, r + 1))
  BY DEF Knockout
<1>2. PICK final \in B : final.round = n /\ \A m \in B : m.round = n => m = final
  BY DEF Knockout
<1>3. S!FinalRound(B) = n
  <2>1. PICK rounds : rounds = {m.round : m \in B}
    OBVIOUS
  <2>2. n \in rounds /\ \A r \in rounds : r \in 1..n
    BY <1>1, <1>2, <2>1
  <2>3. S!Max(rounds) = CHOOSE x \in rounds : \A y \in rounds : x >= y
    BY Zenon DEF S!Max
  <2>4. n \in Nat /\ \A r \in rounds : r \in Nat /\ n >= r
    BY <1>1, <2>2
  <2>5. PICK x : x = S!Max(rounds)
    OBVIOUS
  <2>6. x \in rounds /\ \A y \in rounds : x >= y
    BY <2>2, <2>3, <2>4, <2>5
  <2>7. x = n
    BY <2>2, <2>4, <2>6
  <2> QED
    BY <2>1, <2>5, <2>7 DEF S!FinalRound
<1>4. S!Champion(B) = final.winner
  BY <1>2, <1>3 DEF S!Champion
<1>5. ASSUME NEW m \in B, NEW t \in TeamsOfMatch(m), NEW r, m.round = r
      PROVE  t \in InRound(B, r) /\ t \in UNION {TeamsOfMatch(x) : x \in B}
  BY <1>5 DEF InRound
<1>6. ASSUME NEW r \in 1..n, NEW t \in InRound(B, r)
      PROVE  WinsIn(B, r, t) <=> t \in Z[r + 1]
  <2>1. CASE r = n
    <3>1. Z[r + 1] = {final.winner}
      BY <1>1, <1>4, <2>1 DEF Reaching
    <3> QED
      BY <1>2, <2>1, <3>1 DEF WinsIn
  <2>2. CASE r # n
    <3>1. r + 1 \in 1..(n + 1) /\ r + 1 # n + 1
      BY <1>1, <2>2
    <3>2. Z[r + 1] = InRound(B, r + 1)
      BY <3>1 DEF Reaching
    <3> QED
      BY <1>1, <2>2, <3>2 DEF InRound
  <2> QED
    BY <2>1, <2>2
<1>7. ASSUME NEW r \in 1..n
      PROVE  Z[r] = InRound(B, r)
  <2>1. r \in 1..(n + 1) /\ r # n + 1
    BY <1>1
  <2> QED
    BY <2>1 DEF Reaching
<1>8. ASSUME NEW r \in 1..n, NEW t \in Z[r + 1]
      PROVE  t \in Z[r] /\ WinsIn(B, r, t)
  <2>1. WinsIn(B, r, t)
    <3>1. CASE r = n
      <4>1. Z[r + 1] = {final.winner}
        BY <1>1, <1>4, <3>1 DEF Reaching
      <4> QED
        BY <1>2, <3>1, <4>1 DEF WinsIn
    <3>2. CASE r # n
      <4>1. r + 1 \in 1..(n + 1) /\ r + 1 # n + 1
        BY <1>1, <3>2
      <4>2. t \in InRound(B, r + 1)
        BY <4>1 DEF Reaching
      <4> QED
        BY <1>1, <3>2, <4>2 DEF InRound
    <3> QED
      BY <3>1, <3>2
  <2>2. PICK m \in B : m.round = r /\ m.winner = t
    BY <2>1 DEF WinsIn
  <2>3. t \in InRound(B, r)
    BY <1>1, <1>5, <2>2
  <2> QED
    BY <1>7, <2>1, <2>3
<1>9. Shrinking(Z, n)
  BY <1>8 DEF Shrinking
<1>10. ASSUME NEW r \in 1..n, NEW t
       PROVE  t \in S!LosersOf(B, r) <=> t \in Z[r] \ Z[r + 1]
  <2>1. t \in S!LosersOf(B, r) <=> \E m \in B : m.round = r /\ ~m.bye /\ t = S!LoserOf(m)
    BY DEF S!LosersOf
  <2>2. ASSUME NEW m \in B, m.round = r, ~m.bye
        PROVE  S!LoserOf(m) \in TeamsOfMatch(m) /\ S!LoserOf(m) # m.winner
    BY <1>1, <2>2 DEF S!LoserOf, TeamsOfMatch
  <2>3. ASSUME NEW m \in B, m.round = r, ~m.bye, t = S!LoserOf(m)
        PROVE  t \in Z[r] \ Z[r + 1]
    <3>1. t \in TeamsOfMatch(m) /\ t # m.winner
      BY <2>2, <2>3
    <3>2. t \in InRound(B, r)
      BY <1>5, <2>3, <3>1
    <3>3. ~WinsIn(B, r, t)
      <4> SUFFICES ASSUME NEW o \in B, o.round = r, o.winner = t PROVE FALSE
        BY DEF WinsIn
      <4>1. t \in TeamsOfMatch(o)
        BY <1>1
      <4>2. m = o
        BY <1>1, <2>3, <3>1, <4>1
      <4> QED
        BY <3>1, <4>2
    <3> QED
      BY <1>6, <1>7, <3>2, <3>3
  <2>4. ASSUME t \in Z[r] \ Z[r + 1]
        PROVE  \E m \in B : m.round = r /\ ~m.bye /\ t = S!LoserOf(m)
    <3>1. t \in InRound(B, r) /\ ~WinsIn(B, r, t)
      BY <1>6, <1>7, <2>4
    <3>2. PICK m \in B : m.round = r /\ t \in TeamsOfMatch(m)
      BY <3>1 DEF InRound
    <3>3. m.winner # t /\ m.winner \in TeamsOfMatch(m)
      BY <1>1, <3>1, <3>2 DEF WinsIn
    <3>4. ~m.bye
      BY <3>2, <3>3 DEF TeamsOfMatch
    <3>5. t = S!LoserOf(m)
      BY <3>2, <3>3, <3>4 DEF TeamsOfMatch, S!LoserOf
    <3> QED
      BY <3>2, <3>4, <3>5
  <2> QED
    BY <2>1, <2>3, <2>4
<1>11. S!BracketGroups(B) = GroupsOf(Z, n)
  <2>1. ASSUME NEW g \in 1..(n + 1), g # 1
        PROVE  S!LosersOf(B, n + 2 - g) = Z[n + 2 - g] \ Z[n + 3 - g]
    <3>1. PICK r : r = n + 2 - g
      OBVIOUS
    <3>2. r \in 1..n /\ n + 3 - g = r + 1
      BY <1>1, <2>1, <3>1
    <3>3. S!LosersOf(B, r) = Z[r] \ Z[r + 1]
      BY <1>10, <3>2
    <3> QED
      BY <3>1, <3>2, <3>3
  <2>2. Z[n + 1] = {S!Champion(B)}
    BY <1>1 DEF Reaching
  <2>3. S!BracketGroups(B) = [g \in 1..(n + 1) |-> IF g = 1 THEN {S!Champion(B)} ELSE S!LosersOf(B, n + 2 - g)]
    BY <1>3 DEF S!BracketGroups
  <2> QED
    BY <2>1, <2>2, <2>3 DEF GroupsOf
<1>12. 1 \in 1..n /\ 1 \in 1..(n + 1)
  BY <1>1
<1>13. ASSUME NEW m \in B
       PROVE  m.round \in 1..n /\ m.winner \in Z[m.round + 1] /\ m.winner \in Z[1]
  <2>1. PICK r \in 1..n : r = m.round
    BY <1>1
  <2>2. m.winner \in InRound(B, r) /\ WinsIn(B, r, m.winner)
    BY <1>1, <1>5, <2>1 DEF WinsIn
  <2>3. r \in 1..(n + 1) /\ 1 <= r
    BY <1>1
  <2>4. m.winner \in Z[1]
    BY <1>1, <1>7, <1>9, <1>12, <2>2, <2>3, EarlierIsLarger
  <2> QED
    BY <1>6, <2>1, <2>2, <2>4
<1>14. ASSUME NEW m \in B, NEW t \in TeamsOfMatch(m), t # m.winner
       PROVE  t \in Z[m.round] /\ t \notin Z[m.round + 1] /\ t \in Z[1]
  <2>1. PICK r \in 1..n : r = m.round
    BY <1>1
  <2>2. t \in InRound(B, r)
    BY <1>5, <2>1
  <2>3. ~WinsIn(B, r, t)
    <3> SUFFICES ASSUME NEW o \in B, o.round = r, o.winner = t PROVE FALSE
      BY DEF WinsIn
    <3>1. t \in TeamsOfMatch(o)
      BY <1>1
    <3>2. m = o
      BY <1>1, <2>1, <3>1
    <3> QED
      BY <1>14, <3>2
  <2>4. r \in 1..(n + 1) /\ 1 <= r
    BY <1>1
  <2>5. t \in Z[1]
    BY <1>1, <1>7, <1>9, <1>12, <2>2, <2>4, EarlierIsLarger
  <2> QED
    BY <1>6, <1>7, <2>1, <2>2, <2>3, <2>5
<1>15. \A m \in B : m.round = n => m.winner = S!Champion(B)
  BY <1>2, <1>4
<1> QED
  BY <1>7, <1>9, <1>11, <1>12, <1>13, <1>14, <1>15

\* The final standings of single elimination place everyone: those knocked out
\* later first, then those left out, by the ranks of their pools
\* (finalStandings).
THEOREM KnockoutIsPlaced ==
  ASSUME NEW B, NEW n, Knockout(B, n), IsFiniteSet(InRound(B, 1)),
         NEW pools, NEW rows, rows = S!RowsAfter(pools, 0), OfTeams(rows)
  PROVE  PlacedBy(S!FinalStandings(B, pools), B, n, rows)
<1>1. PICK Z : Z = Reaching(B, n)
  OBVIOUS
<1>2. PICK G : G = S!BracketGroups(B)
  OBVIOUS
<1>3. /\ Shrinking(Z, n)
      /\ G = GroupsOf(Z, n)
      /\ Z[1] = InRound(B, 1)
      /\ \A m \in B : m.round = n => m.winner = S!Champion(B)
      /\ \A m \in B : m.round \in 1..n /\ m.winner \in Z[m.round + 1] /\ m.winner \in Z[1]
      /\ \A m \in B : \A t \in TeamsOfMatch(m) : t # m.winner => t \in Z[m.round] /\ t \notin Z[m.round + 1] /\ t \in Z[1]
  BY <1>1, <1>2, RoundsShrink
<1>4. n \in Nat \ {0} /\ IsFiniteSet(Z[1])
  BY <1>3 DEF Knockout
<1>5. /\ \A x : x \in Z[1] <=> \E g : InGroup(G, n, x, g)
      /\ \A x, g, h : InGroup(G, n, x, g) /\ InGroup(G, n, x, h) => g = h
      /\ \A x, g, r : InGroup(G, n, x, g) /\ r \in 1..(n + 1) => (x \in Z[r] <=> g <= n + 2 - r)
      /\ \A g \in 1..(n + 1) : IsFiniteSet(Ahead(G, g)) /\ Ahead(G, g) \subseteq Z[1]
      /\ \A x, g, y, h : InGroup(G, n, x, g) /\ InGroup(G, n, y, h) /\ g < h =>
           Cardinality(Ahead(G, g)) < Cardinality(Ahead(G, h))
  <2>1. n \in Nat
    BY <1>4
  <2> QED
    BY <1>3, <1>4, <2>1, GroupsRank
<1>6. DOMAIN G = 1..(n + 1) /\ \A x, g : InGroup(G, n, x, g) <=> g \in DOMAIN G /\ x \in G[g]
  BY <1>3 DEF GroupsOf, InGroup
<1>7. UNION {G[g] : g \in DOMAIN G} = Z[1]
  BY <1>5, <1>6
<1>8. PICK left : left = {x \in rows : x.team \notin Z[1]}
  OBVIOUS
<1> DEFINE Group(t) == CHOOSE g \in DOMAIN G : t \in G[g]
           Row(t) == CHOOSE x \in left : x.team = t
           Behind(x) == {y \in left : S!BehindOutside(x, y)}
<1>9. PICK final : final = S!FinalStandings(B, pools)
  OBVIOUS
<1>10. final = [t \in Z[1] \cup {x.team : x \in left} |->
                  1 + IF t \in Z[1] THEN S!Cardinality(UNION {G[g] : g \in 1..(Group(t) - 1)})
                      ELSE S!Cardinality(Z[1]) + S!Cardinality(Behind(Row(t)))]
  <2>1. final = PlacementsBy(S!BracketGroups(B), UNION {S!BracketGroups(B)[g] : g \in DOMAIN S!BracketGroups(B)},
                 {x \in S!RowsAfter(pools, 0) :
                    x.team \notin UNION {S!BracketGroups(B)[g] : g \in DOMAIN S!BracketGroups(B)}})
    BY ONLY <1>9, Zenon DEF S!FinalStandings, PlacementsBy
  <2>2. final = PlacementsBy(G, Z[1], left)
    BY <1>2, <1>7, <1>8, <2>1
  <2> QED
    BY ONLY <2>2, Zenon DEF PlacementsBy, Group, Row, Behind
<1>11. ASSUME NEW t, NEW g, InGroup(G, n, t, g)
       PROVE  final[t] = 1 + Cardinality(Ahead(G, g)) /\ Cardinality(Ahead(G, g)) \in Nat
                /\ Cardinality(Ahead(G, g)) < Cardinality(Z[1])
  <2>1. t \in Z[1] /\ g \in DOMAIN G /\ t \in G[g]
    BY <1>5, <1>6, <1>11
  <2>2. Group(t) \in DOMAIN G /\ t \in G[Group(t)]
    BY <2>1
  <2> HIDE DEF Group
  <2>3. Group(t) = g
    BY <1>5, <1>6, <2>1, <2>2
  <2>4. final[t] = 1 + S!Cardinality(UNION {G[h] : h \in 1..(Group(t) - 1)})
    BY <1>10, <2>1
  <2>5. final[t] = 1 + Cardinality(Ahead(G, g))
    BY <2>3, <2>4, StandingsCardinality DEF Ahead
  <2>6. IsFiniteSet(Ahead(G, g)) /\ Ahead(G, g) \subseteq Z[1]
    BY <1>5, <1>6, <2>1
  <2>7. t \notin Ahead(G, g)
    <3> SUFFICES ASSUME t \in Ahead(G, g) PROVE FALSE
      OBVIOUS
    <3>1. g \in 1..(n + 1)
      BY <1>6, <2>1
    <3>2. PICK h \in 1..(g - 1) : t \in G[h]
      BY DEF Ahead
    <3>3. h \in 1..(n + 1) /\ h # g
      BY <1>4, <3>1
    <3> QED
      BY <1>5, <1>6, <1>11, <3>2, <3>3
  <2>8. /\ Cardinality(Ahead(G, g)) <= Cardinality(Z[1])
        /\ Cardinality(Ahead(G, g)) # Cardinality(Z[1])
    BY <1>4, <2>1, <2>6, <2>7, FS_Subset
  <2>9. Cardinality(Ahead(G, g)) \in Nat /\ Cardinality(Z[1]) \in Nat
    BY <1>4, <2>6, FS_CardinalityType
  <2> QED
    BY <2>5, <2>8, <2>9
<1>12. ASSUME NEW x \in left
       PROVE  /\ final[x.team] = 1 + (Cardinality(Z[1]) + Cardinality(Behind(x)))
              /\ IsFiniteSet(Behind(x)) /\ Cardinality(Behind(x)) \in Nat /\ Cardinality(Z[1]) \in Nat
  <2>1. x \in rows /\ x.team \notin Z[1]
    BY <1>8
  <2>2. Row(x.team) \in left /\ Row(x.team).team = x.team
    OBVIOUS
  <2> HIDE DEF Row
  <2>3. Row(x.team) = x
    BY <1>8, <2>1, <2>2 DEF OfTeams
  <2> HIDE DEF Behind
  <2>4. x.team \in Z[1] \cup {y.team : y \in left}
    OBVIOUS
  <2>5. final[x.team] = 1 + (S!Cardinality(Z[1]) + S!Cardinality(Behind(Row(x.team))))
    BY <1>10, <2>1, <2>4
  <2>6. final[x.team] = 1 + (Cardinality(Z[1]) + Cardinality(Behind(x)))
    BY <2>3, <2>5, StandingsCardinality
  <2>7. IsFiniteSet(left)
    BY <1>8, FS_Subset DEF OfTeams
  <2>8. IsFiniteSet(Behind(x))
    BY <2>7, FS_Subset DEF Behind
  <2> QED
    BY <1>4, <2>6, <2>8, FS_CardinalityType
<1> HIDE DEF Group, Row, Behind
<1>13. DOMAIN final = InRound(B, 1) \cup {x.team : x \in rows}
  <2>1. DOMAIN final = Z[1] \cup {x.team : x \in left}
    BY <1>10
  <2>2. Z[1] \cup {x.team : x \in left} = Z[1] \cup {x.team : x \in rows}
    BY <1>8
  <2> QED
    BY <1>3, <2>1, <2>2
<1>14. \A t \in DOMAIN final \ InRound(B, 1) : \E x \in left : x.team = t
  BY <1>3, <1>8, <1>13
<1>15. ASSUME NEW t \in InRound(B, 1), NEW u \in DOMAIN final \ InRound(B, 1)
       PROVE  final[t] < final[u]
  <2>1. PICK g : InGroup(G, n, t, g)
    BY <1>3, <1>5
  <2>2. PICK x \in left : x.team = u
    BY <1>14
  <2>3. PICK a \in Nat : a = Cardinality(Ahead(G, g)) /\ a < Cardinality(Z[1]) /\ final[t] = 1 + a
    BY <1>11, <2>1
  <2>4. PICK b \in Nat : b = Cardinality(Behind(x))
    BY <1>12
  <2>5. PICK c \in Nat : c = Cardinality(Z[1]) /\ final[u] = 1 + (c + b)
    BY <1>12, <2>2, <2>4
  <2> QED
    BY <2>3, <2>5
<1>16. ASSUME NEW t, NEW g, NEW u, NEW h, InGroup(G, n, t, g), InGroup(G, n, u, h), g < h
       PROVE  final[t] < final[u]
  <2>1. PICK a \in Nat : a = Cardinality(Ahead(G, g)) /\ final[t] = 1 + a
    BY <1>11, <1>16
  <2>2. PICK b \in Nat : b = Cardinality(Ahead(G, h)) /\ final[u] = 1 + b
    BY <1>11, <1>16
  <2>3. a < b
    BY <1>5, <1>16, <2>1, <2>2
  <2> QED
    BY <2>1, <2>2, <2>3
<1>17. PICK champion : champion = S!Champion(B)
  OBVIOUS
<1>18. InGroup(G, n, champion, 1)
  <2>1. 1 \in 1..(n + 1) /\ n + 1 \in 1..(n + 1)
    BY <1>4
  <2>2. champion \in Z[n + 1]
    BY <1>1, <1>17, <2>1 DEF Reaching
  <2> QED
    BY <1>3, <2>1, <2>2 DEF GroupsOf, InGroup
<1>19. champion \in InRound(B, 1)
  BY <1>3, <1>5, <1>18
<1>20. ASSUME NEW t \in DOMAIN final \ {champion}
       PROVE  final[champion] < final[t]
  <2>1. CASE t \notin InRound(B, 1)
    BY <1>15, <1>19, <2>1
  <2>2. CASE t \in InRound(B, 1)
    <3>1. PICK g : InGroup(G, n, t, g)
      BY <1>3, <1>5, <2>2
    <3>2. g \in 1..(n + 1)
      BY <3>1 DEF InGroup
    <3>3. g # 1
      <4>1. G[1] = {champion}
        <5>1. 1 \in 1..(n + 1) /\ n + 1 \in 1..(n + 1)
          BY <1>4
        <5>2. Z[n + 1] = {champion}
          BY <1>1, <1>17, <5>1 DEF Reaching
        <5> QED
          BY <1>3, <5>1, <5>2 DEF GroupsOf
      <4> QED
        BY <3>1, <4>1 DEF InGroup
    <3>4. 1 < g
      BY <3>2, <3>3
    <3> QED
      BY <1>16, <1>18, <3>1, <3>4
  <2> QED
    BY <2>1, <2>2
<1>21. ASSUME NEW m \in B, NEW t \in TeamsOfMatch(m), t # m.winner
       PROVE  final[m.winner] < final[t]
  <2>1. PICK r \in 1..n : r = m.round
    BY <1>3
  <2>2. m.winner \in Z[r + 1] /\ m.winner \in Z[1] /\ t \notin Z[r + 1] /\ t \in Z[1]
    BY <1>3, <1>21, <2>1
  <2>3. PICK g : InGroup(G, n, m.winner, g)
    BY <1>5, <2>2
  <2>4. PICK h : InGroup(G, n, t, h)
    BY <1>5, <2>2
  <2>5. PICK s \in 1..(n + 1) : s = r + 1
    <3>1. r + 1 \in 1..(n + 1)
      BY <1>4
    <3> QED
      BY <3>1
  <2>6. g <= n + 2 - s /\ ~(h <= n + 2 - s)
    BY <1>5, <2>2, <2>3, <2>4, <2>5
  <2>7. g \in Nat /\ h \in Nat
    BY <2>3, <2>4 DEF InGroup
  <2>8. g < h
    BY <1>4, <2>6, <2>7
  <2> QED
    BY <1>16, <2>3, <2>4, <2>8
<1>22. ASSUME NEW x \in rows, NEW y \in rows, x.team \notin InRound(B, 1), y.team \notin InRound(B, 1), x.rank < y.rank
       PROVE  final[x.team] < final[y.team]
  <2>1. x \in left /\ y \in left
    BY <1>3, <1>8, <1>22
  <2>2. x \in Rows /\ y \in Rows /\ left \subseteq Rows
    BY <1>8 DEF OfTeams
  <2>3. ASSUME NEW z \in left, S!BehindOutside(x, z)
        PROVE  S!BehindOutside(y, z)
    <3>1. z.rank \in Nat /\ x.rank \in Nat /\ y.rank \in Nat
      BY <2>2 DEF Rows
    <3>2. z.rank <= x.rank
      BY <2>3, <3>1 DEF S!BehindOutside
    <3>3. z.rank < y.rank
      BY <1>22, <3>1, <3>2
    <3> QED
      BY <3>3 DEF S!BehindOutside
  <2>4. S!BehindOutside(y, x)
    BY <1>22 DEF S!BehindOutside
  <2>5. ~S!BehindOutside(x, x)
    <3>1. ~(x.rank < x.rank)
      BY <2>2 DEF Rows
    <3>2. ~S!AheadAcrossPools(x, x)
      <4>1. ~S!ByPlaceThenStrength(x, x)
        BY <2>2, StrengthCompare
      <4> QED
        BY <4>1 DEF S!ByPlaceThenStrength
    <3> QED
      BY <3>1, <3>2 DEF S!BehindOutside
  <2>6. Behind(x) \subseteq Behind(y) /\ x \in Behind(y) /\ x \notin Behind(x)
    BY <2>1, <2>3, <2>4, <2>5 DEF Behind
  <2>7. IsFiniteSet(Behind(x)) /\ IsFiniteSet(Behind(y))
    BY <1>12, <2>1
  <2>8. Cardinality(Behind(x)) <= Cardinality(Behind(y)) /\ Cardinality(Behind(x)) # Cardinality(Behind(y))
    BY <2>6, <2>7, FS_Subset
  <2>9. PICK a \in Nat, c \in Nat : a = Cardinality(Behind(x)) /\ c = Cardinality(Z[1]) /\ final[x.team] = 1 + (c + a)
    BY <1>12, <2>1
  <2>10. PICK b \in Nat : b = Cardinality(Behind(y)) /\ final[y.team] = 1 + (c + b)
    BY <1>12, <2>1, <2>9
  <2>11. a <= b /\ a # b
    BY <2>8, <2>9, <2>10
  <2>12. 1 + (c + a) < 1 + (c + b)
    BY ONLY a \in Nat, b \in Nat, c \in Nat, <2>11
  <2> QED
    BY ONLY <2>9, <2>10, <2>12
<1>23. PlacedBy(final, B, n, rows)
  BY <1>3, <1>13, <1>15, <1>17, <1>19, <1>20, <1>21, <1>22 DEF PlacedBy
<1> QED
  BY <1>9, <1>23

-----------------------------------------------------------------------------
(* The pools of the tournament. *)

\* A team of the line is in one of the pools.
LEMMA EveryoneIsDealt ==
  ASSUME NEW T, NEW line \in Seq(T), NEW size \in Nat, D!Partitionable(Len(line), size),
         NEW pools, pools = D!PartitionIntoPools(line, size)
  PROVE  /\ \E k \in Nat : pools = [p \in 1..k |-> pools[p]]
         /\ \A i \in DOMAIN line : \E p \in DOMAIN pools : line[i] \in D!MembersOf(pools[p])
<1>1. PICK n \in Nat : n = Len(line) /\ DOMAIN line = 1..n
  OBVIOUS
<1>2. PICK c \in Nat \ {0} : c = D!PoolCount(n, size)
  <2>1. D!Partitionable(n, size)
    BY <1>1
  <2> QED
    BY <2>1, PoolCountFits
<1>3. pools = [p \in 1..c |-> [k \in 1..PoolLen(n, c, p) |-> line[PlaceOf(p, k, c)]]]
  BY <1>1, <1>2, PoolsAreDealt
<1>4. ASSUME NEW i \in 1..n
      PROVE  \E p \in 1..c : line[i] \in D!MembersOf(pools[p])
  <2>1. i \in Nat \ {0}
    OBVIOUS
  <2>2. PICK p \in 1..c, k \in Nat \ {0} : i = PlaceOf(p, k, c)
    BY <1>2, <2>1, DealtIsPlace
  <2>3. PICK m : m = PoolLen(n, c, p)
    OBVIOUS
  <2>4. m \in Nat /\ k <= m
    <3>1. /\ PoolLen(n, c, p) \in Nat
          /\ \A l \in Nat \ {0} : PlaceOf(p, l, c) <= n <=> l <= PoolLen(n, c, p)
      BY <1>1, <1>2, PlacesOfPool
    <3>2. PlaceOf(p, k, c) <= n
      BY <2>2
    <3> QED
      BY <2>3, <3>1, <3>2
  <2>5. pools[p] = [l \in 1..m |-> line[PlaceOf(p, l, c)]]
    BY <1>3, <2>3
  <2>6. k \in 1..m
    BY <2>4
  <2>7. k \in DOMAIN pools[p] /\ pools[p][k] = line[i]
    BY <2>2, <2>5, <2>6
  <2> QED
    BY <2>7 DEF D!MembersOf
<1>5. pools = [p \in 1..c |-> pools[p]] /\ DOMAIN pools = 1..c
  BY <1>3
<1> QED
  BY <1>1, <1>2, <1>4, <1>5

\* The pools of the tournament divide its teams.
LEMMA PoolsHaveTeams == \E k : PoolsOfTeams(k)
<1>1. /\ Line \in Seq(Teams) /\ PoolSize \in Nat /\ D!Partitionable(Len(Line), PoolSize)
      /\ \A i, j \in DOMAIN Line : Line[i] = Line[j] => i = j
      /\ \A i \in DOMAIN Line : Line[i] # None
      /\ Pools = D!PartitionIntoPools(Line, PoolSize)
  BY LineAssumption, DrawAssumption DEF Teams
<1>2. ArePools(Pools)
  BY <1>1, DealtArePools
<1>3. PICK k \in Nat : Pools = [p \in 1..k |-> Pools[p]]
  BY <1>1, EveryoneIsDealt
<1>4. DOMAIN Pools = 1..k
  BY <1>3
<1>5. \A p \in 1..k : PoolTeams[p] = TeamsOf(Pools[p])
  BY <1>4 DEF PoolTeams
<1>6. \A pool : D!MembersOf(pool) = TeamsOf(pool)
  BY DEF D!MembersOf, TeamsOf
<1>7. ASSUME NEW p \in 1..k
      PROVE  IsFiniteSet(PoolTeams[p]) /\ Cardinality(PoolTeams[p]) = Len(Pools[p]) /\ Len(Pools[p]) \in Nat
  <2>1. IsPool(Pools[p])
    BY <1>2, <1>4 DEF ArePools
  <2>2. PICK ids, R : ids = Pools[p] /\ R = {ids[i] : i \in DOMAIN ids}
    OBVIOUS
  <2>3. ids \in Seq(R) /\ \A i, j \in DOMAIN ids : ids[i] = ids[j] => i = j
    BY <2>1, <2>2 DEF IsPool
  <2>4. PICK m \in Nat : m = Len(ids) /\ DOMAIN ids = 1..m
    BY <2>3
  <2>5. R = TeamsOf(ids)
    BY <2>2 DEF TeamsOf
  <2>6. ids \in Bijection(1..m, R)
    <3>1. ids \in [1..m -> R] /\ \A x \in R : \E i \in 1..m : ids[i] = x
      BY <2>2, <2>3, <2>4
    <3>2. \A i, j \in 1..m : ids[i] = ids[j] => i = j
      BY <2>3, <2>4
    <3> QED
      BY ONLY <3>1, <3>2 DEF Bijection, Injection, Surjection, IsInjective
  <2>7. IsFiniteSet(1..m) /\ Cardinality(1..m) = m
    <3>1. 1 \in Int /\ m \in Int /\ (IF 1 > m THEN 0 ELSE m - 1 + 1) = m
      BY ONLY m \in Nat
    <3> QED
      BY <3>1, FS_Interval
  <2>8. IsFiniteSet(R) /\ Cardinality(R) = m
    BY <2>6, <2>7, FS_Bijection DEF ExistsBijection
  <2> QED
    BY <1>5, <2>2, <2>4, <2>5, <2>8
<1>8. \A p, q \in 1..k : p # q => PoolTeams[p] \cap PoolTeams[q] = {}
  BY <1>2, <1>4, <1>5, <1>6 DEF ArePools
<1>9. \A p \in DOMAIN Pools : D!MembersOf(Pools[p]) \subseteq Teams
  BY <1>1, DealtAreOfTheLine
<1>10. \A i \in DOMAIN Line : \E p \in DOMAIN Pools : Line[i] \in D!MembersOf(Pools[p])
  BY <1>1, EveryoneIsDealt
<1>11. TeamsIn(PoolTeams, k) = Teams
  <2>1. \A p \in 1..k : PoolTeams[p] \subseteq Teams
    BY <1>4, <1>5, <1>6, <1>9
  <2>2. \A i \in DOMAIN Line : \E p \in 1..k : Line[i] \in PoolTeams[p]
    BY <1>4, <1>5, <1>6, <1>10
  <2>3. \A t \in Teams : \E p \in 1..k : t \in PoolTeams[p]
    BY <2>2 DEF Teams
  <2> QED
    BY <2>1, <2>3 DEF TeamsIn
<1>12. PoolsOfTeams(k)
  BY <1>4, <1>7, <1>8, <1>11 DEF PoolsOfTeams
<1> QED
  BY <1>12

\* The games of the pools are round robins of their teams.
LEMMA PoolGamesAreRoundRobins == RoundRobinGames
<1>1. /\ Line \in Seq(Teams) /\ PoolSize \in Nat /\ D!Partitionable(Len(Line), PoolSize)
      /\ \A i, j \in DOMAIN Line : Line[i] = Line[j] => i = j
      /\ \A i \in DOMAIN Line : Line[i] # None
      /\ Pools = D!PartitionIntoPools(Line, PoolSize)
  BY LineAssumption, DrawAssumption DEF Teams
<1>2. 1 \in Nat \ {0}
  OBVIOUS
<1>3. PICK M : M = D!PoolMatches(Line, PoolSize, 1)
  OBVIOUS
<1>4. D!RoundRobin(Pools, M)
  BY <1>1, <1>2, <1>3, PoolsPlayRoundRobins
<1>5. PoolGames = {<<x.a, x.b>> : x \in M}
  BY <1>3, DrawAssumption
<1>6. IsFiniteSet(PoolGames)
  <2>1. ArePools(Pools) /\ IsFiniteSet(DOMAIN Pools)
    BY <1>1, DealtArePools
  <2>2. PICK F : F = D!PoolFixtures(Pools, 1)
    OBVIOUS
  <2>3. IsFiniteSet(F)
    BY <2>1, <2>2, FixturesAreFinite
  <2> DEFINE f == [x \in F |-> <<x.a, x.b>>]
  <2>4. IsFiniteSet({f[x] : x \in F})
    BY <2>3, ImageIsFinite
  <2>5. \A x \in M : \E y \in F : x.a = y.a /\ x.b = y.b
    BY <1>1, <1>3, <2>2, MatchesAreFixtures
  <2>6. PoolGames \subseteq {f[x] : x \in F}
    BY <1>5, <2>5
  <2> HIDE DEF f
  <2> QED
    BY <2>4, <2>6, FS_Subset
<1>7. \A pool : D!MembersOf(pool) = TeamsOf(pool)
  BY DEF D!MembersOf, TeamsOf
<1>8. ASSUME NEW m \in PoolGames
      PROVE  m[1] # m[2] /\ \E p \in DOMAIN Pools : {m[1], m[2]} \subseteq TeamsOf(Pools[p])
  <2>1. PICK x \in M : m = <<x.a, x.b>>
    BY <1>5
  <2>2. x.pool \in DOMAIN Pools /\ {x.a, x.b} \subseteq D!MembersOf(Pools[x.pool]) /\ x.a # x.b
    BY <1>4 DEF D!RoundRobin
  <2>3. m[1] = x.a /\ m[2] = x.b
    BY <2>1
  <2> QED
    BY <1>7, <2>2, <2>3
<1>9. ASSUME NEW p \in DOMAIN Pools, NEW s \in TeamsOf(Pools[p]), NEW t \in TeamsOf(Pools[p]), s # t
      PROVE  /\ \E x \in M : {x.a, x.b} = {s, t}
             /\ \A x, y \in M : {x.a, x.b} = {s, t} /\ {y.a, y.b} = {s, t} => x = y
  <2>1. PICK E : E = {x \in M : {x.a, x.b} = {s, t}}
    OBVIOUS
  <2>2. D!Cardinality(E) = 1
    <3>1. s \in D!MembersOf(Pools[p]) /\ t \in D!MembersOf(Pools[p])
      BY <1>7
    <3>2. \A q \in DOMAIN Pools : \A u, v \in D!MembersOf(Pools[q]) : u # v =>
            D!Cardinality({x \in M : {x.a, x.b} = {u, v}}) = 1
      BY ONLY <1>4, Zenon DEF D!RoundRobin
    <3>3. D!Cardinality({x \in M : {x.a, x.b} = {s, t}}) = 1
      BY <1>9, <3>1, <3>2, Zenon
    <3> QED
      BY <2>1, <3>3
  <2>3. Cardinality(E) = 1
    BY <2>2, DrawCardinality
  <2>4. IsFiniteSet(E)
    <3>1. ArePools(Pools) /\ IsFiniteSet(DOMAIN Pools)
      BY <1>1, DealtArePools
    <3>2. PICK F : F = D!PoolFixtures(Pools, 1)
      OBVIOUS
    <3>3. IsFiniteSet(F)
      BY <3>1, <3>2, FixturesAreFinite
    <3> DEFINE f == [y \in F |-> [pool |-> y.pool, round |-> y.round, a |-> y.a, b |-> y.b,
                                  court |-> y.court, slot |-> D!CourtSlot(F, y)]]
    <3>4. IsFiniteSet({f[y] : y \in F})
      BY <3>3, ImageIsFinite
    <3>5. \A x : x \in M <=> \E y \in F : x = [pool |-> y.pool, round |-> y.round, a |-> y.a, b |-> y.b,
                                               court |-> y.court, slot |-> D!CourtSlot(F, y)]
      BY <1>1, <1>3, <3>2, MatchesAreFixtures
    <3>6. M \subseteq {f[y] : y \in F}
      BY <3>5
    <3> HIDE DEF f
    <3>7. E \subseteq {f[y] : y \in F}
      BY <2>1, <3>6
    <3> QED
      BY <3>4, <3>7, FS_Subset
  <2>5. PICK e : E = {e}
    BY <2>3, <2>4, FS_Singleton
  <2>6. \A x : x \in E <=> x \in M /\ {x.a, x.b} = {s, t}
    BY <2>1
  <2> QED
    BY <2>5, <2>6
<1>10. ASSUME NEW p \in DOMAIN Pools, NEW s \in TeamsOf(Pools[p]), NEW t \in TeamsOf(Pools[p]), s # t
       PROVE  \E m \in PoolGames : {m[1], m[2]} = {s, t}
  <2>1. PICK x \in M : {x.a, x.b} = {s, t}
    BY <1>9, <1>10
  <2>2. PICK m : m = <<x.a, x.b>>
    OBVIOUS
  <2>3. m \in PoolGames /\ m[1] = x.a /\ m[2] = x.b
    BY <1>5, <2>2
  <2> QED
    BY <2>1, <2>3
<1>11. ASSUME NEW m \in PoolGames, NEW o \in PoolGames, {m[1], m[2]} = {o[1], o[2]}
       PROVE  m = o
  <2>1. PICK x \in M : m = <<x.a, x.b>>
    BY <1>5
  <2>2. PICK y \in M : o = <<y.a, y.b>>
    BY <1>5
  <2>3. m[1] = x.a /\ m[2] = x.b /\ o[1] = y.a /\ o[2] = y.b
    BY <2>1, <2>2
  <2>4. PICK p \in DOMAIN Pools : m[1] \in TeamsOf(Pools[p]) /\ m[2] \in TeamsOf(Pools[p])
    BY <1>8
  <2>5. m[1] # m[2] /\ {x.a, x.b} = {m[1], m[2]} /\ {y.a, y.b} = {m[1], m[2]}
    BY <1>8, <1>11, <2>3
  <2>6. x = y
    BY <1>9, <2>4, <2>5
  <2> QED
    BY <2>1, <2>2, <2>6
<1> QED
  BY <1>6, <1>8, <1>10, <1>11 DEF RoundRobinGames

\* Pools whose games are all decided have played out.
LEMMA PoolsPlayOut ==
  ASSUME PoolsPlayed, NEW p \in DOMAIN Pools, NEW T, T = TeamsOf(Pools[p])
  PROVE  PlayedOut(T, ResultsOf(Pools[p]))
<1>1. RoundRobinGames
  BY PoolGamesAreRoundRobins
<1>2. PICK k : PoolsOfTeams(k)
  BY PoolsHaveTeams
<1>3. /\ IsFiniteSet(T)
      /\ \A q \in DOMAIN Pools : q # p => T \cap TeamsOf(Pools[q]) = {}
      /\ T \subseteq Teams
  <2>1. \A q \in DOMAIN Pools : PoolTeams[q] = TeamsOf(Pools[q])
    BY DEF PoolTeams
  <2> QED
    BY <1>2, <2>1 DEF PoolsOfTeams, TeamsIn
<1>4. PICK R : R = ResultsOf(Pools[p])
  OBVIOUS
<1>5. \A x : x \in R <=> \E m \in PoolGames : m[1] \in T /\ x = ResultFor(m)
  <2>1. \A m : m \in MatchesOf(Pools[p]) <=> m \in PoolGames /\ m[1] \in T
    BY DEF MatchesOf
  <2>2. \A m \in PoolGames : Complete(m)
    BY DEF PoolsPlayed, PoolPlayComplete
  <2> QED
    BY <1>4, <2>1, <2>2 DEF ResultsOf, ResultFor
<1>6. ASSUME NEW m \in PoolGames
      PROVE  /\ ResultFor(m).a = m[1] /\ ResultFor(m).b = m[2]
             /\ ResultFor(m).sets \in Seq(Nat \X Nat)
  <2>1. slot[m] = m
    BY DEF PoolsPlayed
  <2>2. ResultFor(m).a = m[1] /\ ResultFor(m).b = m[2]
    BY <2>1 DEF ResultFor
  <2>3. ResultFor(m).sets \in Seq(Nat \X Nat)
    <3>1. CASE status[m] = "final"
      <4>1. agreed[m] \in Scorelines
        BY <3>1 DEF PoolsPlayed, Matches
      <4>2. agreed[m].sets \in Seq(Nat \X Nat)
        BY <4>1, ScorelinesAssumption
      <4> QED
        BY <3>1, <4>2 DEF ResultFor
    <3>2. CASE status[m] # "final"
      <4>1. <<>> \in Seq(Nat \X Nat)
        OBVIOUS
      <4> QED
        BY <3>2, <4>1 DEF ResultFor
    <3> QED
      BY <3>1, <3>2
  <2> QED
    BY <2>2, <2>3
<1>7. ASSUME NEW x \in R
      PROVE  \E m \in PoolGames : /\ x = ResultFor(m) /\ x.a = m[1] /\ x.b = m[2]
                                  /\ x.a # x.b /\ x.a \in T /\ x.b \in T
                                  /\ x.sets \in Seq(Nat \X Nat)
  <2>1. PICK m \in PoolGames : m[1] \in T /\ x = ResultFor(m)
    BY <1>5
  <2>2. PICK q \in DOMAIN Pools : {m[1], m[2]} \subseteq TeamsOf(Pools[q])
    BY <1>1 DEF RoundRobinGames
  <2>3. q = p
    BY <1>3, <2>1, <2>2
  <2>4. m[1] # m[2]
    BY <1>1 DEF RoundRobinGames
  <2> QED
    BY <1>6, <2>1, <2>2, <2>3, <2>4
<1>8. Counted(R)
  <2> DEFINE f == [m \in PoolGames |-> ResultFor(m)]
  <2>1. IsFiniteSet(PoolGames)
    BY <1>1 DEF RoundRobinGames
  <2>2. IsFiniteSet({f[m] : m \in PoolGames})
    BY <2>1, ImageIsFinite
  <2>3. R \subseteq {f[m] : m \in PoolGames}
    BY <1>5
  <2> HIDE DEF f
  <2>4. IsFiniteSet(R)
    BY <2>2, <2>3, FS_Subset
  <2> QED
    BY <1>7, <2>4 DEF Counted
<1>9. ASSUME NEW s \in T, NEW t \in T, s # t
      PROVE  \E x \in R : {x.a, x.b} = {s, t}
  <2>1. PICK m \in PoolGames : {m[1], m[2]} = {s, t}
    <3>1. s \in TeamsOf(Pools[p]) /\ t \in TeamsOf(Pools[p])
      OBVIOUS
    <3>2. \A q \in DOMAIN Pools : \A u, v \in TeamsOf(Pools[q]) : u # v => \E m \in PoolGames : {m[1], m[2]} = {u, v}
      BY ONLY <1>1, Zenon DEF RoundRobinGames
    <3>3. s # t /\ p \in DOMAIN Pools
      BY <1>9
    <3> QED
      BY ONLY <3>1, <3>2, <3>3, SMT
  <2>2. m[1] \in T
    BY <1>9, <2>1
  <2> QED
    BY <1>5, <1>6, <2>1, <2>2
<1>10. ASSUME NEW x \in R, NEW y \in R, {x.a, x.b} = {y.a, y.b}
       PROVE  x = y
  <2>1. PICK m \in PoolGames : x = ResultFor(m) /\ x.a = m[1] /\ x.b = m[2]
    BY <1>7
  <2>2. PICK o \in PoolGames : y = ResultFor(o) /\ y.a = o[1] /\ y.b = o[2]
    BY <1>7
  <2>3. {m[1], m[2]} = {o[1], o[2]}
    BY <1>10, <2>1, <2>2
  <2>4. m = o
    BY <1>1, <2>3 DEF RoundRobinGames
  <2> QED
    BY <2>1, <2>2, <2>4
<1>11. T \subseteq Nat
  BY <1>3, StandingsAssumption
<1>12. PlayedOut(T, R)
  <2>1. \A x \in R : x.a # x.b /\ {x.a, x.b} \subseteq T
    BY <1>7
  <2> QED
    BY <1>3, <1>8, <1>9, <1>10, <1>11, <2>1 DEF PlayedOut
<1> QED
  BY <1>4, <1>12

\* The standings are those of the pools.
LEMMA StandingsArePools ==
  ASSUME PoolsPlayed, NEW k, PoolsOfTeams(k)
  PROVE  StandingsOfPools(Standings, PoolTeams, k)
<1> DEFINE results == [p \in 1..k |-> ResultsOf(Pools[p])]
           d == [p \in 1..k |-> S!ComputeStandings(PoolTeams[p], results[p])]
<1>1. k \in Nat /\ DOMAIN Pools = 1..k /\ \A p, q \in 1..k : p # q => PoolTeams[p] \cap PoolTeams[q] = {}
  BY DEF PoolsOfTeams
<1>2. PICK pools : pools = PoolResults
  OBVIOUS
<1>3. /\ pools = [p \in 1..k |-> pools[p]]
      /\ \A p \in 1..k : pools[p].teams = PoolTeams[p] /\ pools[p].results = results[p]
  BY <1>1, <1>2 DEF PoolResults, PoolTeams
<1>4. Standings = d
  <2>1. DOMAIN pools = 1..k /\ Len(pools) = k
    BY <1>1, <1>3
  <2>2. Standings = SubSeq([p \in 1..Len(pools) |-> S!ComputeStandings(pools[p].teams, pools[p].results)], 1, Len(pools))
    BY <1>2, Zenon DEF Standings, StandingsOf, D!Mapped, D!List
  <2>3. [p \in 1..k |-> S!ComputeStandings(pools[p].teams, pools[p].results)] = d
    BY <1>3
  <2>4. Standings = SubSeq(d, 1, k)
    BY <2>1, <2>2, <2>3
  <2>5. d = [p \in 1..k |-> d[p]]
    OBVIOUS
  <2> HIDE DEF d
  <2> QED
    BY <1>1, <2>4, <2>5, ListIs
<1>5. ASSUME NEW p \in 1..k
      PROVE  PlayedOut(PoolTeams[p], results[p])
  <2>1. PICK T : T = TeamsOf(Pools[p])
    OBVIOUS
  <2>2. PlayedOut(T, ResultsOf(Pools[p]))
    BY <1>1, <2>1, PoolsPlayOut
  <2> QED
    BY <1>1, <2>1, <2>2 DEF PoolTeams
<1> HIDE DEF results
<1> QED
  BY <1>1, <1>4, <1>5 DEF StandingsOfPools

\* The lesser of two numbers.
LEMMA LesserIs ==
  ASSUME NEW a \in Nat, NEW b \in Nat
  PROVE  S!Min({a, b}) = IF a < b THEN a ELSE b
<1> DEFINE v == IF a < b THEN a ELSE b
           S0 == {a, b}
<1>1. v \in S0 /\ \A y \in S0 : v <= y
  OBVIOUS
<1>2. \A x \in S0 : (\A y \in S0 : x <= y) => x = v
  OBVIOUS
<1>3. S!Min(S0) = CHOOSE x \in S0 : \A y \in S0 : x <= y
  BY Zenon DEF S!Min
<1> HIDE DEF v, S0
<1>4. S!Min(S0) = v
  BY <1>1, <1>2, <1>3
<1> QED
  BY <1>4 DEF v, S0

\* As many advance as the bracket is drawn for.
LEMMA AdvancingIsCounted ==
  ASSUME NEW k, PoolsOfTeams(k)
  PROVE  Advancing = TopOf(PoolTeams, k, Rule.perPool) + Rule.wildcards
<1>1. PICK perPool \in Nat, w \in Nat : perPool = Rule.perPool /\ w = Rule.wildcards
  BY StandingsAssumption
<1>2. k \in Nat /\ DOMAIN Pools = 1..k /\ \A p \in 1..k : Cardinality(PoolTeams[p]) = Len(Pools[p]) /\ Len(Pools[p]) \in Nat
  BY DEF PoolsOfTeams
<1>3. PICK h : h = [p \in 1..k |-> IF Cardinality(PoolTeams[p]) < perPool THEN Cardinality(PoolTeams[p]) ELSE perPool]
  OBVIOUS
<1>4. [p \in DOMAIN Pools |-> S!Min({Len(Pools[p]), Rule.perPool})] = h
  <2>1. ASSUME NEW p \in 1..k PROVE S!Min({Len(Pools[p]), Rule.perPool}) = h[p]
    <3>1. PICK a \in Nat : a = Len(Pools[p]) /\ a = Cardinality(PoolTeams[p])
      BY <1>2
    <3>2. S!Min({a, perPool}) = IF a < perPool THEN a ELSE perPool
      BY <1>1, LesserIs
    <3> QED
      BY <1>1, <1>3, <3>1, <3>2
  <2> QED
    BY <1>2, <1>3, <2>1
<1>5. Advancing = w + S!SumFunction(h)
  BY <1>1, <1>4 DEF Advancing
<1>6. TopOf(PoolTeams, k, Rule.perPool) = S!SumFunction(h)
  BY <1>1, <1>3 DEF TopOf
<1>7. S!SumFunction(h) \in Nat
  <2>1. S!SumFunction(h) = S!SumFunctionOnSet(h, DOMAIN h)
    BY Zenon DEF S!SumFunction
  <2>2. DOMAIN h = 1..k /\ \A p \in 1..k : h[p] \in Nat
    BY <1>1, <1>2, <1>3
  <2>3. IsFiniteSet(1..k)
    <3>1. 1 \in Int /\ k \in Int
      BY <1>2
    <3> QED
      BY <3>1, FS_Interval
  <2> QED
    BY <2>1, <2>2, <2>3, SumsAreNatural
<1>8. PICK sum \in Nat : sum = S!SumFunction(h)
  BY <1>7
<1>9. w + sum = sum + w
  BY <1>1, <1>8
<1> QED
  BY <1>1, <1>5, <1>6, <1>8, <1>9

\* The bracket is drawn from different teams of the public tables, and takes
\* what they show.
LEMMA BracketTakesTheCut ==
  ASSUME PoolsPlayed, luck \in Lucks, NEW k, PoolsOfTeams(k),
         NEW public, public = PublicStandings, NEW seeds, seeds = BracketSeeds
  PROVE  /\ Tables(public, PoolTeams, k)
         /\ seeds \in [1..Advancing -> Teams]
         /\ \A i, j \in 1..Advancing : seeds[i] = seeds[j] => i = j
         /\ S!CutIsShown(seeds, public, Rule)
<1>1. PICK pools : pools = Standings
  OBVIOUS
<1>2. StandingsOfPools(pools, PoolTeams, k)
  BY <1>1, StandingsArePools
<1>3. k \in Nat /\ DOMAIN Pools = 1..k /\ TeamsIn(PoolTeams, k) = Teams
  BY DEF PoolsOfTeams
<1>4. \A p \in 1..k : Cardinality(PoolTeams[p]) = Len(Pools[p]) /\ Cardinality(PoolTeams[p]) \in Nat
  BY DEF PoolsOfTeams
<1>5. Rule.perPool \in Nat \ {0} /\ Rule.wildcards \in Nat
  BY StandingsAssumption
<1>6. PICK sizes : sizes = [p \in 1..k |-> Cardinality(PoolTeams[p])]
  OBVIOUS
<1>7. S!AdvancementFits(sizes, Rule, Advancing)
  <2>1. sizes = [p \in DOMAIN Pools |-> Len(Pools[p])]
    BY <1>3, <1>4, <1>6
  <2>2. S!AdvancementFits([p \in DOMAIN Pools |-> Len(Pools[p])], Rule, Advancing)
    BY StandingsAssumption
  <2> QED
    BY <2>1, <2>2
<1>8. IsLot(luck.pool, Teams) /\ IsLot(luck.wild, Teams)
  <2>1. luck.pool \in UNION {{draws.pool, draws.wild} : draws \in Lucks}
    OBVIOUS
  <2>2. luck.wild \in UNION {{draws.pool, draws.wild} : draws \in Lucks}
    OBVIOUS
  <2> QED
    BY <2>1, <2>2, StandingsAssumption DEF IsLot
<1>9. IsLot(luck.pool, TeamsIn(PoolTeams, k)) /\ IsLot(luck.wild, TeamsIn(PoolTeams, k))
  BY <1>3, <1>8
<1>10. seeds = S!RankForBracket(pools, Rule, luck)
  BY <1>1 DEF BracketSeeds
<1>11. PoolPlayComplete = TRUE
  BY DEF PoolsPlayed, PoolPlayComplete
<1>12. public = S!PublicStandings(pools, Rule, luck, TRUE)
  BY <1>1, <1>11 DEF PublicStandings
<1>13. S!CutIsShown(seeds, public, Rule)
  <2>1. S!AdvancementFits([p \in 1..k |-> Cardinality(PoolTeams[p])], Rule, Advancing)
    BY <1>6, <1>7
  <2>2. S!CutIsShown(S!RankForBracket(pools, Rule, luck), S!PublicStandings(pools, Rule, luck, TRUE), Rule)
    BY <1>2, <1>3, <1>5, <1>9, <2>1, CutLineHolds
  <2> QED
    BY <1>10, <1>12, <2>2
<1>14. PICK perPool, w : perPool = Rule.perPool /\ w = Rule.wildcards
  OBVIOUS
<1>15. PICK res : res = S!ResolveCutLineTies(pools, Rule, luck)
  OBVIOUS
<1>16. Resolved(res, PoolTeams, k, perPool, w)
  <2>1. Tables(pools, PoolTeams, k)
    BY <1>2, <1>3, StandingsAreTables
  <2>2. w <= LeftAfter(PoolTeams, k, perPool)
    <3>1. Rule.perPool \in Nat
      BY <1>5
    <3>2. Rule.wildcards <= LeftAfter(PoolTeams, k, Rule.perPool)
      BY <1>3, <1>4, <1>6, <1>7, <3>1, WildcardsFit
    <3> QED
      BY <1>14, <3>2
  <2> QED
    BY <1>3, <1>5, <1>9, <1>14, <1>15, <2>1, <2>2, CutLinesAreResolved
<1>17. public = res.pools
  BY <1>12, <1>15 DEF S!PublicStandings
<1>18. PICK n, taken : n = TopOf(PoolTeams, k, perPool) + w /\ taken = Taken(res, w)
  OBVIOUS
<1>19. SeededFrom(seeds, public, PoolTeams, k, perPool, taken, n)
  BY <1>3, <1>5, <1>10, <1>14, <1>15, <1>16, <1>17, <1>18, SeedsAreDrawn
<1>20. n = Advancing
  BY <1>14, <1>18, AdvancingIsCounted
<1>21. Tables(public, PoolTeams, k)
  BY <1>16, <1>17 DEF Resolved
<1> QED
  BY <1>3, <1>13, <1>19, <1>20, <1>21 DEF SeededFrom

-----------------------------------------------------------------------------
(* The rounds of the tournament's bracket. *)

\* The seeds stand in the first round, each once, and a bye has one seed.
LEMMA SeedsOfFirstRound ==
  ASSUME NEW t, t = D!RoundsFor(Advancing), NEW places, places = 1..D!Pow2[t - 1]
  PROVE  StandOnce(places) /\ \A i \in places : D!IsBye(Advancing, 1, i) => SeedAt(i, 2) = None
<1>1. PICK n \in Nat : n = Advancing /\ n >= 2
  BY LineAssumption
<1>2. None \notin Nat
  BY NoneAssumption
<1>3. t \in Nat \ {0} /\ D!Pow2[t] >= n
  BY <1>1, RoundsHold
<1>4. PICK k \in Nat : k = t - 1 /\ t = k + 1
  BY <1>3
<1>5. PICK h \in Nat : h = D!Pow2[k] /\ D!Pow2[t] = 2 * h
  BY <1>4, PowersDouble
<1> DEFINE p(i) == D!SeedPlacement[k][i]
<1>6. /\ places = 1..h
      /\ \A i \in places : p(i) \in 1..h
      /\ \A i, j \in places : p(i) = p(j) => i = j
      /\ \A x \in 1..h : \E i \in places : p(i) = x
  <2>1. places = 1..h
    BY <1>4, <1>5
  <2> QED
    BY <1>4, <1>5, <2>1, PlacementsPermute
<1>7. ASSUME NEW i \in places
      PROVE  /\ p(i) \in 1..n
             /\ D!IsBye(n, 1, i) <=> 2 * h + 1 - p(i) > n
             /\ SeedAt(i, 1) = p(i)
             /\ SeedAt(i, 2) = IF 2 * h + 1 - p(i) > n THEN None ELSE 2 * h + 1 - p(i)
  <2>1. PICK s, o : s = D!SeedPlacement[t - 1][i] /\ o = D!Pow2[t] + 1 - s
    OBVIOUS
  <2>2. i \in 1..D!Pow2[t - 1] /\ t = D!RoundsFor(n)
    BY <1>1
  <2>3. /\ s \in 1..n
        /\ D!IsBye(n, 1, i) <=> o > n
        /\ D!DrawnSeeds(n, 1, i) = IF o > n THEN <<s, None>> ELSE <<s, o>>
    BY <1>1, <1>2, <2>1, <2>2, FirstRound
  <2>4. s = p(i) /\ o = 2 * h + 1 - p(i)
    BY <1>4, <1>5, <2>1
  <2>5. SeedAt(i, 1) = s /\ SeedAt(i, 2) = IF o > n THEN None ELSE o
    BY <1>1, <2>3 DEF SeedAt
  <2> HIDE DEF p
  <2> QED
    BY <2>3, <2>4, <2>5
<1> HIDE DEF p
<1>8. ASSUME NEW i \in places
      PROVE  SeedAt(i, 2) \in (1..n) \cup {None} /\ (SeedAt(i, 2) # None => SeedAt(i, 2) = 2 * h + 1 - p(i))
  <2>1. PICK o \in Nat : o = 2 * h + 1 - p(i) /\ o >= 1
    BY <1>5, <1>6
  <2>2. SeedAt(i, 2) = IF o > n THEN None ELSE o
    BY <1>7, <2>1
  <2>3. ~(o > n) => o \in 1..n
    BY <1>1, <2>1
  <2> QED
    BY <2>1, <2>2, <2>3
<1>9. ASSUME NEW i \in places, NEW j \in places, NEW a \in Sides, NEW b \in Sides,
             SeedAt(i, a) = SeedAt(j, b), SeedAt(i, a) # None
      PROVE  i = j /\ a = b
  <2>1. PICK x \in 1..h, y \in 1..h : x = p(i) /\ y = p(j)
    BY <1>6
  <2>2. SeedAt(i, a) = IF a = 1 THEN x ELSE 2 * h + 1 - x
    BY <1>7, <1>8, <1>9, <2>1 DEF Sides
  <2>3. SeedAt(j, b) = IF b = 1 THEN y ELSE 2 * h + 1 - y
    BY <1>7, <1>8, <1>9, <2>1 DEF Sides
  <2>4. (IF a = 1 THEN x ELSE 2 * h + 1 - x) = (IF b = 1 THEN y ELSE 2 * h + 1 - y)
    BY <1>9, <2>2, <2>3
  <2>5. x = y /\ (a = 1 <=> b = 1)
    BY ONLY <2>1, <2>4, h \in Nat, a \in Sides, b \in Sides
  <2> QED
    BY <1>6, <2>1, <2>5 DEF Sides
<1>10. ASSUME NEW x \in 1..n
       PROVE  \E i \in places, a \in Sides : SeedAt(i, a) = x
  <2>1. CASE x <= h
    <3>1. PICK i \in places : p(i) = x
      BY <1>6, <2>1
    <3> QED
      BY <1>7, <3>1 DEF Sides
  <2>2. CASE ~(x <= h)
    <3>1. PICK y : y = 2 * h + 1 - x
      OBVIOUS
    <3>2. y \in 1..h /\ 2 * h + 1 - y = x
      <4>1. n <= 2 * h
        BY <1>3, <1>5
      <4>2. x \in Nat /\ x <= n /\ x > h
        BY <1>1, <1>5, <2>2
      <4> QED
        BY ONLY <3>1, <4>1, <4>2, n \in Nat, h \in Nat
    <3>3. PICK i \in places : p(i) = y
      BY <1>6, <3>2
    <3>4. ~(x > n)
      BY <1>1
    <3>5. SeedAt(i, 2) = x
      BY <1>7, <3>2, <3>3, <3>4
    <3> QED
      BY <3>5 DEF Sides
  <2> QED
    BY <2>1, <2>2
<1>11. \A i \in places : SeedAt(i, 1) \in 1..n
  BY <1>7
<1>12. \A i \in places : D!IsBye(n, 1, i) => SeedAt(i, 2) = None
  BY <1>7
<1>13. \A i \in places : SeedAt(i, 2) \in (1..n) \cup {None}
  BY <1>8
<1>14. \A i, j \in places, a, b \in Sides : SeedAt(i, a) = SeedAt(j, b) /\ SeedAt(i, a) # None => i = j /\ a = b
  BY <1>9
<1>15. \A x \in 1..n : \E i \in places, a \in Sides : SeedAt(i, a) = x
  BY <1>10
<1>16. n = Advancing
  BY <1>1
<1> QED
  BY ONLY <1>11, <1>12, <1>13, <1>14, <1>15, <1>16 DEF StandOnce

\* Where a match stands, and what feeds it.
LEMMA MatchAt ==
  ASSUME NEW t, t = D!RoundsFor(Advancing), NEW r \in 1..t, NEW i \in 1..D!Pow2[t - r], NEW m, m = PlaceAt(t, r, i)
  PROVE  /\ m \in BracketMatches
         /\ Bracket[m[2]].round = r
         /\ NextOf(m) = None <=> r = t
         /\ r # t => NextOf(m) = [match |-> PlaceAt(t, r + 1, (i + 1) \div 2), side |-> 2 - (i % 2)]
         /\ r # 1 => ~IsBye(m)
         /\ r = 1 => \A side \in Sides : SeedOf(m, side) = SeedAt(i, side) /\ ~\E f \in BracketMatches : Feeds(f, m, side)
<1>1. Advancing \in Nat /\ Advancing >= 2 /\ Bracket = D!DrawBracket(Advancing, 1)
  BY LineAssumption, DrawAssumption
<1>2. t \in Nat \ {0}
  BY <1>1, RoundsHold
<1>3. PICK pos : pos = D!Position(t, r, i)
  OBVIOUS
<1>4. m[2] = pos /\ m = <<0, pos>>
  BY <1>3 DEF PlaceAt
<1>5. pos \in DOMAIN Bracket /\ Bracket[pos] = DrawnMatch(Advancing, t, 1, r, i)
  BY <1>1, <1>3, BracketMatch
<1>6. m \in BracketMatches
  BY <1>4, <1>5 DEF BracketMatches
<1>7. /\ Bracket[pos].round = r
      /\ Bracket[pos].bye = D!IsBye(Advancing, r, i)
      /\ Bracket[pos].seeds = D!DrawnSeeds(Advancing, r, i)
      /\ Bracket[pos].next = IF r = t THEN None ELSE D!Position(t, r + 1, (i + 1) \div 2)
      /\ Bracket[pos].slot = IF r = t THEN None ELSE 2 - (i % 2)
  BY <1>5 DEF DrawnMatch
<1>8. m \notin PoolGames
  BY <1>6, PoolGamesAreOfTeams
<1>9. r = t => NextOf(m) = None
  BY <1>4, <1>7 DEF NextOf
<1>10. ASSUME r # t
       PROVE  NextOf(m) = [match |-> PlaceAt(t, r + 1, (i + 1) \div 2), side |-> 2 - (i % 2)] /\ NextOf(m) # None
  <2>1. PICK s, j, side : s = r + 1 /\ j = (i + 1) \div 2 /\ side = 2 - (i % 2)
    OBVIOUS
  <2>2. s \in 1..t /\ j \in 1..D!Pow2[t - s] /\ side \in {1, 2}
    BY <1>2, <1>10, <2>1, NextPlace
  <2>3. PICK next : next = PlaceAt(t, s, j)
    OBVIOUS
  <2>4. next \in BracketMatches
    BY <2>2, <2>3, MatchInBracket DEF PlaceAt
  <2>5. D!Position(t, s, j) # None
    <3>1. D!Position(t, s, j) \in 1..(D!Pow2[t] - 1)
      BY <1>2, <2>2, PositionBounds
    <3>2. D!Position(t, s, j) \in Nat
      BY <3>1
    <3> QED
      BY <3>2, NoneAssumption
  <2>6. NextOf(m) = [match |-> next, side |-> side]
    BY <1>4, <1>7, <1>8, <1>10, <2>1, <2>3, <2>5 DEF NextOf, PlaceAt
  <2>7. [match |-> next, side |-> side] \in [match : BracketMatches, side : Sides]
    BY <2>2, <2>4 DEF Sides
  <2> QED
    BY <2>1, <2>3, <2>6, <2>7, NoneAssumption
<1>11. IsBye(m) = D!IsBye(Advancing, r, i)
  BY <1>4, <1>7 DEF IsBye
<1>12. r # 1 => ~IsBye(m)
  BY <1>11 DEF D!IsBye
<1>13. ASSUME r = 1, NEW side \in Sides
       PROVE  SeedOf(m, side) = SeedAt(i, side) /\ ~\E f \in BracketMatches : Feeds(f, m, side)
  <2>1. SeedOf(m, side) = SeedAt(i, side)
    BY <1>4, <1>7, <1>13 DEF SeedOf, SeedAt
  <2>2. ASSUME NEW f \in BracketMatches, Feeds(f, m, side)
        PROVE  FALSE
    <3>1. NextOf(f) # None /\ NextOf(f).match = m
      BY <2>2 DEF Feeds
    <3>2. PICK s \in 1..t : \E j \in 1..D!Pow2[t - s] : f = <<0, D!Position(t, s, j)>>
      BY <1>1, BracketPlaces
    <3>3. PICK j \in 1..D!Pow2[t - s] : f = <<0, D!Position(t, s, j)>>
      BY <3>2
    <3>4. s # t /\ NextOf(f) = [match |-> <<0, D!Position(t, s + 1, (j + 1) \div 2)>>, side |-> 2 - (j % 2)]
      BY <3>1, <3>3, MatchInBracket
    <3>5. PICK q, l : q = s + 1 /\ l = (j + 1) \div 2
      OBVIOUS
    <3>6. q \in 1..t /\ l \in 1..D!Pow2[t - q]
      BY <1>2, <3>4, <3>5, NextPlace
    <3>7. m = <<0, D!Position(t, q, l)>>
      BY <3>1, <3>4, <3>5
    <3>8. D!Position(t, q, l) = D!Position(t, r, i)
      BY <1>3, <1>4, <3>7
    <3>9. q = r
      BY <1>2, <3>6, <3>8, PositionsDiffer
    <3> QED
      BY <1>13, <3>5, <3>9
  <2> QED
    BY <2>1, <2>2
<1> QED
  BY <1>4, <1>6, <1>7, <1>9, <1>10, <1>12, <1>13

-----------------------------------------------------------------------------
(* The service. *)

\* The winner of a match takes its side of the next match, and no other slot
\* changes.
LEMMA AdvanceSlots ==
  ASSUME Shape, NEW m \in Matches, NEW w
  PROVE  /\ IsFunction(Advance(m, w))
         /\ \A x \in Matches : Advance(m, w)[x] = <<Advance(m, w)[x][1], Advance(m, w)[x][2]>>
         /\ \A x \in Matches, side \in Sides :
              Advance(m, w)[x][side] =
                IF NextOf(m) # None /\ NextOf(m).match = x /\ NextOf(m).side = side THEN w ELSE slot[x][side]
         /\ \A x \in Matches : (NextOf(m) = None \/ NextOf(m).match # x) => Advance(m, w)[x] = slot[x]
<1>1. CASE NextOf(m) = None
  BY <1>1 DEF Advance, Shape
<1>2. CASE NextOf(m) # None
  <2>1. m \in BracketMatches
    BY <1>2 DEF NextOf, Matches
  <2>2. PICK x \in Matches, side \in Sides : NextOf(m).match = x /\ NextOf(m).side = side
    BY <1>2, <2>1, BracketLinks DEF Matches, LinksFormABracket
  <2>3. Advance(m, w) = [slot EXCEPT ![x] = [slot[x] EXCEPT ![side] = w]]
    BY <1>2, <2>2 DEF Advance
  <2>4. [slot[x] EXCEPT ![side] = w] = IF side = 1 THEN <<w, slot[x][2]>> ELSE <<slot[x][1], w>>
    <3>1. \A a, b : /\ [<<a, b>> EXCEPT ![1] = w] = <<w, b>>
                   /\ [<<a, b>> EXCEPT ![2] = w] = <<a, w>>
      OBVIOUS
    <3>2. slot[x] = <<slot[x][1], slot[x][2]>>
      BY DEF Shape
    <3>3. [slot[x] EXCEPT ![side] = w] = [<<slot[x][1], slot[x][2]>> EXCEPT ![side] = w]
      BY ONLY <3>2, Zenon
    <3> QED
      BY <3>1, <3>3 DEF Sides
  <2>5. Advance(m, w) = [y \in Matches |-> IF y = x THEN (IF side = 1 THEN <<w, slot[x][2]>> ELSE <<slot[x][1], w>>)
                                                     ELSE slot[y]]
    BY <2>3, <2>4 DEF Shape, IsFunction
  <2> QED
    BY <1>2, <2>2, <2>5 DEF Shape, IsFunction, Sides
<1> QED
  BY <1>1, <1>2

\* Every step but the draw is one of an open match, or leaves the matches be.
LEMMA StepKinds ==
  ASSUME Shape, [Next]_vars
  PROVE  \/ \E m \in Matches : \E to \in {"awaiting_scores", "disputed"} : Talk(m, to)
         \/ \E m \in Matches : \E to \in {"final", "forfeited"} : \E w : Decide(m, to, w)
         \/ RunDraw
         \/ UNCHANGED <<luck, result, agreed>>
<1> USE ScorelinesAssumption DEF Shape
<1>1. ASSUME NEW m \in Matches, NEW side \in Sides, NEW line \in Scorelines, SubmitFirst(m, side, line)
      PROVE  Talk(m, "awaiting_scores")
  BY <1>1 DEF SubmitFirst, CanSubmit, Talk
<1>2. ASSUME NEW m \in Matches, NEW side \in Sides, NEW line \in Scorelines, SubmitMatching(m, side, line)
      PROVE  Decide(m, "final", slot[m][line.won])
  <2>1. slot[m][line.won] # None
    BY <1>2 DEF SubmitMatching, CanSubmit, Populated, Sides
  <2> QED
    BY <1>2, <2>1 DEF SubmitMatching, CanSubmit, EnterAgreed, Decide
<1>3. ASSUME NEW m \in Matches, NEW side \in Sides, NEW line \in Scorelines, SubmitConflicting(m, side, line)
      PROVE  Talk(m, "disputed")
  BY <1>3 DEF SubmitConflicting, CanSubmit, Talk
<1>4. ASSUME NEW m \in Matches, NEW line \in Scorelines, ResolveDispute(m, line)
      PROVE  Decide(m, "final", slot[m][line.won])
  <2>1. slot[m][line.won] # None
    BY <1>4 DEF ResolveDispute, Populated, Sides
  <2> QED
    BY <1>4, <2>1 DEF ResolveDispute, IsDisputed, EnterAgreed, Decide
<1>5. ASSUME NEW m \in Matches, NEW side \in Sides, Forfeit(m, side)
      PROVE  Decide(m, "forfeited", slot[m][3 - side])
  <2>1. slot[m][3 - side] # None
    BY <1>5 DEF Forfeit, Populated, Sides
  <2> QED
    BY <1>5, <2>1 DEF Forfeit, Decide, scores
<1>6. CASE AwaitSettlement
  BY <1>6 DEF AwaitSettlement, result, scores
<1>7. CASE UNCHANGED vars
  BY <1>7 DEF vars, result, scores
<1> QED
  BY <1>1, <1>2, <1>3, <1>4, <1>5, <1>6, <1>7 DEF Next

\* An open match is not complete, and a match that feeds it is.
LEMMA OpenStep ==
  ASSUME Shape, PlayedByTwo, Linked, DrawnFromPools,
         NEW m \in Matches, status[m] \in {"scheduled", "awaiting_scores", "disputed"}, Populated(m)
  PROVE  /\ ~Complete(m)
         /\ \A x \in Matches : Complete(x) => x # m /\ (NextOf(m) # None => NextOf(m).match # x)
<1>1. ~Complete(m) /\ winner[m] = None
  BY DEF Linked, Complete
<1>2. ASSUME NEW x \in Matches, Complete(x), NextOf(m) # None, NextOf(m).match = x PROVE FALSE
  <2>1. m \in BracketMatches
    BY <1>2 DEF NextOf, Matches
  <2>2. x \in BracketMatches /\ ~IsBye(x) /\ NextOf(m).side \in Sides
    BY <1>2, <2>1, BracketLinks DEF LinksFormABracket
  <2>3. Started(x)
    BY <1>2, <2>2 DEF DrawnFromPools, Complete, Started
  <2>4. slot[x][NextOf(m).side] = None
    BY <1>1, <1>2, <2>1 DEF Linked
  <2> QED
    BY <2>2, <2>3, <2>4 DEF PlayedByTwo, Populated, Sides
<1> QED
  BY <1>1, <1>2

\* A step leaves a decided match as it is; the draw seats a bye as before.
LEMMA DecidedKept ==
  ASSUME IInv, [Next]_vars, NEW x \in Matches, Complete(x)
  PROVE  status'[x] = status[x] /\ winner'[x] = winner[x] /\ slot'[x] = slot[x] /\ agreed'[x] = agreed[x]
<1> USE DEF IInv
<1>1. ASSUME NEW m \in Matches, NEW to, Talk(m, to)
      PROVE  status'[x] = status[x] /\ winner'[x] = winner[x] /\ slot'[x] = slot[x] /\ agreed'[x] = agreed[x]
  BY <1>1, OpenStep DEF Talk, Shape
<1>2. ASSUME NEW m \in Matches, NEW to, NEW w, Decide(m, to, w)
      PROVE  status'[x] = status[x] /\ winner'[x] = winner[x] /\ slot'[x] = slot[x] /\ agreed'[x] = agreed[x]
  <2>1. x # m /\ (NextOf(m) # None => NextOf(m).match # x)
    BY <1>2, OpenStep DEF Decide
  <2>2. slot'[x] = slot[x]
    BY <1>2, <2>1, AdvanceSlots DEF Decide
  <2> QED
    BY <1>2, <2>1, <2>2 DEF Decide, Shape, IsFunction
<1>3. CASE RunDraw
  <2>1. CASE x \in PoolGames
    BY <1>3, <2>1 DEF RunDraw, scores
  <2>2. CASE x \notin PoolGames
    <3>1. x \in BracketMatches
      BY <2>2 DEF Matches
    <3>2. status[x] = "bye"
      BY <1>3, <3>1 DEF RunDraw, BracketInPlay, Started, Complete
    <3>3. IsBye(x) /\ winner[x] = SeededTeam(BracketSeeds, SeedOf(x, 1))
      BY <3>1, <3>2 DEF DrawnFromPools
    <3>4. status'[x] = "bye" /\ winner'[x] = winner[x]
      BY <1>3, <2>2, <3>3 DEF RunDraw
    <3>5. slot'[x] = slot[x]
      <4>1. \A side \in Sides : ~(\E f \in BracketMatches : Feeds(f, x, side))
        BY <3>3, BracketLinks DEF Feeds, LinksFormABracket
      <4>2. \A side \in Sides : slot[x][side] = SeededTeam(BracketSeeds, SeedOf(x, side))
        BY <3>1, <3>2, <4>1 DEF Seeded
      <4>3. slot'[x] = <<SeededTeam(BracketSeeds, SeedOf(x, 1)), SeededTeam(BracketSeeds, SeedOf(x, 2))>>
        BY <1>3, <2>2 DEF RunDraw
      <4>4. slot[x] = <<slot[x][1], slot[x][2]>>
        BY DEF Shape
      <4> QED
        BY <4>2, <4>3, <4>4 DEF Sides
    <3> QED
      BY <1>3, <3>2, <3>4, <3>5 DEF RunDraw, scores
  <2> QED
    BY <2>1, <2>2
<1>4. CASE UNCHANGED <<luck, result, agreed>>
  BY <1>4 DEF result
<1> QED
  BY <1>1, <1>2, <1>3, <1>4, StepKinds

\* Once the pools are played out their results and the lots, and with them the
\* seeds, no longer change.
LEMMA SeedsKept ==
  ASSUME IInv, [Next]_vars, PoolPlayComplete
  PROVE  PoolPlayComplete' /\ BracketSeeds' = BracketSeeds
<1>1. \A m \in PoolGames : /\ Complete(m)
                             /\ status'[m] = status[m] /\ winner'[m] = winner[m]
                             /\ slot'[m] = slot[m] /\ agreed'[m] = agreed[m]
  BY DecidedKept DEF PoolPlayComplete, Matches
<1>2. PoolPlayComplete'
  BY <1>1 DEF PoolPlayComplete, Complete
<1>3. luck' = luck
  BY StepKinds DEF IInv, Talk, Decide, RunDraw
<1>4. ASSUME NEW pool PROVE ResultsOf(pool)' = ResultsOf(pool)
  <2>1. MatchesOf(pool) \subseteq PoolGames
    BY DEF MatchesOf
  <2> QED
    BY <1>1, <2>1 DEF ResultsOf, Complete
<1>5. PoolResults' = PoolResults
  BY <1>4, Zenon DEF PoolResults
<1>6. Standings' = Standings
  BY <1>5 DEF Standings
<1> QED
  BY <1>2, <1>3, <1>6 DEF BracketSeeds

\* What one open match does, kept apart from the draw.
LEMMA OpenStepShape ==
  ASSUME Shape, NEW m \in Matches, NEW to,
         Talk(m, to) \/ (\E w : Decide(m, to, w))
  PROVE  /\ status' \in [Matches -> Statuses]
         /\ IsFunction(winner)'
         /\ IsFunction(slot)'
         /\ \A x \in Matches : slot'[x] = <<slot'[x][1], slot'[x][2]>>
<1>1. CASE Talk(m, to)
  BY <1>1 DEF Talk, Shape, Statuses, IsFunction
<1>2. ASSUME NEW w, Decide(m, to, w)
      PROVE  /\ status' \in [Matches -> Statuses]
             /\ IsFunction(winner)'
             /\ IsFunction(slot)'
             /\ \A x \in Matches : slot'[x] = <<slot'[x][1], slot'[x][2]>>
  <2>1. status' \in [Matches -> Statuses] /\ IsFunction(winner)'
    BY <1>2 DEF Decide, Shape, Statuses, IsFunction
  <2>2. slot' = Advance(m, w)
    BY <1>2 DEF Decide
  <2> QED
    BY <2>1, <2>2, AdvanceSlots DEF IsFunction
<1> QED
  BY <1>1, <1>2

\* Every step keeps the shape of the variables.
LEMMA StepShape ==
  ASSUME IInv, [Next]_vars
  PROVE  Shape'
<1>1. /\ status' \in [Matches -> Statuses]
      /\ IsFunction(winner)'
      /\ IsFunction(slot)'
      /\ \A x \in Matches : slot'[x] = <<slot'[x][1], slot'[x][2]>>
  <2>1. CASE RunDraw
    BY <2>1 DEF RunDraw, IInv, Shape, Statuses, IsFunction
  <2>2. CASE UNCHANGED <<luck, result, agreed>>
    BY <2>2 DEF result, IInv, Shape, IsFunction
  <2> QED
    BY <2>1, <2>2, StepKinds, OpenStepShape DEF IInv
<1>2. /\ consensus' \in [Matches -> {"none", "awaiting_second", "disputed", "agreed"}]
      /\ agreed' \in [Matches -> Scorelines \cup {None}]
      /\ said' \in [Matches -> [Sides -> Scorelines \cup {None}]]
      /\ ruled' \in [Matches -> Scorelines \cup {None}]
  <2> USE DEF IInv, Shape
  <2> DEFINE Typed ==
        /\ consensus' \in [Matches -> {"none", "awaiting_second", "disputed", "agreed"}]
        /\ agreed' \in [Matches -> Scorelines \cup {None}]
        /\ said' \in [Matches -> [Sides -> Scorelines \cup {None}]]
        /\ ruled' \in [Matches -> Scorelines \cup {None}]
  <2>1. ASSUME NEW m \in Matches, NEW side \in Sides, NEW line \in Scorelines, SubmitFirst(m, side, line) PROVE Typed
    BY <2>1 DEF SubmitFirst
  <2>2. ASSUME NEW m \in Matches, NEW side \in Sides, NEW line \in Scorelines, SubmitMatching(m, side, line) PROVE Typed
    BY <2>2 DEF SubmitMatching, EnterAgreed
  <2>3. ASSUME NEW m \in Matches, NEW side \in Sides, NEW line \in Scorelines, SubmitConflicting(m, side, line) PROVE Typed
    BY <2>3 DEF SubmitConflicting
  <2>4. ASSUME NEW m \in Matches, NEW line \in Scorelines, ResolveDispute(m, line) PROVE Typed
    BY <2>4 DEF ResolveDispute, EnterAgreed
  <2>5. ASSUME NEW m \in Matches, NEW side \in Sides, Forfeit(m, side) PROVE Typed
    BY <2>5 DEF Forfeit, scores
  <2>6. CASE RunDraw
    BY <2>6 DEF RunDraw, scores
  <2>7. CASE AwaitSettlement
    BY <2>7 DEF AwaitSettlement, scores
  <2>8. CASE UNCHANGED vars
    BY <2>8 DEF vars, scores
  <2> QED
    BY <2>1, <2>2, <2>3, <2>4, <2>5, <2>6, <2>7, <2>8 DEF Next
<1> QED
  BY <1>1, <1>2 DEF Shape

\* The slots of a started match are not touched by what another match decides.
LEMMA StartedSlotKept ==
  ASSUME IInv, NEW m \in Matches, NEW to, NEW w, Decide(m, to, w)
  PROVE  \A x \in Matches : Started(x) => slot'[x] = slot[x]
<1> SUFFICES ASSUME NEW x \in Matches, Started(x), NextOf(m) # None, NextOf(m).match = x PROVE FALSE
  BY AdvanceSlots DEF Decide, IInv
<1>1. m \in BracketMatches
  BY DEF NextOf, Matches
<1>2. NextOf(m).side \in Sides
  BY <1>1, BracketLinks DEF LinksFormABracket
<1>3. winner[m] = None
  BY DEF IInv, Linked, Decide, Complete
<1>4. slot[x][NextOf(m).side] = None
  BY <1>1, <1>3 DEF IInv, Linked
<1> QED
  BY <1>2, <1>4 DEF IInv, PlayedByTwo, Populated, Sides

\* A match that heard nothing new is as fine as it was.
LEMMA NothingNew ==
  ASSUME IInv, [Next]_vars, NEW x \in Matches,
         status'[x] = status[x], consensus'[x] = consensus[x], said'[x] = said[x], ruled'[x] = ruled[x]
  PROVE  Heard(x)' /\ (status[x] = "final" => Stands(x)')
<1>1. Heard(x)'
  BY DEF IInv, Heard
<1>2. ASSUME status[x] = "final" PROVE Stands(x)'
  <2>1. Stands(x)
    BY <1>2 DEF IInv, ResultStands, Stands
  <2>2. winner'[x] = winner[x] /\ slot'[x] = slot[x] /\ agreed'[x] = agreed[x]
    BY <1>2, DecidedKept DEF Complete
  <2> QED
    BY <2>1, <2>2 DEF Stands
<1> QED
  BY <1>1, <1>2

\* The sides of a match are not those its own winner goes to.
LEMMA OwnSlotKept ==
  ASSUME Shape, NEW m \in Matches, NEW w
  PROVE  Advance(m, w)[m] = slot[m]
<1>1. m \in PoolGames => NextOf(m) = None
  BY DEF NextOf
<1>2. NextOf(m) # None => NextOf(m).match # m
  BY <1>1, BracketLinks DEF Matches, LinksFormABracket
<1> QED
  BY <1>2, AdvanceSlots

\* Every step keeps what a match has heard in line with its status, and final
\* results within the rules.
LEMMA StepHeard ==
  ASSUME IInv, [Next]_vars
  PROVE  (\A m \in Matches : Heard(m))' /\ ResultStands'
<1> SUFFICES ASSUME NEW x \in Matches PROVE Heard(x)' /\ (status'[x] = "final" => Stands(x)')
  BY DEF ResultStands, Stands
<1> DEFINE Fine == Heard(x)' /\ (status'[x] = "final" => Stands(x)')
<1> SUFFICES Fine
  OBVIOUS
<1>1. /\ status'[x] = status[x] /\ consensus'[x] = consensus[x] /\ said'[x] = said[x] /\ ruled'[x] = ruled[x] => Fine
  BY NothingNew
<1>2. Heard(x) /\ Shape /\ x \in DOMAIN status /\ x \in DOMAIN consensus /\ x \in DOMAIN said /\ x \in DOMAIN ruled
  BY DEF IInv, Shape
<1> HIDE DEF Fine
<1>3. ASSUME NEW m \in Matches, NEW side \in Sides, NEW line \in Scorelines, SubmitFirst(m, side, line) PROVE Fine
  <2>1. CASE x = m
    BY <1>2, <1>3, <2>1 DEF SubmitFirst, CanSubmit, Fine, Heard, Shape
  <2>2. CASE x # m
    BY <1>1, <1>3, <2>2 DEF SubmitFirst
  <2> QED
    BY <2>1, <2>2
<1>4. ASSUME NEW m \in Matches, NEW side \in Sides, NEW line \in Scorelines, SubmitMatching(m, side, line) PROVE Fine
  <2>1. CASE x = m
    <3>1. ruled[m] = None
      BY <1>2, <1>4, <2>1 DEF SubmitMatching, CanSubmit, Heard
    <3>2. said'[m] = <<line, line>>
      <4>1. said[m] \in [Sides -> Scorelines \cup {None}] /\ said[m][3 - side] = line
        BY <1>2, <1>4 DEF SubmitMatching, Shape
      <4>2. said'[m] = [said[m] EXCEPT ![side] = line]
        BY <1>2, <1>4, <2>1 DEF SubmitMatching, Shape
      <4>3. said'[m] = [s \in Sides |-> line]
        BY <4>1, <4>2 DEF Sides
      <4> QED
        BY <4>3 DEF Sides
    <3>3. slot'[m] = slot[m]
      BY <1>2, <1>4, OwnSlotKept DEF SubmitMatching, EnterAgreed
    <3>4. /\ status'[m] = "final" /\ consensus'[m] = "agreed" /\ agreed'[m] = line
          /\ winner'[m] = slot[m][line.won] /\ ruled' = ruled
      BY <1>2, <1>4 DEF SubmitMatching, EnterAgreed, Shape, IsFunction
    <3> QED
      BY <2>1, <3>1, <3>2, <3>3, <3>4 DEF Fine, Heard, Stands
  <2>2. CASE x # m
    BY <1>1, <1>4, <2>2 DEF SubmitMatching, EnterAgreed
  <2> QED
    BY <2>1, <2>2
<1>5. ASSUME NEW m \in Matches, NEW side \in Sides, NEW line \in Scorelines, SubmitConflicting(m, side, line) PROVE Fine
  <2>1. CASE x = m
    <3>1. ruled[m] = None
      BY <1>2, <1>5, <2>1 DEF SubmitConflicting, CanSubmit, Heard
    <3>2. said[m] \in [Sides -> Scorelines \cup {None}] /\ said[m][3 - side] \notin {None, line}
      BY <1>2, <1>5 DEF SubmitConflicting, Shape
    <3>3. said'[m] = [said[m] EXCEPT ![side] = line]
      BY <1>2, <1>5, <2>1 DEF SubmitConflicting, Shape
    <3>4. None \notin {said'[m][1], said'[m][2]} /\ said'[m][1] # said'[m][2]
      BY <3>2, <3>3, ScorelinesAssumption DEF Sides
    <3>5. status'[m] = "disputed" /\ consensus'[m] = "disputed" /\ ruled' = ruled
      BY <1>2, <1>5, <2>1 DEF SubmitConflicting, Shape
    <3> QED
      BY <2>1, <3>1, <3>4, <3>5 DEF Fine, Heard
  <2>2. CASE x # m
    BY <1>1, <1>5, <2>2 DEF SubmitConflicting
  <2> QED
    BY <2>1, <2>2
<1>6. ASSUME NEW m \in Matches, NEW line \in Scorelines, ResolveDispute(m, line) PROVE Fine
  <2>1. CASE x = m
    <3>1. None \notin {said[m][1], said[m][2]} /\ said[m][1] # said[m][2]
      BY <1>2, <1>6, <2>1 DEF ResolveDispute, IsDisputed, Heard
    <3>2. slot'[m] = slot[m]
      BY <1>2, <1>6, OwnSlotKept DEF ResolveDispute, EnterAgreed
    <3>3. /\ status'[m] = "final" /\ consensus'[m] = "agreed" /\ agreed'[m] = line
          /\ winner'[m] = slot[m][line.won] /\ ruled'[m] = line /\ said' = said
      BY <1>2, <1>6 DEF ResolveDispute, EnterAgreed, Shape, IsFunction
    <3> QED
      BY <2>1, <3>1, <3>2, <3>3 DEF Fine, Heard, Stands
  <2>2. CASE x # m
    BY <1>1, <1>6, <2>2 DEF ResolveDispute, EnterAgreed
  <2> QED
    BY <2>1, <2>2
<1>7. ASSUME NEW m \in Matches, NEW side \in Sides, Forfeit(m, side) PROVE Fine
  <2>1. CASE x = m
    BY <1>2, <1>7, <2>1 DEF Forfeit, Fine, Heard
  <2>2. CASE x # m
    BY <1>1, <1>7, <2>2 DEF Forfeit, scores
  <2> QED
    BY <2>1, <2>2
<1>8. CASE RunDraw
  <2>1. CASE x \in PoolGames
    BY <1>1, <1>8, <2>1 DEF RunDraw, scores
  <2>2. CASE x \notin PoolGames
    <3>1. x \in BracketMatches
      BY <2>2 DEF Matches
    <3>2. status[x] \in {"undrawn", "scheduled", "bye"} /\ status'[x] \in {"bye", "scheduled"}
      BY <1>8, <2>2, <3>1 DEF RunDraw, BracketInPlay, Started
    <3> QED
      BY <1>2, <1>8, <3>2 DEF RunDraw, scores, Fine, Heard
  <2> QED
    BY <2>1, <2>2
<1>9. CASE AwaitSettlement
  BY <1>1, <1>9 DEF AwaitSettlement, scores, result
<1>10. CASE UNCHANGED vars
  BY <1>1, <1>10 DEF vars, scores, result
<1> QED
  BY <1>3, <1>4, <1>5, <1>6, <1>7, <1>8, <1>9, <1>10 DEF Next

\* Every step starts a match for two teams only, and never empties its slots.
LEMMA StepPlayedByTwo ==
  ASSUME IInv, [Next]_vars
  PROVE  PlayedByTwo'
<1> SUFFICES ASSUME NEW x \in Matches, Started(x)' PROVE Populated(x)'
  BY DEF PlayedByTwo
<1>1. ASSUME NEW m \in Matches, NEW to, Talk(m, to) PROVE Populated(x)'
  BY <1>1 DEF Talk, IInv, Shape, PlayedByTwo, Started, Populated
<1>2. ASSUME NEW m \in Matches, NEW to, NEW w, Decide(m, to, w) PROVE Populated(x)'
  <2>1. CASE x = m
    BY <1>2, <2>1, OwnSlotKept DEF Decide, IInv, Populated
  <2>2. CASE x # m
    BY <1>2, <2>2, StartedSlotKept DEF Decide, IInv, Shape, PlayedByTwo, Started, Populated
  <2> QED
    BY <2>1, <2>2
<1>3. CASE RunDraw
  <2>1. CASE x \in PoolGames
    BY <1>3, <2>1 DEF RunDraw, IInv, PlayedByTwo, Started, Populated
  <2>2. CASE x \notin PoolGames
    BY <1>3, <2>2 DEF RunDraw, Started
  <2> QED
    BY <2>1, <2>2
<1>4. CASE UNCHANGED <<luck, result, agreed>>
  BY <1>4 DEF result, IInv, PlayedByTwo, Started, Populated
<1> QED
  BY <1>1, <1>2, <1>3, <1>4, StepKinds DEF IInv

\* Every step moves a winner to where the bracket links it.
LEMMA StepLinked ==
  ASSUME IInv, [Next]_vars
  PROVE  Linked'
<1> USE DEF Linked
<1>1. ASSUME NEW m \in Matches, NEW to, Talk(m, to) PROVE Linked'
  BY <1>1 DEF Talk, IInv, Shape, Complete
<1>2. ASSUME NEW m \in Matches, NEW to, NEW w, Decide(m, to, w) PROVE Linked'
  <2>1. ASSUME NEW x \in Matches, ~Complete(x)' PROVE winner'[x] = None
    BY <1>2, <2>1 DEF Decide, IInv, Shape, IsFunction, Complete
  <2>2. ASSUME NEW f \in BracketMatches, NextOf(f) # None
        PROVE  slot'[NextOf(f).match][NextOf(f).side] = winner'[f]
    <3>1. f \in Matches /\ NextOf(f).match \in Matches /\ NextOf(f).side \in Sides
      BY <2>2, BracketLinks DEF Matches, LinksFormABracket
    <3>2. slot'[NextOf(f).match][NextOf(f).side] =
            IF NextOf(m) # None /\ NextOf(m).match = NextOf(f).match /\ NextOf(m).side = NextOf(f).side
            THEN w ELSE slot[NextOf(f).match][NextOf(f).side]
      BY <1>2, <3>1, AdvanceSlots DEF Decide, IInv
    <3>3. CASE f = m
      <4>1. winner'[f] = w
        BY <1>2, <3>3 DEF Decide, IInv, Shape, IsFunction
      <4> QED
        BY <2>2, <3>2, <3>3, <4>1
    <3>4. CASE f # m
      <4>1. ~(NextOf(m) # None /\ NextOf(m).match = NextOf(f).match /\ NextOf(m).side = NextOf(f).side)
        BY <2>2, <3>4, BracketLinks DEF NextOf, Matches, LinksFormABracket
      <4>2. winner'[f] = winner[f]
        BY <1>2, <3>1, <3>4 DEF Decide, IInv, Shape, IsFunction
      <4> QED
        BY <2>2, <3>2, <4>1, <4>2 DEF IInv
    <3> QED
      BY <3>3, <3>4
  <2> QED
    BY <2>1, <2>2
<1>3. CASE RunDraw
  <2>1. ASSUME NEW x \in Matches, ~Complete(x)' PROVE winner'[x] = None
    BY <1>3, <2>1 DEF RunDraw, IInv, Complete
  <2>2. ASSUME NEW f \in BracketMatches, NextOf(f) # None
        PROVE  slot'[NextOf(f).match][NextOf(f).side] = winner'[f]
    <3>1. /\ f \in Matches \ PoolGames
          /\ NextOf(f).match \in Matches \ PoolGames
          /\ NextOf(f).side \in Sides
          /\ SeedOf(NextOf(f).match, NextOf(f).side) = IF IsBye(f) THEN SeedOf(f, 1) ELSE None
      BY <2>2, BracketLinks DEF Matches, LinksFormABracket
    <3>2. slot'[NextOf(f).match][NextOf(f).side]
            = SeededTeam(BracketSeeds, SeedOf(NextOf(f).match, NextOf(f).side))
      BY <1>3, <3>1 DEF RunDraw, Sides
    <3>3. winner'[f] = IF IsBye(f) THEN SeededTeam(BracketSeeds, SeedOf(f, 1)) ELSE None
      BY <1>3, <3>1 DEF RunDraw
    <3> QED
      BY <3>1, <3>2, <3>3 DEF SeededTeam
  <2> QED
    BY <2>1, <2>2
<1>4. CASE UNCHANGED <<luck, result, agreed>>
  BY <1>4 DEF result, IInv, Complete
<1> QED
  BY <1>1, <1>2, <1>3, <1>4, StepKinds DEF IInv

\* Only the draw gives a bracket match a status, and only once pools are done.
LEMMA StepDrawnFromPools ==
  ASSUME IInv, [Next]_vars
  PROVE  DrawnFromPools'
<1>1. ASSUME NEW x \in PoolGames PROVE status'[x] \notin {"undrawn", "bye"}
  BY StepKinds DEF IInv, DrawnFromPools, Talk, Decide, RunDraw, result, Shape, Matches
<1>2. ASSUME NEW x \in BracketMatches, status'[x] # "undrawn"
      PROVE  PoolPlayComplete' /\ (status'[x] = "bye" => /\ IsBye(x)
                                                        /\ winner'[x] = SeededTeam(BracketSeeds', SeedOf(x, 1)))
  <2>1. CASE RunDraw
    <3>1. PoolPlayComplete' /\ BracketSeeds' = BracketSeeds
      BY <2>1, SeedsKept DEF RunDraw
    <3>2. x \in Matches \ PoolGames
      BY BracketLinks DEF Matches, LinksFormABracket
    <3> QED
      BY <2>1, <3>1, <3>2 DEF RunDraw
  <2>2. CASE ~RunDraw
    <3>1. status[x] # "undrawn" /\ (status'[x] = "bye" => status[x] = "bye")
      BY <1>2, <2>2, StepKinds DEF IInv, Talk, Decide, result, Shape, Matches
    <3>2. PoolPlayComplete' /\ BracketSeeds' = BracketSeeds
      BY <3>1, SeedsKept DEF IInv, DrawnFromPools
    <3>3. status[x] = "bye" => winner'[x] = winner[x]
      BY DecidedKept DEF Complete, Matches
    <3> QED
      BY <3>1, <3>2, <3>3 DEF IInv, DrawnFromPools
  <2> QED
    BY <2>1, <2>2
<1> QED
  BY <1>1, <1>2 DEF DrawnFromPools

\* What nothing feeds keeps the seed it was drawn with.
LEMMA StepSeeded ==
  ASSUME IInv, [Next]_vars
  PROVE  Seeded'
<1> SUFFICES ASSUME NEW x \in BracketMatches, NEW side \in Sides, status'[x] # "undrawn",
                    ~(\E f \in BracketMatches : Feeds(f, x, side))
             PROVE  slot'[x][side] = SeededTeam(BracketSeeds', SeedOf(x, side))
  BY DEF Seeded
<1>1. x \in Matches \ PoolGames
  BY BracketLinks DEF Matches, LinksFormABracket
<1>2. CASE RunDraw
  <2>1. BracketSeeds' = BracketSeeds
    BY <1>2, SeedsKept DEF RunDraw
  <2>2. slot'[x] = <<SeededTeam(BracketSeeds, SeedOf(x, 1)), SeededTeam(BracketSeeds, SeedOf(x, 2))>>
    BY <1>1, <1>2 DEF RunDraw
  <2> QED
    BY <2>1, <2>2 DEF Sides
<1>3. CASE ~RunDraw
  <2>1. status[x] # "undrawn"
    BY <1>1, <1>3, StepKinds DEF IInv, Talk, Decide, result, Shape
  <2>2. BracketSeeds' = BracketSeeds
    BY <2>1, SeedsKept DEF IInv, DrawnFromPools
  <2>3. slot'[x][side] = slot[x][side]
    <3>1. ASSUME NEW m \in Matches, NEW to, NEW w, Decide(m, to, w) PROVE slot'[x][side] = slot[x][side]
      <4>1. NextOf(m) # None => m \in BracketMatches
        BY DEF NextOf, Matches
      <4>2. ~(NextOf(m) # None /\ NextOf(m).match = x /\ NextOf(m).side = side)
        BY <4>1 DEF Feeds
      <4> QED
        BY <1>1, <3>1, <4>2, AdvanceSlots DEF Decide, IInv
    <3> QED
      BY <1>3, <3>1, StepKinds DEF IInv, Talk, result
  <2> QED
    BY <2>1, <2>2, <2>3 DEF IInv, Seeded
<1> QED
  BY <1>2, <1>3

\* A tournament that has just gone live satisfies the invariant.
LEMMA InitIInv == Init => IInv
<1> SUFFICES ASSUME Init PROVE IInv
  OBVIOUS
<1>1. Shape
  BY PoolGamesAreOfTeams DEF Init, Shape, IsFunction, Statuses, Matches, Sides
<1>2. (\A m \in Matches : Heard(m)) /\ ResultStands /\ PlayedByTwo
  BY DEF Init, Heard, ResultStands, PlayedByTwo, Started
<1>3. Linked
  BY BracketLinks DEF Init, Linked, Matches, Sides, LinksFormABracket
<1>4. DrawnFromPools /\ Seeded
  BY BracketLinks DEF Init, DrawnFromPools, Seeded, Matches, LinksFormABracket
<1> QED
  BY <1>1, <1>2, <1>3, <1>4 DEF IInv

\* The invariant holds throughout.
LEMMA Invariant == Spec => []IInv
<1>1. IInv /\ [Next]_vars => IInv'
  BY StepShape, StepHeard, StepPlayedByTwo, StepLinked, StepDrawnFromPools, StepSeeded DEF IInv
<1> QED
  BY InitIInv, <1>1, PTL DEF Spec

\* No result becomes final that the two teams did not both report, or that the
\* organizer did not rule on a true dispute.
THEOREM ResultStandsHolds == Spec => []ResultStands
<1>1. IInv => ResultStands
  BY DEF IInv
<1> QED
  BY Invariant, <1>1, PTL

\* A drawn bracket holds the winners of its matches and the seeds the pools'
\* standings give, whatever is drawn again.
THEOREM BracketFollowsResultsHolds == Spec => []BracketFollowsResults
<1>1. IInv => BracketFollowsResults
  <2> SUFFICES ASSUME IInv, BracketDrawn, NEW m \in BracketMatches, NEW side \in Sides
               PROVE  IF \E f \in BracketMatches : Feeds(f, m, side)
                      THEN slot[m][side] = winner[CHOOSE f \in BracketMatches : Feeds(f, m, side)]
                      ELSE slot[m][side] = SeededTeam(BracketSeeds, SeedOf(m, side))
    BY DEF BracketFollowsResults
  <2>1. CASE \E f \in BracketMatches : Feeds(f, m, side)
    <3>1. PICK f \in BracketMatches : f = CHOOSE g \in BracketMatches : Feeds(g, m, side)
      BY <2>1
    <3>2. Feeds(f, m, side)
      BY <2>1, <3>1
    <3> QED
      BY <2>1, <3>1, <3>2 DEF IInv, Linked, Feeds
  <2>2. CASE ~(\E f \in BracketMatches : Feeds(f, m, side))
    BY <2>2 DEF IInv, Seeded, BracketDrawn
  <2> QED
    BY <2>1, <2>2
<1> QED
  BY Invariant, <1>1, PTL

\* What is decided stays decided, and as it was.
THEOREM DecidedStaysHolds == Spec => DecidedStays
<1>1. IInv /\ [Next]_vars => [\A m \in Matches : Complete(m) =>
                                /\ status'[m] = status[m]
                                /\ winner'[m] = winner[m]
                                /\ slot'[m] = slot[m]
                                /\ agreed'[m] = agreed[m]]_vars
  BY DecidedKept
<1> QED
  BY Invariant, <1>1, PTL DEF Spec, DecidedStays

\* Every variable keeps its type.
THEOREM TypeCorrect == Spec => []TypeOK
<1> DEFINE Running == tournament \in {"live", "awaiting_settlement"}
<1>1. Init => Running
  BY DEF Init
<1>2. Running /\ [Next]_vars => Running'
  BY DEF Next, vars, SubmitFirst, SubmitMatching, SubmitConflicting, ResolveDispute, Forfeit, RunDraw, AwaitSettlement
<1>3. IInv /\ Running => TypeOK
  <2> SUFFICES ASSUME IInv, Running PROVE TypeOK
    OBVIOUS
  <2>1. ASSUME NEW m \in Matches PROVE DOMAIN slot[m] = Sides
    <3>1. slot[m] = <<slot[m][1], slot[m][2]>>
      BY DEF IInv, Shape
    <3>2. \A a, b : DOMAIN <<a, b>> = Sides
      BY DEF Sides
    <3> QED
      BY <3>1, <3>2
  <2>2. DOMAIN slot = Matches /\ DOMAIN winner = Matches
    BY DEF IInv, Shape, IsFunction
  <2> QED
    BY <2>1, <2>2 DEF IInv, Shape, TypeOK, Statuses
<1> QED
  BY <1>1, <1>2, <1>3, Invariant, PTL DEF Spec

-----------------------------------------------------------------------------
(* The bracket once it is played out. *)

\* A decided match of the bracket has had its winner.
LEMMA DecidedMatch ==
  ASSUME EndOfPlay, NEW t, t = D!RoundsFor(Advancing), NEW r \in 1..t, NEW i \in 1..D!Pow2[t - r], NEW m, m = PlaceAt(t, r, i),
         NEW seeds, seeds = BracketSeeds, \A x \in 1..Advancing : seeds[x] # None
  PROVE  HasItsWinner(m, t, seeds, r, i)
<1>1. /\ m \in BracketMatches
      /\ r # t => NextOf(m) = [match |-> PlaceAt(t, r + 1, (i + 1) \div 2), side |-> 2 - (i % 2)]
      /\ NextOf(m) = None <=> r = t
      /\ r # 1 => ~IsBye(m)
      /\ r = 1 => \A side \in Sides : SeedOf(m, side) = SeedAt(i, side) /\ ~\E f \in BracketMatches : Feeds(f, m, side)
  BY MatchAt
<1>2. m \in Matches /\ Complete(m) /\ IInv
  BY <1>1 DEF EndOfPlay, Matches
<1>3. status[m] \in {"final", "forfeited", "bye"}
  BY <1>2 DEF Complete
<1>4. \A x : x \in 1..Advancing => SeededTeam(seeds, x) # None
  <2>1. None \notin 1..Advancing
    BY NoneAssumption, LineAssumption
  <2> QED
    BY <2>1 DEF SeededTeam
<1>5. ASSUME r = 1, NEW a \in Sides
      PROVE  slot[m][a] = SeededTeam(seeds, SeedAt(i, a))
  BY <1>1, <1>2, <1>3, <1>5 DEF IInv, Seeded
<1>6. r # t => slot[PlaceAt(t, r + 1, (i + 1) \div 2)][2 - (i % 2)] = winner[m]
  BY <1>1, <1>2 DEF IInv, Linked
<1>7. CASE status[m] = "bye"
  <2>1. IsBye(m) /\ winner[m] = SeededTeam(seeds, SeedOf(m, 1))
    BY <1>1, <1>2, <1>7 DEF IInv, DrawnFromPools
  <2>2. r = 1 /\ i \in 1..D!Pow2[t - 1]
    BY <1>1, <2>1
  <2>3. D!IsBye(Advancing, 1, i)
    BY <2>1, <2>2, MatchInBracket DEF PlaceAt
  <2>4. SeedAt(i, 1) \in 1..Advancing /\ SeedAt(i, 2) = None
    BY <2>2, <2>3, SeedsOfFirstRound DEF StandOnce
  <2>5. 1 \in Sides /\ 2 \in Sides
    BY DEF Sides
  <2>6. slot[m][1] = winner[m] /\ slot[m][2] = None
    BY <1>1, <1>5, <2>1, <2>2, <2>4, <2>5 DEF SeededTeam
  <2> QED
    BY <1>4, <1>5, <1>6, <1>7, <2>2, <2>4, <2>5, <2>6 DEF HasItsWinner
<1>8. CASE status[m] # "bye"
  <2>1. status[m] \in {"final", "forfeited"}
    BY <1>3, <1>8
  <2>2. Started(m)
    BY <2>1 DEF Started
  <2>3. slot[m][1] # None /\ slot[m][2] # None
    BY <1>2, <2>2 DEF IInv, PlayedByTwo, Populated
  <2>4. winner[m] \in {slot[m][1], slot[m][2]}
    <3>1. CASE status[m] = "final"
      <4>1. agreed[m].won \in Sides
        BY <1>2, <3>1, ScorelinesAssumption DEF EndOfPlay, PoolsPlayed
      <4>2. winner[m] = slot[m][agreed[m].won]
        BY <1>2, <3>1 DEF IInv, ResultStands
      <4> QED
        BY <4>1, <4>2 DEF Sides
    <3>2. CASE status[m] = "forfeited"
      BY <1>2, <3>2 DEF EndOfPlay
    <3> QED
      BY <2>1, <3>1, <3>2
  <2> QED
    BY <1>5, <1>6, <1>8, <2>3, <2>4 DEF HasItsWinner
<1> QED
  BY <1>7, <1>8

\* The decided matches make a bracket that has been played.
LEMMA BracketPlayed ==
  ASSUME EndOfPlay, NEW t, t = D!RoundsFor(Advancing), NEW seeds, seeds = BracketSeeds, \A x \in 1..Advancing : seeds[x] # None
  PROVE  PlayedOn(t, seeds)
<1>1. ASSUME NEW r \in 1..t, NEW i \in 1..D!Pow2[t - r]
      PROVE  /\ ByeAt(t, r, i) => r = 1 /\ HeldAt(t, r, i, 2) = None /\ WonAt(t, r, i) = HeldAt(t, r, i, 1)
             /\ ~ByeAt(t, r, i) => WonAt(t, r, i) \in {HeldAt(t, r, i, 1), HeldAt(t, r, i, 2)} /\ HeldAt(t, r, i, 2) # None
             /\ HeldAt(t, r, i, 1) # None /\ WonAt(t, r, i) # None
             /\ r # t => HeldAt(t, r + 1, (i + 1) \div 2, 2 - (i % 2)) = WonAt(t, r, i)
             /\ r = 1 => \A a \in Sides : HeldAt(t, r, i, a) = SeededTeam(seeds, SeedAt(i, a))
  <2>1. PICK m : m = PlaceAt(t, r, i)
    OBVIOUS
  <2>2. HasItsWinner(m, t, seeds, r, i)
    BY <2>1, DecidedMatch
  <2> QED
    BY ONLY <2>1, <2>2 DEF HasItsWinner, ByeAt, HeldAt, WonAt
<1>2. t \in Nat \ {0}
  BY BracketPlaces
<1>3. 1 \in 1..t
  BY ONLY <1>2
<1>4. \A i \in 1..D!Pow2[t - 1], a \in Sides : HeldAt(t, 1, i, a) = SeededTeam(seeds, SeedAt(i, a))
  BY <1>1, <1>3
<1> QED
  BY <1>1, <1>4 DEF PlayedOn

\* A place of a later round holds the winner of the match that feeds it.
LEMMA HeldFromBefore ==
  ASSUME NEW t \in Nat \ {0}, NEW seeds, PlayedOn(t, seeds), NEW r \in 1..t, r # t,
         NEW j \in 1..D!Pow2[t - (r + 1)], NEW a \in Sides, NEW i, i = 2 * j - 2 + a
  PROVE  /\ i \in 1..D!Pow2[t - r] /\ (i + 1) \div 2 = j /\ 2 - (i % 2) = a
         /\ HeldAt(t, r + 1, j, a) = WonAt(t, r, i)
<1>1. PICK k \in Nat : k = t - (r + 1) /\ t - r = k + 1
  OBVIOUS
<1>2. PICK h \in Nat : h = D!Pow2[k] /\ D!Pow2[t - r] = 2 * h
  BY <1>1, PowersDouble
<1>3. j \in 1..h /\ a \in {1, 2}
  BY <1>1, <1>2 DEF Sides
<1>4. i \in 1..(2 * h) /\ (i + 1) \div 2 = j /\ 2 - (i % 2) = a
  <2>1. CASE a = 1
    BY ONLY <1>3, <2>1, i = 2 * j - 2 + a, h \in Nat
  <2>2. CASE a = 2
    BY ONLY <1>3, <2>2, i = 2 * j - 2 + a, h \in Nat
  <2> QED
    BY <1>3, <2>1, <2>2
<1>5. i \in 1..D!Pow2[t - r]
  BY <1>2, <1>4
<1>6. HeldAt(t, r + 1, (i + 1) \div 2, 2 - (i % 2)) = WonAt(t, r, i)
  BY <1>5 DEF PlayedOn
<1> QED
  BY <1>4, <1>5, <1>6

\* A bracket of different teams has nobody twice in a round.
LEMMA RoundsDiffer ==
  ASSUME NEW t, t = D!RoundsFor(Advancing), NEW seeds, PlayedOn(t, seeds),
         \A x, y \in 1..Advancing : seeds[x] = seeds[y] => x = y, \A x \in 1..Advancing : seeds[x] # None
  PROVE  \A r \in 1..t : DistinctAt(t, r)
<1>1. t \in Nat \ {0}
  BY BracketPlaces
<1> DEFINE Good == {d \in Nat : d + 1 \in 1..t => DistinctAt(t, d + 1)}
<1>2. 0 \in Good
  <2>1. PICK places : places = 1..D!Pow2[t - 1]
    OBVIOUS
  <2>2. StandOnce(places)
    BY <2>1, SeedsOfFirstRound
  <2>3. \A i \in places, a \in Sides : HeldAt(t, 1, i, a) = SeededTeam(seeds, SeedAt(i, a))
    BY <2>1 DEF PlayedOn
  <2>4. ASSUME NEW i \in places, NEW j \in places, NEW a \in Sides, NEW b \in Sides,
               HeldAt(t, 1, i, a) = HeldAt(t, 1, j, b), HeldAt(t, 1, i, a) # None
        PROVE  i = j /\ a = b
    <3>1. PICK x, y : x = SeedAt(i, a) /\ y = SeedAt(j, b)
      OBVIOUS
    <3>2. SeededTeam(seeds, x) = SeededTeam(seeds, y) /\ SeededTeam(seeds, x) # None
      BY <2>3, <2>4, <3>1
    <3>3. x # None /\ y # None /\ seeds[x] = seeds[y]
      BY <3>2 DEF SeededTeam
    <3>4. x \in 1..Advancing /\ y \in 1..Advancing
      BY <2>2, <3>1, <3>3 DEF Sides, StandOnce
    <3>5. x = y
      BY <3>3, <3>4
    <3>6. SeedAt(i, a) = SeedAt(j, b) /\ SeedAt(i, a) # None
      BY ONLY <3>1, <3>3, <3>5
    <3> QED
      BY ONLY <2>2, <3>6, i \in places, j \in places, a \in Sides, b \in Sides DEF StandOnce
  <2>5. DistinctAt(t, 1)
    BY <2>1, <2>4 DEF DistinctAt
  <2> QED
    BY <2>5
<1>3. ASSUME NEW d \in Nat, d \in Good
      PROVE  d + 1 \in Good
  <2> SUFFICES ASSUME (d + 1) + 1 \in 1..t PROVE DistinctAt(t, (d + 1) + 1)
    OBVIOUS
  <2>1. PICK r \in 1..t : r = d + 1 /\ r # t
    BY <1>1
  <2>2. DistinctAt(t, r)
    BY <1>3, <2>1
  <2>3. ASSUME NEW i \in 1..D!Pow2[t - r], NEW j \in 1..D!Pow2[t - r], WonAt(t, r, i) = WonAt(t, r, j)
        PROVE  i = j
    <3>1. PICK a \in Sides : WonAt(t, r, i) = HeldAt(t, r, i, a) /\ HeldAt(t, r, i, a) # None
      BY DEF PlayedOn, Sides
    <3>2. PICK b \in Sides : WonAt(t, r, j) = HeldAt(t, r, j, b)
      BY DEF PlayedOn, Sides
    <3> QED
      BY <2>2, <2>3, <3>1, <3>2 DEF DistinctAt
  <2>4. ASSUME NEW i \in 1..D!Pow2[t - (r + 1)], NEW j \in 1..D!Pow2[t - (r + 1)], NEW a \in Sides, NEW b \in Sides,
               HeldAt(t, r + 1, i, a) = HeldAt(t, r + 1, j, b)
        PROVE  i = j /\ a = b
    <3>1. PICK x, y : x = 2 * i - 2 + a /\ y = 2 * j - 2 + b
      OBVIOUS
    <3>2. x \in 1..D!Pow2[t - r] /\ (x + 1) \div 2 = i /\ 2 - (x % 2) = a /\ HeldAt(t, r + 1, i, a) = WonAt(t, r, x)
      BY <1>1, <2>1, <3>1, HeldFromBefore
    <3>3. y \in 1..D!Pow2[t - r] /\ (y + 1) \div 2 = j /\ 2 - (y % 2) = b /\ HeldAt(t, r + 1, j, b) = WonAt(t, r, y)
      BY <1>1, <2>1, <3>1, HeldFromBefore
    <3>4. x = y
      BY <2>3, <2>4, <3>2, <3>3
    <3> QED
      BY <3>2, <3>3, <3>4
  <2>5. DistinctAt(t, r + 1)
    BY <2>4 DEF DistinctAt
  <2> QED
    BY <2>1, <2>5
<1>4. Nat \subseteq Good
  <2> HIDE DEF Good
  <2> QED
    BY <1>2, <1>3, NumberInduction
<1> SUFFICES ASSUME NEW r \in 1..t PROVE DistinctAt(t, r)
  OBVIOUS
<1>5. PICK d \in Nat : d + 1 = r
  BY <1>1
<1>6. d \in Good
  BY <1>4
<1> QED
  BY <1>5, <1>6

-----------------------------------------------------------------------------
(* The played bracket is single elimination. *)

\* An entry of the bracket, by its place.
LEMMA EntryIs ==
  ASSUME NEW t, t = D!RoundsFor(Advancing), NEW seeds, PlayedOn(t, seeds), NEW r \in 1..t, NEW i \in 1..D!Pow2[t - r],
         NEW e, e = EntryAt(t, r, i)
  PROVE  /\ e \in PlayedBracket
         /\ e.round = r /\ e.winner = WonAt(t, r, i) /\ e.a = HeldAt(t, r, i, 1) /\ e.b = HeldAt(t, r, i, 2)
         /\ e.bye \in BOOLEAN
         /\ \A x : x \in TeamsOfMatch(e) <=> \E a \in Sides : x = HeldAt(t, r, i, a) /\ x # None
         /\ e.winner \in TeamsOfMatch(e)
<1>1. PICK m : m = PlaceAt(t, r, i)
  OBVIOUS
<1>2. m \in BracketMatches /\ Bracket[m[2]].round = r
  BY <1>1, MatchAt
<1>3. e = EntryOf(m)
  BY <1>1 DEF EntryAt
<1>4. /\ e.round = r /\ e.winner = winner[m] /\ e.a = slot[m][1] /\ e.b = slot[m][2]
      /\ e.bye = (status[m] = "bye")
  BY <1>2, <1>3 DEF EntryOf
<1>5. /\ e.winner = WonAt(t, r, i) /\ e.a = HeldAt(t, r, i, 1) /\ e.b = HeldAt(t, r, i, 2)
      /\ e.bye = ByeAt(t, r, i)
  BY <1>1, <1>4 DEF WonAt, HeldAt, ByeAt
<1>6. e \in PlayedBracket
  BY <1>2, <1>3 DEF PlayedBracket
<1>7. /\ ByeAt(t, r, i) => HeldAt(t, r, i, 2) = None /\ WonAt(t, r, i) = HeldAt(t, r, i, 1)
      /\ ~ByeAt(t, r, i) => WonAt(t, r, i) \in {HeldAt(t, r, i, 1), HeldAt(t, r, i, 2)} /\ HeldAt(t, r, i, 2) # None
      /\ HeldAt(t, r, i, 1) # None
  BY DEF PlayedOn
<1>8. TeamsOfMatch(e) = IF ByeAt(t, r, i) THEN {HeldAt(t, r, i, 1)} ELSE {HeldAt(t, r, i, 1), HeldAt(t, r, i, 2)}
  BY <1>5 DEF TeamsOfMatch
<1>9. \A x : x \in TeamsOfMatch(e) <=> \E a \in Sides : x = HeldAt(t, r, i, a) /\ x # None
  BY <1>7, <1>8 DEF Sides
<1>10. e.winner \in TeamsOfMatch(e)
  BY <1>5, <1>7, <1>8
<1>11. e.bye \in BOOLEAN
  BY <1>4
<1> QED
  BY <1>4, <1>5, <1>6, <1>9, <1>10, <1>11

\* Every entry has a place.
LEMMA EntriesHavePlaces ==
  ASSUME NEW t, t = D!RoundsFor(Advancing), NEW e \in PlayedBracket
  PROVE  \E r \in 1..t : \E i \in 1..D!Pow2[t - r] : e = EntryAt(t, r, i)
<1>1. PICK m \in BracketMatches : e = EntryOf(m)
  BY DEF PlayedBracket
<1>2. PICK r \in 1..t : \E i \in 1..D!Pow2[t - r] : m = <<0, D!Position(t, r, i)>>
  BY BracketPlaces
<1>3. PICK i \in 1..D!Pow2[t - r] : m = <<0, D!Position(t, r, i)>>
  BY <1>2
<1>4. e = EntryAt(t, r, i)
  BY <1>1, <1>3 DEF EntryAt, PlaceAt
<1> QED
  BY <1>4

\* The teams of a round are those its places hold.
LEMMA RoundTeams ==
  ASSUME NEW t, t = D!RoundsFor(Advancing), NEW seeds, PlayedOn(t, seeds), NEW r \in 1..t, NEW x
  PROVE  x \in InRound(PlayedBracket, r) <=> \E i \in 1..D!Pow2[t - r], a \in Sides : x = HeldAt(t, r, i, a) /\ x # None
<1>1. ASSUME x \in InRound(PlayedBracket, r)
      PROVE  \E i \in 1..D!Pow2[t - r], a \in Sides : x = HeldAt(t, r, i, a) /\ x # None
  <2>1. PICK e \in PlayedBracket : e.round = r /\ x \in TeamsOfMatch(e)
    BY <1>1 DEF InRound
  <2>2. PICK s \in 1..t : \E i \in 1..D!Pow2[t - s] : e = EntryAt(t, s, i)
    BY EntriesHavePlaces
  <2>3. PICK i \in 1..D!Pow2[t - s] : e = EntryAt(t, s, i)
    BY <2>2
  <2>4. e.round = s /\ \E a \in Sides : x = HeldAt(t, s, i, a) /\ x # None
    BY <2>1, <2>3, EntryIs
  <2> QED
    BY <2>1, <2>4
<1>2. ASSUME NEW i \in 1..D!Pow2[t - r], NEW a \in Sides, x = HeldAt(t, r, i, a), x # None
      PROVE  x \in InRound(PlayedBracket, r)
  <2>1. PICK e : e = EntryAt(t, r, i)
    OBVIOUS
  <2>2. e \in PlayedBracket /\ e.round = r /\ \A y : y \in TeamsOfMatch(e) <=> \E b \in Sides : y = HeldAt(t, r, i, b) /\ y # None
    BY <2>1, EntryIs
  <2>3. x \in TeamsOfMatch(e)
    BY <1>2, <2>2
  <2> QED
    BY <2>2, <2>3 DEF InRound
<1> QED
  BY <1>1, <1>2

LEMMA BracketIsKnockout ==
  ASSUME NEW t, t = D!RoundsFor(Advancing), NEW seeds, PlayedOn(t, seeds),
         \A x, y \in 1..Advancing : seeds[x] = seeds[y] => x = y, \A x \in 1..Advancing : seeds[x] # None
  PROVE  Knockout(PlayedBracket, t)
<1>1. t \in Nat \ {0}
  BY BracketPlaces
<1>2. \A r \in 1..t : DistinctAt(t, r)
  BY RoundsDiffer
<1>3. ASSUME NEW e \in PlayedBracket
      PROVE  e.round \in 1..t /\ e.winner \in TeamsOfMatch(e) /\ (e.bye \/ e.a # e.b)
  <2>1. PICK r \in 1..t : \E i \in 1..D!Pow2[t - r] : e = EntryAt(t, r, i)
    BY EntriesHavePlaces
  <2>2. PICK i \in 1..D!Pow2[t - r] : e = EntryAt(t, r, i)
    BY <2>1
  <2>3. e.round = r /\ e.winner \in TeamsOfMatch(e) /\ e.a = HeldAt(t, r, i, 1) /\ e.b = HeldAt(t, r, i, 2)
    BY <2>2, EntryIs
  <2>4. HeldAt(t, r, i, 1) # None
    BY DEF PlayedOn
  <2>5. HeldAt(t, r, i, 1) # HeldAt(t, r, i, 2)
    BY <1>2, <2>4 DEF DistinctAt, Sides
  <2> QED
    BY <2>3, <2>5
<1>4. \E final \in PlayedBracket : final.round = t /\ \A e \in PlayedBracket : e.round = t => e = final
  <2>1. D!Pow2[t - t] = 1
    <3>1. t - t = 0
      BY <1>1
    <3> QED
      BY <3>1, PowersDouble
  <2>2. t \in 1..t /\ 1 \in 1..D!Pow2[t - t]
    BY <1>1, <2>1
  <2>3. PICK final : final = EntryAt(t, t, 1)
    OBVIOUS
  <2>4. final \in PlayedBracket /\ final.round = t
    BY <2>2, <2>3, EntryIs
  <2>5. ASSUME NEW e \in PlayedBracket, e.round = t
        PROVE  e = final
    <3>1. PICK r \in 1..t : \E i \in 1..D!Pow2[t - r] : e = EntryAt(t, r, i)
      BY EntriesHavePlaces
    <3>2. PICK i \in 1..D!Pow2[t - r] : e = EntryAt(t, r, i)
      BY <3>1
    <3>3. e.round = r
      BY <3>2, EntryIs
    <3>4. r = t
      BY <2>5, <3>3
    <3>5. i \in 1..1
      BY <2>1, <3>4
    <3>6. i = 1
      BY ONLY <3>5
    <3> QED
      BY <2>3, <3>2, <3>4, <3>6
  <2> QED
    BY <2>4, <2>5
<1>5. ASSUME NEW e \in PlayedBracket, NEW o \in PlayedBracket, NEW x \in TeamsOfMatch(e) \cap TeamsOfMatch(o), e.round = o.round
      PROVE  e = o
  <2>1. PICK r \in 1..t : \E i \in 1..D!Pow2[t - r] : e = EntryAt(t, r, i)
    BY EntriesHavePlaces
  <2>2. PICK i \in 1..D!Pow2[t - r] : e = EntryAt(t, r, i)
    BY <2>1
  <2>3. PICK s \in 1..t : \E j \in 1..D!Pow2[t - s] : o = EntryAt(t, s, j)
    BY EntriesHavePlaces
  <2>4. PICK j \in 1..D!Pow2[t - s] : o = EntryAt(t, s, j)
    BY <2>3
  <2>5. e.round = r /\ \E a \in Sides : x = HeldAt(t, r, i, a) /\ x # None
    BY <2>2, EntryIs
  <2>6. o.round = s /\ \E a \in Sides : x = HeldAt(t, s, j, a) /\ x # None
    BY <2>4, EntryIs
  <2>7. r = s
    BY <1>5, <2>5, <2>6
  <2>8. PICK a \in Sides, b \in Sides : x = HeldAt(t, r, i, a) /\ x = HeldAt(t, r, j, b) /\ x # None
    BY <2>5, <2>6, <2>7
  <2>9. i = j
    <3>1. j \in 1..D!Pow2[t - r] /\ HeldAt(t, r, i, a) = HeldAt(t, r, j, b) /\ HeldAt(t, r, i, a) # None
      BY <2>7, <2>8
    <3>2. DistinctAt(t, r)
      BY <1>2
    <3> QED
      BY <3>1, <3>2 DEF DistinctAt
  <2> QED
    BY <2>2, <2>4, <2>7, <2>9
<1>6. ASSUME NEW r \in 1..t, NEW x \in UNION {TeamsOfMatch(m) : m \in PlayedBracket}, r # t
      PROVE  WinsIn(PlayedBracket, r, x) <=> x \in InRound(PlayedBracket, r + 1)
  <2>1. r + 1 \in 1..t
    BY <1>1, <1>6
  <2>2. ASSUME WinsIn(PlayedBracket, r, x)
        PROVE  x \in InRound(PlayedBracket, r + 1)
    <3>1. PICK e \in PlayedBracket : e.round = r /\ e.winner = x
      BY <2>2 DEF WinsIn
    <3>2. PICK s \in 1..t : \E i \in 1..D!Pow2[t - s] : e = EntryAt(t, s, i)
      BY EntriesHavePlaces
    <3>3. PICK i \in 1..D!Pow2[t - s] : e = EntryAt(t, s, i)
      BY <3>2
    <3>4. e.round = s /\ e.winner = WonAt(t, s, i)
      BY <3>3, EntryIs
    <3>5. i \in 1..D!Pow2[t - r] /\ x = WonAt(t, r, i)
      BY <3>1, <3>4
    <3>6. PICK j, a : j = (i + 1) \div 2 /\ a = 2 - (i % 2)
      OBVIOUS
    <3>7. j \in 1..D!Pow2[t - (r + 1)] /\ a \in Sides
      BY <1>1, <1>6, <3>5, <3>6, NextPlace DEF Sides
    <3>8. HeldAt(t, r + 1, j, a) = x /\ x # None
      BY <1>6, <3>5, <3>6 DEF PlayedOn
    <3> QED
      BY <2>1, <3>7, <3>8, RoundTeams
  <2>3. ASSUME x \in InRound(PlayedBracket, r + 1)
        PROVE  WinsIn(PlayedBracket, r, x)
    <3>1. PICK j \in 1..D!Pow2[t - (r + 1)], a \in Sides : x = HeldAt(t, r + 1, j, a)
      BY <2>1, <2>3, RoundTeams
    <3>2. PICK i : i = 2 * j - 2 + a
      OBVIOUS
    <3>3. i \in 1..D!Pow2[t - r] /\ HeldAt(t, r + 1, j, a) = WonAt(t, r, i)
      BY <1>1, <1>6, <3>2, HeldFromBefore
    <3>4. PICK e : e = EntryAt(t, r, i)
      OBVIOUS
    <3>5. e \in PlayedBracket /\ e.round = r /\ e.winner = WonAt(t, r, i)
      BY <3>3, <3>4, EntryIs
    <3> QED
      BY <3>1, <3>3, <3>5 DEF WinsIn
  <2> QED
    BY <2>2, <2>3
<1>7. \A e, o \in PlayedBracket : \A x \in TeamsOfMatch(e) \cap TeamsOfMatch(o) : e.round = o.round => e = o
  BY <1>5
<1>8. \A r \in 1..t, x \in UNION {TeamsOfMatch(m) : m \in PlayedBracket} :
        r # t => (WinsIn(PlayedBracket, r, x) <=> x \in InRound(PlayedBracket, r + 1))
  BY <1>6
<1> QED
  BY <1>1, <1>3, <1>4, <1>7, <1>8 DEF Knockout

\* The teams of the first round are the seeds.
LEMMA FirstRoundTeams ==
  ASSUME NEW t, t = D!RoundsFor(Advancing), NEW seeds, PlayedOn(t, seeds), \A x \in 1..Advancing : seeds[x] # None
  PROVE  InRound(PlayedBracket, 1) = {seeds[x] : x \in 1..Advancing}
<1>1. t \in Nat \ {0}
  BY BracketPlaces
<1>2. 1 \in 1..t
  BY ONLY <1>1
<1>3. PICK places : places = 1..D!Pow2[t - 1]
  OBVIOUS
<1>4. StandOnce(places)
  BY <1>3, SeedsOfFirstRound
<1>5. \A i \in places, a \in Sides : HeldAt(t, 1, i, a) = SeededTeam(seeds, SeedAt(i, a))
  BY <1>3 DEF PlayedOn
<1>6. \A y : y \in InRound(PlayedBracket, 1) <=> \E i \in places, a \in Sides : y = HeldAt(t, 1, i, a) /\ y # None
  BY <1>2, <1>3, RoundTeams
<1>7. None \notin 1..Advancing
  BY NoneAssumption, LineAssumption
<1>8. ASSUME NEW i \in places, NEW a \in Sides, HeldAt(t, 1, i, a) # None
      PROVE  HeldAt(t, 1, i, a) \in {seeds[x] : x \in 1..Advancing}
  <2>1. PICK x : x = SeedAt(i, a)
    OBVIOUS
  <2>2. x # None /\ HeldAt(t, 1, i, a) = seeds[x]
    BY <1>5, <1>8, <2>1 DEF SeededTeam
  <2>3. x \in 1..Advancing
    BY <1>4, <2>1, <2>2 DEF StandOnce, Sides
  <2> QED
    BY <2>2, <2>3
<1>9. ASSUME NEW x \in 1..Advancing
      PROVE  \E i \in places, a \in Sides : seeds[x] = HeldAt(t, 1, i, a) /\ seeds[x] # None
  <2>1. PICK i \in places, a \in Sides : SeedAt(i, a) = x
    BY <1>4 DEF StandOnce
  <2>2. HeldAt(t, 1, i, a) = seeds[x]
    BY <1>5, <1>7, <2>1 DEF SeededTeam
  <2> QED
    BY <2>2
<1> QED
  BY <1>6, <1>8, <1>9

-----------------------------------------------------------------------------
(* Everyone is placed. *)

\* The rows of the public standings are of the teams, one each.
LEMMA RowsOfTeams ==
  ASSUME NEW k, PoolsOfTeams(k), NEW public, Tables(public, PoolTeams, k), NEW rows, rows = S!RowsAfter(public, 0)
  PROVE  /\ OfTeams(rows)
         /\ {x.team : x \in rows} = Teams
         /\ DOMAIN public = 1..k
         /\ \A p \in 1..k : \A i \in DOMAIN public[p] :
              public[p][i] \in rows /\ public[p][i].team \in Teams /\ public[p][i].rank \in Nat
<1>1. k \in Nat /\ TeamsIn(PoolTeams, k) = Teams
  BY DEF PoolsOfTeams
<1>2. OfTeams(rows) /\ AfterPlace(rows, public, PoolTeams, k, 0)
  BY <1>1, RowsOfTables
<1>3. /\ DOMAIN public = 1..k
      /\ \A p \in 1..k : Table(public[p], PoolTeams[p])
  BY DEF Tables
<1>4. ASSUME NEW p \in 1..k
      PROVE  /\ Cardinality(PoolTeams[p]) \in Nat
             /\ public[p] \in [1..Cardinality(PoolTeams[p]) -> Rows]
             /\ {public[p][i].team : i \in 1..Cardinality(PoolTeams[p])} = PoolTeams[p]
  BY <1>3 DEF Table
<1>5. ASSUME NEW p \in 1..k, NEW i \in 1..Cardinality(PoolTeams[p])
      PROVE  public[p][i] \in rows /\ public[p][i].team \in Teams /\ public[p][i].rank \in Nat
  <2>1. public[p][i] \in rows
    <3>1. i > 0
      BY <1>4
    <3> QED
      BY <1>2, <3>1 DEF AfterPlace
  <2>2. public[p][i] \in Rows
    BY <1>4
  <2>3. public[p][i].team \in PoolTeams[p]
    BY <1>4
  <2>4. PoolTeams[p] \subseteq Teams
    BY <1>1 DEF TeamsIn
  <2> QED
    BY <2>1, <2>2, <2>3, <2>4 DEF Rows
<1>6. ASSUME NEW x \in rows
      PROVE  x.team \in Teams
  <2>1. PICK p \in 1..k : \E i \in 1..Cardinality(PoolTeams[p]) : x = public[p][i]
    BY <1>2 DEF AfterPlace
  <2> QED
    BY <1>5, <2>1
<1>7. ASSUME NEW u \in Teams
      PROVE  \E x \in rows : u = x.team
  <2>1. PICK p \in 1..k : u \in PoolTeams[p]
    BY <1>1 DEF TeamsIn
  <2>2. PICK i \in 1..Cardinality(PoolTeams[p]) : u = public[p][i].team
    BY <1>4, <2>1
  <2> QED
    BY <1>5, <2>2
<1>8. {x.team : x \in rows} = Teams
  BY <1>6, <1>7
<1>9. ASSUME NEW p \in 1..k, NEW i \in DOMAIN public[p]
      PROVE  public[p][i] \in rows /\ public[p][i].team \in Teams /\ public[p][i].rank \in Nat
  <2>1. i \in 1..Cardinality(PoolTeams[p])
    BY <1>4
  <2> QED
    BY <1>5, <2>1
<1> QED
  BY <1>2, <1>3, <1>8, <1>9

\* When a tournament is played out its teams are placed as it promises.
LEMMA EndIsWellPlaced ==
  ASSUME EndOfPlay
  PROVE  WellPlaced(Placements, PublicStandings, BracketSeeds)
<1>1. PICK k : PoolsOfTeams(k)
  BY PoolsHaveTeams
<1>2. PICK public, seeds, t : public = PublicStandings /\ seeds = BracketSeeds /\ t = D!RoundsFor(Advancing)
  OBVIOUS
<1>3. /\ Tables(public, PoolTeams, k)
      /\ seeds \in [1..Advancing -> Teams]
      /\ \A i, j \in 1..Advancing : seeds[i] = seeds[j] => i = j
      /\ S!CutIsShown(seeds, public, Rule)
  BY <1>1, <1>2, BracketTakesTheCut DEF EndOfPlay
<1>4. \A x \in 1..Advancing : seeds[x] \in Teams /\ seeds[x] # None
  BY <1>3, LineAssumption
<1>5. PlayedOn(t, seeds)
  BY <1>2, <1>4, BracketPlayed
<1>6. Knockout(PlayedBracket, t)
  BY <1>2, <1>3, <1>4, <1>5, BracketIsKnockout
<1>7. PICK In : In = InRound(PlayedBracket, 1)
  OBVIOUS
<1>8. In = {seeds[x] : x \in 1..Advancing}
  BY <1>2, <1>4, <1>5, <1>7, FirstRoundTeams
<1>9. IsFiniteSet(In)
  <2>1. Advancing \in Nat
    BY LineAssumption
  <2>2. 1 \in Int /\ Advancing \in Int
    BY ONLY <2>1
  <2>3. IsFiniteSet(1..Advancing)
    BY <2>2, FS_Interval
  <2> QED
    BY <1>8, <2>3, ImageIsFinite
<1>10. PICK rows : rows = S!RowsAfter(public, 0)
  OBVIOUS
<1>11. /\ OfTeams(rows)
       /\ {x.team : x \in rows} = Teams
       /\ DOMAIN public = 1..k
       /\ \A p \in 1..k : \A i \in DOMAIN public[p] :
            public[p][i] \in rows /\ public[p][i].team \in Teams /\ public[p][i].rank \in Nat
  BY <1>1, <1>3, <1>10, RowsOfTeams
<1>12. PICK final, c : final = Placements /\ c = S!Champion(PlayedBracket)
  OBVIOUS
<1>13. final = S!FinalStandings(PlayedBracket, public)
  BY <1>2, <1>12 DEF Placements, PlayedBracket, EntryOf
<1>14. PlacedBy(final, PlayedBracket, t, rows)
  BY <1>6, <1>7, <1>9, <1>10, <1>11, <1>13, KnockoutIsPlaced
<1>15. /\ DOMAIN final = In \cup {x.team : x \in rows}
       /\ \A u \in DOMAIN final \ {c} : final[c] < final[u]
       /\ c \in In
       /\ \A e \in PlayedBracket : e.round = t => e.winner = c
       /\ \A e \in PlayedBracket : \A u \in TeamsOfMatch(e) : u # e.winner => final[e.winner] < final[u]
       /\ \A u \in In, v \in DOMAIN final \ In : final[u] < final[v]
       /\ \A x, y \in rows : x.team \notin In /\ y.team \notin In /\ x.rank < y.rank => final[x.team] < final[y.team]
  BY <1>7, <1>12, <1>14 DEF PlacedBy
<1>16. In \subseteq Teams
  BY <1>4, <1>8
<1>17. DOMAIN final = Teams
  BY <1>11, <1>15, <1>16
<1>18. ASSUME NEW m \in BracketMatches
       PROVE  /\ NextOf(m) = None => winner[m] = c
              /\ \A side \in Sides : slot[m][side] \notin {None, winner[m]} => final[winner[m]] < final[slot[m][side]]
  <2>1. PICK r \in 1..t : \E i \in 1..D!Pow2[t - r] : m = <<0, D!Position(t, r, i)>>
    BY <1>2, BracketPlaces
  <2>2. PICK i \in 1..D!Pow2[t - r] : m = PlaceAt(t, r, i)
    BY <2>1 DEF PlaceAt
  <2>3. PICK e : e = EntryAt(t, r, i)
    OBVIOUS
  <2>4. /\ e \in PlayedBracket
        /\ e.round = r /\ e.winner = WonAt(t, r, i)
        /\ \A x : x \in TeamsOfMatch(e) <=> \E a \in Sides : x = HeldAt(t, r, i, a) /\ x # None
    BY <1>2, <1>5, <2>3, EntryIs
  <2>5. NextOf(m) = None <=> r = t
    BY <1>2, <2>2, MatchAt
  <2>6. winner[m] = e.winner /\ \A side \in Sides : slot[m][side] = HeldAt(t, r, i, side)
    BY <2>2, <2>4 DEF WonAt, HeldAt
  <2>7. ASSUME NEW side \in Sides, slot[m][side] # None, slot[m][side] # winner[m]
        PROVE  final[winner[m]] < final[slot[m][side]]
    <3>1. slot[m][side] \in TeamsOfMatch(e)
      BY <2>4, <2>6, <2>7
    <3> QED
      BY <1>15, <2>4, <2>6, <2>7, <3>1
  <2> QED
    BY <1>15, <2>4, <2>5, <2>6, <2>7
<1>19. {seeds[x] : x \in DOMAIN seeds} = In
  BY <1>3, <1>8
<1>20. ASSUME NEW p \in DOMAIN public, NEW i \in DOMAIN public[p], NEW j \in DOMAIN public[p],
              NEW x, NEW y, x = public[p][i], y = public[p][j]
       PROVE  /\ x.team \in In /\ y.team \notin In => final[x.team] < final[y.team]
              /\ x.team \notin In /\ x.rank < y.rank => final[x.team] < final[y.team]
  <2>1. /\ x \in rows /\ x.team \in Teams /\ x.rank \in Nat
        /\ y \in rows /\ y.team \in Teams /\ y.rank \in Nat
    BY <1>11, <1>20
  <2>2. ASSUME x.team \notin In, y.team \in In
        PROVE  y.rank < x.rank
    <3>1. \E l \in DOMAIN seeds : seeds[l] = y.team
      BY <1>19, <2>2
    <3>2. ~\E l \in DOMAIN seeds : seeds[l] = x.team
      BY <1>19, <2>2
    <3> QED
      BY ONLY <1>3, <3>1, <3>2, p \in DOMAIN public, i \in DOMAIN public[p], j \in DOMAIN public[p],
              x = public[p][i], y = public[p][j], Zenon DEF S!CutIsShown
  <2>3. x.team \in In /\ y.team \notin In => final[x.team] < final[y.team]
    BY <1>15, <1>17, <2>1
  <2>4. x.team \notin In /\ x.rank < y.rank => y.team \notin In
    BY <2>1, <2>2
  <2> QED
    BY <1>15, <2>1, <2>3, <2>4
<1>21. \E champion \in Teams :
         /\ \A u \in Teams \ {champion} : final[champion] < final[u]
         /\ \A m \in BracketMatches : NextOf(m) = None => winner[m] = champion
  BY <1>15, <1>16, <1>17, <1>18
<1>22. WellPlaced(final, public, seeds)
  BY ONLY <1>17, <1>18, <1>19, <1>20, <1>21, Zenon DEF WellPlaced
<1> QED
  BY <1>2, <1>12, <1>22

-----------------------------------------------------------------------------
(* The way there. *)

\* A match that a step decides has a scoreline, or a winner of its own.
LEMMA NewlyDecided ==
  ASSUME IInv, [Next]_vars, NEW x \in Matches, ~Complete(x)
  PROVE  /\ status'[x] = "final" => agreed'[x] \in Scorelines
         /\ status'[x] = "forfeited" => winner'[x] \in {slot'[x][1], slot'[x][2]}
<1> DEFINE Fine == /\ status'[x] = "final" => agreed'[x] \in Scorelines
                   /\ status'[x] = "forfeited" => winner'[x] \in {slot'[x][1], slot'[x][2]}
<1>1. Shape /\ status[x] \notin {"final", "forfeited"}
  BY DEF IInv, Complete
<1>2. status' = status => Fine
  BY <1>1
<1>3. ASSUME NEW m \in Matches, NEW to, Talk(m, to)
      PROVE  Fine
  <2>1. status'[x] \in {status[x], to} /\ to \in {"awaiting_scores", "disputed"}
    BY <1>1, <1>3 DEF Talk, Shape
  <2> QED
    BY <1>1, <2>1
<1>4. ASSUME NEW m \in Matches, NEW line \in Scorelines, EnterAgreed(m, line)
      PROVE  Fine
  <2>1. agreed' = [agreed EXCEPT ![m] = line] /\ status' = [status EXCEPT ![m] = "final"]
    BY <1>4 DEF EnterAgreed
  <2>2. (x = m => agreed'[x] = line) /\ status'[x] = IF x = m THEN "final" ELSE status[x]
    BY <1>1, <2>1 DEF Shape
  <2> QED
    BY <1>1, <2>2
<1>5. ASSUME NEW m \in Matches, NEW side \in Sides, Forfeit(m, side)
      PROVE  Fine
  <2>1. status'[x] = IF x = m THEN "forfeited" ELSE status[x]
    BY <1>1, <1>5 DEF Forfeit, Shape
  <2>2. CASE x = m
    <3>1. winner'[m] = slot[m][3 - side]
      BY <1>1, <1>5 DEF Forfeit, Shape, IsFunction
    <3>2. slot'[m] = slot[m]
      BY <1>1, <1>5, OwnSlotKept DEF Forfeit
    <3> QED
      BY <2>1, <2>2, <3>1, <3>2 DEF Sides
  <2> QED
    BY <1>1, <2>1, <2>2
<1>6. CASE RunDraw
  <2>1. status'[x] \in {status[x], "bye", "scheduled"}
    BY <1>6 DEF RunDraw
  <2> QED
    BY <1>1, <2>1
<1>7. ASSUME NEW m \in Matches, NEW side \in Sides, NEW line \in Scorelines, SubmitFirst(m, side, line)
      PROVE  Fine
  BY <1>1, <1>7 DEF SubmitFirst, Shape
<1>8. ASSUME NEW m \in Matches, NEW side \in Sides, NEW line \in Scorelines, SubmitConflicting(m, side, line)
      PROVE  Fine
  BY <1>1, <1>8 DEF SubmitConflicting, Shape
<1>9. AwaitSettlement => Fine
  BY <1>2 DEF AwaitSettlement, result
<1>10. UNCHANGED vars => Fine
  BY <1>2 DEF vars, result
<1>11. ASSUME NEW m \in Matches, NEW side \in Sides, NEW line \in Scorelines,
              SubmitMatching(m, side, line) \/ ResolveDispute(m, line)
       PROVE  Fine
  <2>1. EnterAgreed(m, line)
    BY <1>11 DEF SubmitMatching, ResolveDispute
  <2> QED
    BY <1>4, <2>1
<1>12. ASSUME NEW m \in Matches, NEW line \in Scorelines, ResolveDispute(m, line)
       PROVE  Fine
  <2>1. 1 \in Sides
    BY DEF Sides
  <2> QED
    BY <1>11, <1>12, <2>1
<1> QED
  BY <1>5, <1>6, <1>7, <1>8, <1>9, <1>10, <1>11, <1>12 DEF Next

\* A step decides a match with a scoreline, or for one of its teams.
LEMMA StepDecided ==
  ASSUME IInv, Decided, [Next]_vars
  PROVE  Decided'
<1>1. ASSUME NEW x \in PoolGames
      PROVE  slot'[x] = x
  <2>1. x \in Matches /\ x \notin BracketMatches /\ slot[x] = x
    BY BracketLinks DEF Matches, LinksFormABracket, Decided
  <2>2. ASSUME NEW m \in Matches, NEW to, NEW w, Decide(m, to, w)
        PROVE  slot'[x] = slot[x]
    <3>1. NextOf(m) # None => m \in BracketMatches
      BY DEF NextOf, Matches
    <3>2. NextOf(m) = None \/ NextOf(m).match # x
      BY <2>1, <3>1, BracketLinks DEF LinksFormABracket
    <3> QED
      BY <2>1, <2>2, <3>2, AdvanceSlots DEF Decide, IInv
  <2>3. CASE RunDraw
    BY <2>1, <2>3 DEF RunDraw
  <2> QED
    BY <2>1, <2>2, <2>3, StepKinds DEF IInv, Talk, result
<1>2. ASSUME NEW x \in Matches
      PROVE  /\ status'[x] = "final" => agreed'[x] \in Scorelines
             /\ status'[x] = "forfeited" => winner'[x] \in {slot'[x][1], slot'[x][2]}
  <2>1. CASE Complete(x)
    BY <2>1, DecidedKept DEF Decided
  <2> QED
    BY <2>1, NewlyDecided
<1> QED
  BY <1>1, <1>2 DEF Decided

\* Play ends only when everything is decided.
LEMMA StepSettling ==
  ASSUME Settling, [Next]_vars
  PROVE  Settling'
<1>1. /\ tournament' \in {"live", "awaiting_settlement"} /\ luck' = luck
      /\ tournament' = "awaiting_settlement" => MaySettle /\ status' = status
  <2>1. CASE AwaitSettlement
    BY <2>1 DEF AwaitSettlement, result
  <2>2. CASE UNCHANGED vars
    BY <2>2 DEF vars, result, Settling
  <2>3. CASE Next /\ ~AwaitSettlement
    <3>1. tournament = "live" /\ UNCHANGED <<tournament, luck>>
      BY <2>3, Zenon DEF Next, SubmitFirst, SubmitMatching, SubmitConflicting, CanSubmit, ResolveDispute, Forfeit, RunDraw
    <3> QED
      BY <3>1
  <2> QED
    BY <2>1, <2>2, <2>3
<1>2. MaySettle /\ status' = status => MaySettle'
  BY DEF MaySettle, BracketDrawn, Complete
<1> QED
  BY <1>1, <1>2 DEF Settling

\* Everyone is placed, and as the play went, in every tournament that awaits its
\* settlement, whatever the pools, the bracket, the lots and the play
\* (finalStandings; tournaments.ts).
THEOREM EveryoneIsPlacedHolds == Spec => []EveryoneIsPlaced
<1>1. Init => Decided /\ Settling
  BY DEF Init, Decided, Settling, Matches
<1>2. IInv /\ Decided /\ Settling /\ [Next]_vars => (Decided /\ Settling)'
  BY StepDecided, StepSettling
<1>3. IInv /\ Decided /\ Settling => EveryoneIsPlaced
  <2> SUFFICES ASSUME IInv, Decided, Settling, tournament = "awaiting_settlement"
               PROVE  WellPlaced(Placements, PublicStandings, BracketSeeds)
    BY DEF EveryoneIsPlaced
  <2>1. MaySettle /\ luck \in Lucks
    BY DEF Settling
  <2>2. \A m \in Matches : Complete(m)
    BY <2>1 DEF MaySettle
  <2>3. PoolsPlayed
    BY <2>2 DEF PoolsPlayed, PoolPlayComplete, Decided, Matches
  <2>4. EndOfPlay
    BY <2>1, <2>2, <2>3 DEF EndOfPlay, Decided, Matches
  <2> QED
    BY <2>4, EndIsWellPlaced
<1> QED
  BY Invariant, <1>1, <1>2, <1>3, PTL DEF Spec

=============================================================================
