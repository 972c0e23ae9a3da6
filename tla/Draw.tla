-------------------------------- MODULE Draw --------------------------------
(***************************************************************************)
(* Draw generation (sideout domain/draw.ts): the seed line, the pools with *)
(* their round robins and court queues, and the single-elimination bracket *)
(* with its byes, links and court queues.  Pure and deterministic: the     *)
(* shuffle of the unseeded teams is an argument.                           *)
(*                                                                         *)
(* The code fills mutable lists in loops.  Here a pool, a round or a match *)
(* is stated by its index, and a place in a court's queue by the matches   *)
(* that come before it there.                                              *)
(***************************************************************************)
EXTENDS Integers, Sequences, Arrays

CONSTANT None      \* an absent team, seed or next match

CeilDiv(a, b) == (a + b - 1) \div b

\* The seed line: seeded teams by entry seed, then the others as shuffled.
OrderEntries(seeds, shuffled) ==
  Sorted({t \in DOMAIN seeds : seeds[t] # None}, LAMBDA x, y : seeds[x] < seeds[y])
    \o shuffled

-----------------------------------------------------------------------------
(* Pools.                                                                  *)

\* The smallest number of pools that keeps every pool at or under the size.
PoolCount(n, poolSize) == CeilDiv(n, poolSize)

SmallestPool(n, poolSize) == n \div PoolCount(n, poolSize)

Partitionable(n, poolSize) ==
  n >= 2 /\ poolSize >= 2 /\ SmallestPool(n, poolSize) >= 2

\* Fault: the line is dealt left to right every time.
PoolOfDealt(i, count) == 1 + ((i - 1) % count)

\* The pool of the i-th entry: dealt left to right, then right to left.
PoolOf(i, count) ==
  LET column == (i - 1) % count
  IN  IF ((i - 1) \div count) % 2 = 0 THEN 1 + column ELSE count - column

\* Each pool lists its entries in the order of the line.
PartitionIntoPools(entries, poolSize) ==
  LET count == PoolCount(Len(entries), poolSize)
      Places(p) == {i \in DOMAIN entries : PoolOf(i, count) = p}
      At(p, k) == CHOOSE i \in Places(p) : Cardinality({j \in Places(p) : j <= i}) = k
  IN  [p \in 1..count |-> [k \in 1..Cardinality(Places(p)) |-> entries[At(p, k)]]]

\* The circle method: the first place is fixed, the others turn by one each
\* round; an odd field gets an empty place to sit out against.
RingAt(ids, r) ==
  LET ring == IF Len(ids) % 2 = 1 THEN Append(ids, None) ELSE ids
      n    == Len(ring)
  IN  [i \in 1..n |-> IF i = 1 THEN ring[1] ELSE ring[2 + ((i - 2 + (n - 1) - r) % (n - 1))]]

RoundCount(ids) == IF Len(ids) % 2 = 1 THEN Len(ids) ELSE Len(ids) - 1

\* The teams that face each other across the ring, home first.
RoundPairs(ids, r) ==
  LET ring == RingAt(ids, r - 1)
      n    == Len(ring)
  IN  [i \in 1..(n \div 2) |->
         IF r % 2 = 1 THEN <<ring[i], ring[n + 1 - i]>> ELSE <<ring[n + 1 - i], ring[i]>>]

\* The matches of every round, by their place in it.
RoundRobinRounds(ids) ==
  [r \in 1..RoundCount(ids) |->
     LET pairs == RoundPairs(ids, r)
     IN  {[nth |-> i, a |-> pairs[i][1], b |-> pairs[i][2]] :
            i \in {i \in DOMAIN pairs : None \notin {pairs[i][1], pairs[i][2]}}}]

CourtOf(index, courts) == 1 + ((index - 1) % courts)

\* Every pool match, without its place on the court.
PoolFixtures(pools, courts) ==
  UNION {LET rounds == RoundRobinRounds(pools[p])
         IN  UNION {{[pool |-> p, round |-> r, nth |-> x.nth, a |-> x.a, b |-> x.b,
                      court |-> CourtOf(p, courts)] : x \in rounds[r]} : r \in DOMAIN rounds}
         : p \in DOMAIN pools}

\* Every pool's round before any next round, then by pool, then as listed.
QueuedBefore(x, y) ==
  \/ x.round < y.round
  \/ x.round = y.round /\ x.pool < y.pool
  \/ x.round = y.round /\ x.pool = y.pool /\ x.nth < y.nth

\* Fault: each pool queues its matches as if it had the court to itself.
CourtSlotOfPool(fixtures, m) ==
  Cardinality({x \in fixtures : x.pool = m.pool /\ QueuedBefore(x, m)})

\* The place of a match in its court's queue.
CourtSlot(fixtures, m) ==
  Cardinality({x \in fixtures : x.court = m.court /\ QueuedBefore(x, m)})

PoolMatches(entries, poolSize, courts) ==
  LET fixtures == PoolFixtures(PartitionIntoPools(entries, poolSize), courts)
  IN  {[pool |-> m.pool, round |-> m.round, a |-> m.a, b |-> m.b, court |-> m.court,
        slot |-> CourtSlot(fixtures, m)] : m \in fixtures}

-----------------------------------------------------------------------------
(* What the pools promise.                                                 *)

MembersOf(pool) == {pool[k] : k \in DOMAIN pool}

\* Pools of the places of an n-team line: each place is in one of them, once;
\* none has more than the size asked for or a team alone, and none a team more
\* than another but one; and over any two passes of the deal each gets the
\* same strength.
FairPools(n, poolSize, pools) ==
  /\ UNION {MembersOf(pools[p]) : p \in DOMAIN pools} = 1..n
  /\ \A p, q \in DOMAIN pools : p # q => MembersOf(pools[p]) \cap MembersOf(pools[q]) = {}
  /\ \A p \in DOMAIN pools : \A k, l \in DOMAIN pools[p] : k < l => pools[p][k] < pools[p][l]
  /\ \A p \in DOMAIN pools : Len(pools[p]) \in 2..poolSize
  /\ \A p, q \in DOMAIN pools : Len(pools[p]) - Len(pools[q]) <= 1
  /\ \A p, q \in DOMAIN pools : \A k \in 1..(Len(pools[p]) \div 2) :
       2 * k <= Len(pools[q]) =>
         pools[p][2 * k - 1] + pools[p][2 * k] = pools[q][2 * k - 1] + pools[q][2 * k]

\* Every two teams of a pool meet exactly once, and nobody else does; no team
\* plays twice in a round, and there are no more rounds than that takes.
RoundRobin(pools, matches) ==
  /\ \A p \in DOMAIN pools : \A s, t \in MembersOf(pools[p]) : s # t =>
       Cardinality({m \in matches : {m.a, m.b} = {s, t}}) = 1
  /\ \A m \in matches :
       /\ m.pool \in DOMAIN pools
       /\ {m.a, m.b} \subseteq MembersOf(pools[m.pool])
       /\ m.a # m.b
       /\ m.round \in 1..RoundCount(pools[m.pool])
  /\ \A x, y \in matches : x # y /\ x.round = y.round => {x.a, x.b} \cap {y.a, y.b} = {}

\* A court holds one match at a time; a team is on one match at a time, and on
\* that of an earlier round first.
OneMatchAtATime(matches) ==
  \A x, y \in matches : x # y =>
    /\ x.court = y.court => x.slot # y.slot
    /\ {x.a, x.b} \cap {y.a, y.b} # {} =>
         x.slot # y.slot /\ (x.round < y.round => x.slot < y.slot)

-----------------------------------------------------------------------------
(* Brackets.                                                               *)

Pow2[k \in Nat] == IF k = 0 THEN 1 ELSE 2 * Pow2[k - 1]

\* The rounds of the smallest bracket that holds n teams.
RoundsFor(n) == CHOOSE k \in 1..n : Pow2[k] >= n /\ (k = 1 \/ Pow2[k - 1] < n)

BracketSizeFor(n) == Pow2[RoundsFor(n)]

\* Standard placement of 2^k seeds: each seed of the smaller bracket is
\* followed by the one that makes up its size plus one.
SeedPlacement[k \in Nat] ==
  IF k = 0 THEN <<1>>
  ELSE [i \in 1..Pow2[k] |->
          LET seed == SeedPlacement[k - 1][(i + 1) \div 2]
          IN  IF i % 2 = 1 THEN seed ELSE Pow2[k] + 1 - seed]

\* Matches are numbered breadth first: round r holds size / 2^r of them.
Position(rounds, r, i) == Pow2[rounds] - Pow2[rounds - r + 1] + i

\* The seeds of the i-th match of round 1, None for a missing one.
FirstRoundSeeds(n, i) ==
  LET k == RoundsFor(n)
      Present(seed) == IF seed <= n THEN seed ELSE None
      placement == SeedPlacement[k]
  IN  <<Present(placement[2 * i - 1]), Present(placement[2 * i])>>

IsBye(n, r, i) == r = 1 /\ None \in {FirstRoundSeeds(n, i)[1], FirstRoundSeeds(n, i)[2]}

\* The seed that advances from a bye.
ByeSeed(n, i) == LET s == FirstRoundSeeds(n, i) IN IF s[1] # None THEN s[1] ELSE s[2]

\* Fault: a bye is left where the placement put it, for play to resolve.
DrawnSeedsUnresolved(n, r, i) == IF r = 1 THEN FirstRoundSeeds(n, i) ELSE <<None, None>>

\* The seeds a match is drawn with: round 1, and what byes bring to round 2.
DrawnSeeds(n, r, i) ==
  LET FromBye(j) == IF r = 2 /\ IsBye(n, 1, j) THEN ByeSeed(n, j) ELSE None
  IN  IF r = 1
      THEN IF IsBye(n, 1, i) THEN <<ByeSeed(n, i), None>> ELSE FirstRoundSeeds(n, i)
      ELSE <<FromBye(2 * i - 1), FromBye(2 * i)>>

\* The played matches of a round that come before its i-th.
PlayedBefore(n, r, i) == Cardinality({j \in 1..(i - 1) : ~IsBye(n, r, j)})

PlayedIn(n, r) == PlayedBefore(n, r, 1 + Pow2[RoundsFor(n) - r])

\* The first slot of a round: after the last one of the rounds before it, on
\* any court.
RoundFloor(n, r, courts) ==
  LET floor[q \in 1..r] == IF q = 1 THEN 0 ELSE floor[q - 1] + CeilDiv(PlayedIn(n, q - 1), courts)
  IN  floor[r]

\* The played matches of a round are dealt across the courts in turn.
BracketSlot(n, r, i, courts) == RoundFloor(n, r, courts) + PlayedBefore(n, r, i) \div courts

BracketCourt(n, r, i, courts) ==
  IF IsBye(n, r, i) THEN 1 ELSE CourtOf(1 + PlayedBefore(n, r, i), courts)

\* The bracket of n seeds, by position.
DrawBracket(n, courts) ==
  LET rounds == RoundsFor(n)
      index == UNION {{<<r, i>> : i \in 1..Pow2[rounds - r]} : r \in 1..rounds}
      At(pos) == CHOOSE x \in index : Position(rounds, x[1], x[2]) = pos
  IN  [pos \in 1..(Pow2[rounds] - 1) |->
         LET r == At(pos)[1]
             i == At(pos)[2]
         IN  [round |-> r, seeds |-> DrawnSeeds(n, r, i), bye |-> IsBye(n, r, i),
              next |-> IF r = rounds THEN None ELSE Position(rounds, r + 1, (i + 1) \div 2),
              slot |-> IF r = rounds THEN None ELSE 2 - (i % 2),
              court |-> BracketCourt(n, r, i, courts),
              time |-> IF IsBye(n, r, i) THEN 0 ELSE BracketSlot(n, r, i, courts)]]

-----------------------------------------------------------------------------
(* What a bracket promises.                                                *)

RoundOf(bracket, r) == {pos \in DOMAIN bracket : bracket[pos].round = r}

Feeders(bracket, pos, side) == {x \in DOMAIN bracket : bracket[x].next = pos /\ bracket[x].slot = side}

\* The best seed that can come out of each match.
BestOf(bracket) ==
  LET best[pos \in DOMAIN bracket] ==
        LET Into(side) == IF Feeders(bracket, pos, side) = {} THEN bracket[pos].seeds[side]
                          ELSE best[CHOOSE x \in Feeders(bracket, pos, side) : TRUE]
        IN  IF bracket[pos].bye THEN bracket[pos].seeds[1]
            ELSE IF Into(1) < Into(2) THEN Into(1) ELSE Into(2)
  IN  best

\* A bracket of n seeds: no larger than they need, each of them in the first
\* round, the byes those of the top seeds, who stand in their next match
\* already; every side of a later match is fed by one match of the round
\* before; and if the better seed always wins, each round is the top half of the
\* one before, drawn best against worst.
FairBracket(n, bracket) ==
  LET size == Len(bracket) + 1
      best == BestOf(bracket)
  IN  /\ size >= n /\ size < 2 * n
      /\ {bracket[pos].seeds[side] : pos \in RoundOf(bracket, 1), side \in {1, 2}} \ {None} = 1..n
      /\ {bracket[pos].seeds[1] : pos \in {x \in DOMAIN bracket : bracket[x].bye}} = 1..(size - n)
      /\ \A pos \in DOMAIN bracket : bracket[pos].round > 1 =>
           \E x, y \in RoundOf(bracket, bracket[pos].round - 1) :
             /\ Feeders(bracket, pos, 1) = {x}
             /\ Feeders(bracket, pos, 2) = {y}
             /\ bracket[pos].seeds = <<IF bracket[x].bye THEN bracket[x].seeds[1] ELSE None,
                                      IF bracket[y].bye THEN bracket[y].seeds[1] ELSE None>>
             /\ best[x] + best[y] = 2 * Cardinality(RoundOf(bracket, bracket[pos].round)) + 1

\* The matches played start one at a time on each court, and after both that
\* feed them.
PlayedInOrder(bracket, courts) ==
  \A x, y \in DOMAIN bracket : ~bracket[x].bye /\ ~bracket[y].bye /\ x # y =>
    /\ bracket[x].court \in 1..courts
    /\ bracket[x].court = bracket[y].court => bracket[x].time # bracket[y].time
    /\ bracket[x].next = y => bracket[x].time < bracket[y].time

=============================================================================
