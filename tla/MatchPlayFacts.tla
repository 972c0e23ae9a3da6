---------------------------- MODULE MatchPlayFacts ----------------------------
(***************************************************************************)
(* What the proofs about Draw, Standings and MatchPlay speak of: the       *)
(* shapes of pools, tables, cut lines and brackets, the invariant of play  *)
(* and what there is once all is played.  Nothing here is of the model     *)
(* itself.                                                                 *)
(***************************************************************************)
EXTENDS MatchPlay, FiniteSets, Sequences

-----------------------------------------------------------------------------
(* The pools.                                                              *)

\* The place on the line of the k-th team of pool p: the k-th pass of the
\* deal, left to right in the odd passes.
PlaceOf(p, k, c) == c * (k - 1) + (IF k % 2 = 1 THEN p ELSE c + 1 - p)

\* How many of n teams pool p is dealt.
PoolLen(n, c, p) == IF PlaceOf(p, (n \div c) + 1, c) <= n THEN (n \div c) + 1 ELSE n \div c

-----------------------------------------------------------------------------
(* The circle method.                                                      *)

\* Where the circle of n places stands after q turns: the place that has come
\* to the i-th position.
Spot(n, q, i) == IF i = 1 THEN 1 ELSE 2 + ((i - 2 + (n - 1) - q) % (n - 1))

\* The places of the circle of a pool: an even number of them.
RingSize(ids) == IF Len(ids) % 2 = 1 THEN Len(ids) + 1 ELSE Len(ids)

\* Who starts at a place of the circle.
Seat(ids, i) == IF i <= Len(ids) THEN ids[i] ELSE None

\* A pool of the draw: two teams or more, each once.
IsPool(ids) ==
  /\ ids \in Seq({ids[i] : i \in DOMAIN ids})
  /\ Len(ids) >= 2
  /\ \A i, j \in DOMAIN ids : ids[i] = ids[j] => i = j
  /\ \A i \in DOMAIN ids : ids[i] # None

\* The i-th pair of round r has two teams in it.
IsGame(ids, r, i) ==
  /\ r \in 1..D!RoundCount(ids)
  /\ i \in DOMAIN D!RoundPairs(ids, r)
  /\ None \notin {D!RoundPairs(ids, r)[i][1], D!RoundPairs(ids, r)[i][2]}

TeamsOfGame(ids, r, i) == {D!RoundPairs(ids, r)[i][1], D!RoundPairs(ids, r)[i][2]}

-----------------------------------------------------------------------------
(* The fixtures of the pools.                                              *)

\* The game a pool match is, before it has its place on the court.
FixtureOf(pools, courts, p, r, i) ==
  [pool |-> p, round |-> r, nth |-> i, a |-> D!RoundPairs(pools[p], r)[i][1],
   b |-> D!RoundPairs(pools[p], r)[i][2], court |-> D!CourtOf(p, courts)]

\* Pools of a draw: no team is in two of them.
ArePools(pools) ==
  /\ \A p \in DOMAIN pools : IsPool(pools[p])
  /\ \A p, q \in DOMAIN pools : p # q => D!MembersOf(pools[p]) \cap D!MembersOf(pools[q]) = {}

-----------------------------------------------------------------------------
(* Sequences defined by their first value and the next.                    *)

\* The first values of a sequence defined by its first and by the next one.
StartOf(f, n, a, g) ==
  /\ DOMAIN f = 0..n
  /\ f[0] = a
  /\ \A k \in 0..(n - 1) : f[k + 1] = g[k][f[k]]

\* The whole sequence.
Continues(f, V, a, g) ==
  /\ f \in [Nat -> V]
  /\ f[0] = a
  /\ \A k \in Nat : f[k + 1] = g[k][f[k]]

-----------------------------------------------------------------------------
(* The bracket.                                                            *)

\* The i-th match of round r as it is drawn.
DrawnMatch(n, t, courts, r, i) ==
  [round |-> r, seeds |-> D!DrawnSeeds(n, r, i), bye |-> D!IsBye(n, r, i),
   next |-> IF r = t THEN None ELSE D!Position(t, r + 1, (i + 1) \div 2),
   slot |-> IF r = t THEN None ELSE 2 - (i % 2),
   court |-> D!BracketCourt(n, r, i, courts),
   time |-> IF D!IsBye(n, r, i) THEN 0 ELSE D!BracketSlot(n, r, i, courts)]

-----------------------------------------------------------------------------
(* The draw of the tournament.                                             *)

\* The links are those of a bracket: no two matches feed one side, a bye feeds
\* its own seed, and what else feeds a side finds it without one.
LinksFormABracket ==
  /\ PoolGames \cap BracketMatches = {}
  /\ \A m \in BracketMatches : NextOf(m) # None =>
       /\ NextOf(m).match \in BracketMatches \ {m}
       /\ NextOf(m).side \in Sides
       /\ ~IsBye(NextOf(m).match)
       /\ SeedOf(NextOf(m).match, NextOf(m).side) = IF IsBye(m) THEN SeedOf(m, 1) ELSE None
  /\ \A f, g \in BracketMatches :
       /\ NextOf(f) # None /\ NextOf(g) # None
       /\ NextOf(f).match = NextOf(g).match /\ NextOf(f).side = NextOf(g).side
       => f = g

-----------------------------------------------------------------------------
(* Sorting.                                                                *)

\* R puts the members of T in one order.
TotalOrder(R, T) ==
  /\ \A x \in T : <<x, x>> \notin R
  /\ \A x, y \in T : x # y => <<x, y>> \in R \/ <<y, x>> \in R
  /\ \A x, y, z \in T : <<x, y>> \in R /\ <<y, z>> \in R => <<x, z>> \in R

\* The list s has the members of T in the order R, each once.
InOrder(s, T, R) ==
  /\ s \in [1..Cardinality(T) -> T]
  /\ \A x \in T : \E i \in 1..Cardinality(T) : s[i] = x
  /\ \A i, j \in 1..Cardinality(T) : i < j => <<s[i], s[j]>> \in R

\* Each place of the order R is somebody's.
EveryPlaceTaken(T, R) ==
  \A i \in 1..Cardinality(T) : \E x \in T : Cardinality({y \in T : <<y, x>> \in R}) = i - 1

-----------------------------------------------------------------------------
(* The rows of a table.                                                    *)

Rows ==
  [team : Nat, played : Nat, wins : Nat, setsWon : Nat, setsLost : Nat, scored : Nat, conceded : Nat,
   rank : Nat, lot : BOOLEAN]

-----------------------------------------------------------------------------
(* Sums of natural numbers.                                                *)

\* g has the sum of f over every part of T.
SumsOf(g, f, T) ==
  /\ g \in [SUBSET T -> Nat]
  /\ g[{}] = 0
  /\ \A s \in SUBSET T : \A x \in s : g[s] = f[x] + g[s \ {x}]

-----------------------------------------------------------------------------
(* Ranks.                                                                  *)

\* E divides T into classes that stand together in the order R.
Classes(E, R, T) ==
  /\ \A x \in T : <<x, x>> \in E
  /\ \A x, y \in T : <<x, y>> \in E => <<y, x>> \in E
  /\ \A x, y, z \in T : <<x, y>> \in E /\ <<y, z>> \in E => <<x, z>> \in E
  /\ \A x, y, z \in T : <<x, y>> \in R /\ <<y, z>> \in R /\ <<x, z>> \in E => <<x, y>> \in E

\* Competition ranking: one behind those ahead of the whole class of x.
ClassRank(x, T, R, E) == 1 + Cardinality({y \in T : <<y, x>> \in R /\ <<y, x>> \notin E})

-----------------------------------------------------------------------------
(* The table of a pool.                                                    *)

\* Results as they are counted: finitely many, each of points in sets.
Counted(results) == IsFiniteSet(results) /\ \A m \in results : m.sets \in Seq(Nat \X Nat)

PlayedBy(t, results) == {m \in results : t \in {m.a, m.b}}

\* Q are rows of one pool, one to a team, whatever ranks they were given.
OfPool(Q, rows) ==
  /\ Q \in SUBSET Rows
  /\ \A x, y \in Q : x.team = y.team => x = y
  /\ \A x \in Q : \E w \in rows : w.team = x.team /\ w.wins = x.wins

\* Rows that share a rank.
Shares(x, y, rows, results) ==
  S!LevelOnCompetitiveKeys(x, y) /\ ~S!HeadToHeadDecides(x, y, rows, results)

\* Rows of one team's record, whatever their rank.
SameRecord(x, u) ==
  /\ u.team = x.team /\ u.played = x.played /\ u.wins = x.wins
  /\ u.setsWon = x.setsWon /\ u.setsLost = x.setsLost
  /\ u.scored = x.scored /\ u.conceded = x.conceded

\* The teams of a pool have met, each two of them once and nobody else.
PlayedOut(T, results) ==
  /\ IsFiniteSet(T) /\ T \subseteq Nat
  /\ Counted(results)
  /\ \A m \in results : m.a # m.b /\ {m.a, m.b} \subseteq T
  /\ \A s, t \in T : s # t => \E m \in results : {m.a, m.b} = {s, t}
  /\ \A m, o \in results : {m.a, m.b} = {o.a, o.b} => m = o

\* A table of the teams T: one row for each, best first.  Rows that share a
\* rank are level on every key and stand together from that place on, in the
\* order of their ids.
Table(rows, T) ==
  /\ Cardinality(T) \in Nat
  /\ rows \in [1..Cardinality(T) -> Rows]
  /\ {rows[i].team : i \in 1..Cardinality(T)} = T
  /\ \A i, j \in 1..Cardinality(T) : rows[i].team = rows[j].team => i = j
  /\ \A i \in 1..Cardinality(T) : rows[i].rank \in 1..i
  /\ \A i, j \in 1..Cardinality(T) : i < j =>
       /\ rows[i].rank # rows[j].rank => i < rows[j].rank
       /\ rows[i].rank = rows[j].rank =>
            S!LevelAcrossPools(rows[i], rows[j]) /\ rows[i].team < rows[j].team

-----------------------------------------------------------------------------
(* Lots.                                                                   *)

\* A lot orders the teams T.
IsLot(lots, T) ==
  /\ \A t \in T : lots[t] \in Int
  /\ \A s, t \in T : lots[s] = lots[t] => s = t

\* b numbers the places one by one.
CountsUp(b, places) ==
  /\ b \in [places -> 1..Cardinality(places)]
  /\ \A i, j \in places : i < j => b[i] < b[j]
  /\ \A k \in 1..Cardinality(places) : \E i \in places : b[i] = k

\* The places of one rank, or none.
OneRank(rows, places, n) ==
  /\ places \subseteq 1..n
  /\ \A i \in places, j \in 1..n : j \in places <=> rows[j].rank = rows[i].rank

\* Those at the places are the same ones in the order of their lots, each with
\* its place for its rank.
LotsDrawn(new, rows, places, n, lots) ==
  /\ \A i \in places : new[i].rank = i /\ \E j \in places : SameRecord(rows[j], new[i])
  /\ \A i \in (1..n) \ places : new[i] = rows[i]
  /\ \A i, j \in places : i < j => lots[new[i].team] < lots[new[j].team]

\* No rank is shared across the cut.
CutApart(rows, n, perPool) ==
  \A i, j \in 1..n : i <= perPool /\ perPool < j => rows[i].rank # rows[j].rank

-----------------------------------------------------------------------------
(* The order across pools.                                                 *)

\* Rows of different teams.
OfTeams(A) == A \in SUBSET Rows /\ IsFiniteSet(A) /\ \A x, y \in A : x.team = y.team => x = y

\* Rows of one rank that are level on every key.
Even(x, y) == x.rank = y.rank /\ S!LevelAcrossPools(x, y)

\* C is the class of even rows a cut after the n-th of s goes through, if any.
CutClass(C, s, A, m, n) ==
  /\ C \in SUBSET A
  /\ \A x, y \in C : Even(x, y)
  /\ \A x \in C, y \in A : Even(x, y) => y \in C
  /\ \A a, b \in 1..m : a <= n /\ n < b /\ Even(s[a], s[b]) => s[a] \in C

\* The wildcards' order: by place and strength, the class by its lot.
WildOrder(A, C, lots) ==
  {xy \in A \X A : IF xy[1] \in C /\ xy[2] \in C THEN lots[xy[1].team] < lots[xy[2].team]
                   ELSE S!ByPlaceThenStrength(xy[1], xy[2])}

\* Whoever is not of the class stands in o where it does in s.
OthersStay(o, s, A, C, m) == \A x \in A \ C : \A k \in 1..m : o[k] = x <=> s[k] = x

-----------------------------------------------------------------------------
(* The cut lines.                                                          *)

\* A table for each of k pools of different teams.
Tables(pools, F, k) ==
  /\ pools = [p \in 1..k |-> pools[p]]
  /\ \A p \in 1..k : Table(pools[p], F[p])
  /\ \A p, q \in 1..k : p # q => F[p] \cap F[q] = {}

TeamsIn(F, k) == UNION {F[p] : p \in 1..k}

\* A holds the rows of the tables after a place, or up to it.
AfterPlace(A, pools, F, k, place) ==
  \A x : x \in A <=> \E p \in 1..k : \E i \in 1..Cardinality(F[p]) : i > place /\ x = pools[p][i]

UpToPlace(A, pools, F, k, place) ==
  \A x : x \in A <=> \E p \in 1..k : \E i \in 1..Cardinality(F[p]) : i <= place /\ x = pools[p][i]

\* Of every pool the first rows advance, those at its places and then those
\* taken, and no row below them shares their rank.
CutIsFair(pools, F, k, perPool, taken) ==
  \A p \in 1..k : \A i, j \in 1..Cardinality(F[p]) :
    /\ i < j /\ perPool < i /\ pools[p][j].team \in taken => pools[p][i].team \in taken
    /\ (i <= perPool \/ pools[p][i].team \in taken) /\ perPool < j /\ pools[p][j].team \notin taken
         => pools[p][i].rank < pools[p][j].rank

\* The row at i of the new table was at some j of the old one: in i's stead,
\* if both are tied.
CameFrom(new, rows, n, perPool, tied) ==
  \A i \in 1..n : \E j \in 1..n :
    /\ SameRecord(rows[j], new[i]) /\ rows[j].rank = rows[i].rank
    /\ (i > perPool <=> j > perPool)
    /\ (rows[i] \in tied <=> rows[j] \in tied)
    /\ (rows[i] \notin tied => new[i] = rows[i] /\ i = j)

TiedAreDrawn(new, rows, n, perPool, tied, lots) ==
  \A i, j \in 1..n :
    /\ (i < j /\ rows[i] \in tied /\ rows[j] \in tied => lots[new[i].team] < lots[new[j].team])
    /\ (rows[i] \in tied => new[i].rank = i /\ i > perPool)
    /\ (rows[i] \in tied => (rows[j] \in tied <=> rows[j].rank = rows[i].rank))

\* The cut is fair, and nobody comes to be below the places or leaves there.
TakenFairly(pools, F, k, perPool, taken, A) ==
  /\ Tables(pools, F, k)
  /\ CutIsFair(pools, F, k, perPool, taken)
  /\ {x.team : x \in S!RowsAfter(pools, perPool)} = {x.team : x \in A}

\* The tables and the wildcards' order as the lot across pools leaves them.
LotAcross(res, cut, k, tied, lots, A, m) ==
  /\ res.pools = [p \in 1..k |-> S!DrawLots(cut[p], {i \in DOMAIN cut[p] : cut[p][i] \in tied}, lots)]
  /\ \E o : InOrder(o, A, WildOrder(A, tied, lots)) /\ res.wildcards = [i \in 1..m |-> o[i].team]

\* The wildcards taken.
Taken(res, w) == {res.wildcards[i] : i \in 1..w}

\* No rank is shared across the cut of a pool.
CutsApart(pools, F, k, perPool) == \A p \in 1..k : CutApart(pools[p], Cardinality(F[p]), perPool)

\* R is the order by place and strength.
ByStrength(R, A) == \A x, y \in A : <<x, y>> \in R <=> S!ByPlaceThenStrength(x, y)

-----------------------------------------------------------------------------
(* The cut lines resolved.                                                 *)

\* The cuts of the pools drawn by lot.
CutsDrawn(pools, perPool, lots) == S!Mapped(pools, LAMBDA rows : S!DrawLots(rows, S!TiedAtCut(rows, perPool), lots))

\* The cut lines are resolved: tables still, the cut of each pool fair, and as
\* many wildcards taken from below it as the rule says.
Resolved(res, F, k, perPool, w) ==
  /\ Tables(res.pools, F, k)
  /\ CutIsFair(res.pools, F, k, perPool, Taken(res, w))
  /\ Taken(res, w) \subseteq {x.team : x \in S!RowsAfter(res.pools, perPool)}
  /\ IsFiniteSet(Taken(res, w)) /\ Cardinality(Taken(res, w)) = w

\* As many rows as the pools have left after a place.
LeftAfter(F, k, place) ==
  S!SumFunction([p \in 1..k |-> IF Cardinality(F[p]) > place THEN Cardinality(F[p]) - place ELSE 0])

-----------------------------------------------------------------------------
(* The seeds.                                                              *)

\* The seeds are n different teams: of every pool those at its places and the
\* wildcards taken from it.
SeededFrom(seeds, pools, F, k, perPool, taken, n) ==
  /\ n \in Nat
  /\ seeds \in [1..n -> TeamsIn(F, k)]
  /\ \A i, j \in 1..n : seeds[i] = seeds[j] => i = j
  /\ \A p \in 1..k : \A i \in 1..Cardinality(F[p]) :
       (\E l \in 1..n : seeds[l] = pools[p][i].team) <=> (i <= perPool \/ pools[p][i].team \in taken)

\* As many rows as the pools have up to a place.
TopOf(F, k, place) ==
  S!SumFunction([p \in 1..k |-> IF Cardinality(F[p]) < place THEN Cardinality(F[p]) ELSE place])

\* Standings of k pools of different teams that have played out.
StandingsOfPools(pools, F, k) ==
  /\ \A p, q \in 1..k : p # q => F[p] \cap F[q] = {}
  /\ \E results : /\ \A p \in 1..k : PlayedOut(F[p], results[p])
                  /\ pools = [p \in 1..k |-> S!ComputeStandings(F[p], results[p])]

-----------------------------------------------------------------------------
(* The final placements.                                                   *)

\* Sets that shrink step by step from the first to the one after the n-th.
Shrinking(Z, n) == \A r \in 1..n : Z[r + 1] \subseteq Z[r]

\* The groups of those who leave, the last to leave first.
GroupsOf(Z, n) == [g \in 1..(n + 1) |-> IF g = 1 THEN Z[n + 1] ELSE Z[n + 2 - g] \ Z[n + 3 - g]]

InGroup(G, n, x, g) == g \in 1..(n + 1) /\ x \in G[g]

Ahead(G, g) == UNION {G[h] : h \in 1..(g - 1)}

\* The teams of a match, one in a bye, and those of a round.
TeamsOfMatch(m) == IF m.bye THEN {m.a} ELSE {m.a, m.b}

InRound(B, r) == {t \in UNION {TeamsOfMatch(m) : m \in B} : \E m \in B : m.round = r /\ t \in TeamsOfMatch(m)}

WinsIn(B, r, t) == \E m \in B : m.round = r /\ m.winner = t

\* Single elimination: one final; nobody plays two matches of a round, one of
\* those who play wins, and the winners play the next round.
Knockout(B, n) ==
  /\ n \in Nat \ {0}
  /\ \A m \in B : m.round \in 1..n /\ m.winner \in TeamsOfMatch(m) /\ (m.bye \/ m.a # m.b)
  /\ \E final \in B : final.round = n /\ \A m \in B : m.round = n => m = final
  /\ \A m, o \in B : \A t \in TeamsOfMatch(m) \cap TeamsOfMatch(o) : m.round = o.round => m = o
  /\ \A r \in 1..n, t \in UNION {TeamsOfMatch(m) : m \in B} : r # n => (WinsIn(B, r, t) <=> t \in InRound(B, r + 1))

\* The teams that reach a round; after the last, the one who wins it.
Reaching(B, n) ==
  [r \in 1..(n + 1) |-> IF r = n + 1 THEN {S!Champion(B)} ELSE InRound(B, r)]

\* Placements that a bracket and the rows of the pools account for.
PlacedBy(final, B, n, rows) ==
  /\ DOMAIN final = InRound(B, 1) \cup {x.team : x \in rows}
  /\ \A t \in DOMAIN final \ {S!Champion(B)} : final[S!Champion(B)] < final[t]
  /\ S!Champion(B) \in InRound(B, 1)
  /\ \A m \in B : m.round = n => m.winner = S!Champion(B)
  /\ \A m \in B : \A t \in TeamsOfMatch(m) : t # m.winner => final[m.winner] < final[t]
  /\ \A t \in InRound(B, 1), u \in DOMAIN final \ InRound(B, 1) : final[t] < final[u]
  /\ \A x, y \in rows : x.team \notin InRound(B, 1) /\ y.team \notin InRound(B, 1) /\ x.rank < y.rank
                        => final[x.team] < final[y.team]

\* The placements by groups of those placed and by the rows left.
PlacementsBy(G, placed, left) ==
  LET Group(t) == CHOOSE g \in DOMAIN G : t \in G[g]
      Row(t)   == CHOOSE x \in left : x.team = t
  IN  [t \in placed \cup {x.team : x \in left} |->
         1 + IF t \in placed
             THEN S!Cardinality(UNION {G[g] : g \in 1..(Group(t) - 1)})
             ELSE S!Cardinality(placed) + S!Cardinality({y \in left : S!BehindOutside(Row(t), y)})]

-----------------------------------------------------------------------------
(* The pools of the tournament.                                            *)

\* The teams of each pool.
PoolTeams == [p \in DOMAIN Pools |-> TeamsOf(Pools[p])]

\* k pools of different teams, every team in one of them.
PoolsOfTeams(k) ==
  /\ k \in Nat
  /\ DOMAIN Pools = 1..k
  /\ \A p \in 1..k : IsFiniteSet(PoolTeams[p]) /\ Cardinality(PoolTeams[p]) = Len(Pools[p]) /\ Len(Pools[p]) \in Nat
  /\ \A p, q \in 1..k : p # q => PoolTeams[p] \cap PoolTeams[q] = {}
  /\ TeamsIn(PoolTeams, k) = Teams

\* The games of the pools are those of their round robins.
RoundRobinGames ==
  /\ IsFiniteSet(PoolGames)
  /\ \A m \in PoolGames : m[1] # m[2] /\ \E p \in DOMAIN Pools : {m[1], m[2]} \subseteq TeamsOf(Pools[p])
  /\ \A p \in DOMAIN Pools : \A s, t \in TeamsOf(Pools[p]) : s # t => \E m \in PoolGames : {m[1], m[2]} = {s, t}
  /\ \A m, o \in PoolGames : {m[1], m[2]} = {o[1], o[2]} => m = o

\* The pools have played, each game by the teams it was made for, and what is
\* final has a scoreline.
PoolsPlayed ==
  /\ PoolPlayComplete
  /\ \A m \in PoolGames : slot[m] = m
  /\ \A m \in Matches : status[m] = "final" => agreed[m] \in Scorelines

ResultFor(m) ==
  [a |-> slot[m][1], b |-> slot[m][2], winner |-> winner[m],
   sets |-> IF status[m] = "final" THEN agreed[m].sets ELSE <<>>]

-----------------------------------------------------------------------------
(* The rounds of the tournament's bracket.                                 *)

PlaceAt(t, r, i) == <<0, D!Position(t, r, i)>>

\* The seed on a side of the i-th match of the first round.
SeedAt(i, side) == D!DrawnSeeds(Advancing, 1, i)[side]

\* The seeds stand in the places of the first round, each of them once.
StandOnce(places) ==
  /\ \A i \in places : SeedAt(i, 1) \in 1..Advancing
  /\ \A i \in places : SeedAt(i, 2) \in (1..Advancing) \cup {None}
  /\ \A i, j \in places, a, b \in Sides : SeedAt(i, a) = SeedAt(j, b) /\ SeedAt(i, a) # None => i = j /\ a = b
  /\ \A x \in 1..Advancing : \E i \in places, a \in Sides : SeedAt(i, a) = x

-----------------------------------------------------------------------------
(* The service.                                                            *)

Statuses == {"undrawn", "scheduled", "awaiting_scores", "disputed", "final", "forfeited", "bye"}

IsFunction(f) == f = [m \in Matches |-> f[m]]

\* The variables are functions over the matches, a slot holds two sides.
Shape ==
  /\ status \in [Matches -> Statuses]
  /\ IsFunction(winner)
  /\ IsFunction(slot)
  /\ \A m \in Matches : slot[m] = <<slot[m][1], slot[m][2]>>
  /\ consensus \in [Matches -> {"none", "awaiting_second", "disputed", "agreed"}]
  /\ agreed \in [Matches -> Scorelines \cup {None}]
  /\ said \in [Matches -> [Sides -> Scorelines \cup {None}]]
  /\ ruled \in [Matches -> Scorelines \cup {None}]

\* What the status of a match says of its consensus.
Heard(m) ==
  /\ status[m] \in {"undrawn", "scheduled", "bye"} =>
       consensus[m] = "none" /\ said[m] = <<None, None>> /\ ruled[m] = None
  /\ status[m] = "awaiting_scores" => consensus[m] = "awaiting_second" /\ ruled[m] = None
  /\ status[m] = "disputed" =>
       /\ consensus[m] = "disputed"
       /\ None \notin {said[m][1], said[m][2]}
       /\ said[m][1] # said[m][2]
       /\ ruled[m] = None

\* What ResultStands says of a final match.
Stands(m) ==
  /\ consensus[m] = "agreed"
  /\ winner[m] = slot[m][agreed[m].won]
  /\ \/ ruled[m] = None /\ said[m] = <<agreed[m], agreed[m]>>
     \/ /\ ruled[m] = agreed[m]
        /\ None \notin {said[m][1], said[m][2]}
        /\ said[m][1] # said[m][2]

\* A match is played by two teams.
PlayedByTwo == \A m \in Matches : Started(m) => Populated(m)

\* A side of a bracket match holds the winner of the match that feeds it, and
\* nobody while that match is open.
Linked ==
  /\ \A m \in Matches : ~Complete(m) => winner[m] = None
  /\ \A f \in BracketMatches :
       NextOf(f) # None => slot[NextOf(f).match][NextOf(f).side] = winner[f]

\* A bracket is drawn once the pools are played out, and its byes are byes.
DrawnFromPools ==
  /\ \A m \in PoolGames : status[m] \notin {"undrawn", "bye"}
  /\ \A m \in BracketMatches :
       /\ status[m] # "undrawn" => PoolPlayComplete
       /\ status[m] = "bye" => IsBye(m) /\ winner[m] = SeededTeam(BracketSeeds, SeedOf(m, 1))

\* A drawn side that nothing feeds holds its seed.
Seeded ==
  \A m \in BracketMatches, side \in Sides :
    status[m] # "undrawn" /\ ~(\E f \in BracketMatches : Feeds(f, m, side))
      => slot[m][side] = SeededTeam(BracketSeeds, SeedOf(m, side))

IInv ==
  /\ Shape
  /\ \A m \in Matches : Heard(m)
  /\ ResultStands
  /\ PlayedByTwo
  /\ Linked
  /\ DrawnFromPools
  /\ Seeded

\* A step of an open match that leaves it open.
Talk(m, to) ==
  /\ status[m] \in {"scheduled", "awaiting_scores", "disputed"}
  /\ Populated(m)
  /\ to \in {"awaiting_scores", "disputed"}
  /\ status' = [status EXCEPT ![m] = to]
  /\ UNCHANGED <<luck, slot, winner, agreed>>

\* A step that decides an open match.
Decide(m, to, w) ==
  /\ status[m] \in {"scheduled", "awaiting_scores", "disputed"}
  /\ Populated(m)
  /\ to \in {"final", "forfeited"}
  /\ w # None
  /\ status' = [status EXCEPT ![m] = to]
  /\ winner' = [winner EXCEPT ![m] = w]
  /\ slot' = Advance(m, w)
  /\ \A x \in Matches \ {m} : agreed'[x] = agreed[x]
  /\ UNCHANGED luck

-----------------------------------------------------------------------------
(* The bracket once it is played out.                                      *)

\* Every bracket match is decided, after pools that have played, and a match
\* forfeited is won by one of its teams.
EndOfPlay ==
  /\ IInv
  /\ PoolsPlayed
  /\ luck \in Lucks
  /\ \A m \in BracketMatches : Complete(m)
  /\ \A m \in Matches : status[m] = "forfeited" => winner[m] \in {slot[m][1], slot[m][2]}

HeldAt(t, r, i, a) == slot[PlaceAt(t, r, i)][a]

WonAt(t, r, i) == winner[PlaceAt(t, r, i)]

ByeAt(t, r, i) == status[PlaceAt(t, r, i)] = "bye"

\* The matches of a bracket of t rounds have had their winners: the team of a
\* bye, in the first round only, and one of the two teams of any other match;
\* they fill the next round, and the seeds the first.
PlayedOn(t, seeds) ==
  /\ \A r \in 1..t : \A i \in 1..D!Pow2[t - r] :
       /\ ByeAt(t, r, i) => r = 1 /\ HeldAt(t, r, i, 2) = None /\ WonAt(t, r, i) = HeldAt(t, r, i, 1)
       /\ ~ByeAt(t, r, i) => WonAt(t, r, i) \in {HeldAt(t, r, i, 1), HeldAt(t, r, i, 2)} /\ HeldAt(t, r, i, 2) # None
       /\ HeldAt(t, r, i, 1) # None /\ WonAt(t, r, i) # None
       /\ r # t => HeldAt(t, r + 1, (i + 1) \div 2, 2 - (i % 2)) = WonAt(t, r, i)
  /\ \A i \in 1..D!Pow2[t - 1], a \in Sides : HeldAt(t, 1, i, a) = SeededTeam(seeds, SeedAt(i, a))

\* The same of a match m that is the i-th of round r.
HasItsWinner(m, t, seeds, r, i) ==
  /\ status[m] = "bye" => r = 1 /\ slot[m][2] = None /\ winner[m] = slot[m][1]
  /\ status[m] # "bye" => winner[m] \in {slot[m][1], slot[m][2]} /\ slot[m][2] # None
  /\ slot[m][1] # None /\ winner[m] # None
  /\ r # t => slot[PlaceAt(t, r + 1, (i + 1) \div 2)][2 - (i % 2)] = winner[m]
  /\ r = 1 => \A a \in Sides : slot[m][a] = SeededTeam(seeds, SeedAt(i, a))

\* Nobody holds two places of a round.
DistinctAt(t, r) ==
  \A i, j \in 1..D!Pow2[t - r], a, b \in Sides :
    HeldAt(t, r, i, a) = HeldAt(t, r, j, b) /\ HeldAt(t, r, i, a) # None => i = j /\ a = b

-----------------------------------------------------------------------------
(* The played bracket is single elimination.                               *)

EntryOf(m) ==
  [round |-> Bracket[m[2]].round, bye |-> status[m] = "bye", a |-> slot[m][1], b |-> slot[m][2], winner |-> winner[m]]

PlayedBracket == {EntryOf(m) : m \in BracketMatches}

EntryAt(t, r, i) == EntryOf(PlaceAt(t, r, i))

-----------------------------------------------------------------------------
(* The way there.                                                          *)

\* A pool match is played by the teams it was made for, what is final has a
\* scoreline, and a match forfeited is won by one of its teams.
Decided ==
  /\ \A m \in PoolGames : slot[m] = m
  /\ \A m \in Matches : status[m] = "final" => agreed[m] \in Scorelines
  /\ \A m \in Matches : status[m] = "forfeited" => winner[m] \in {slot[m][1], slot[m][2]}

\* A tournament awaits its settlement once everything is played.
Settling ==
  /\ tournament \in {"live", "awaiting_settlement"}
  /\ tournament = "awaiting_settlement" => MaySettle
  /\ luck \in Lucks

=============================================================================
