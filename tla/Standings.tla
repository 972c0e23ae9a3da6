------------------------------ MODULE Standings ------------------------------
(***************************************************************************)
(* Pool standings with their tiebreaks (sideout domain/standings.ts), the  *)
(* cut lines, lots and bracket seeds taken from them (domain/draw.ts) and  *)
(* the final placements of a pool-to-bracket event                         *)
(* (domain/final-standings.ts).                                            *)
(*                                                                         *)
(* Teams are natural numbers ordered as their ids are.  A result is a      *)
(* record [a, b, winner, sets], its sets the points of a and b; a forfeit  *)
(* has none.  A shuffle is given by an order of luck over the teams: one   *)
(* for the lots inside pools, one for the lot across them.                 *)
(***************************************************************************)
EXTENDS Integers, Sequences, Arrays

-----------------------------------------------------------------------------
(* A team's record.                                                        *)

\* The sets of a result as t played them.
SetsOf(t, m) ==
  [i \in DOMAIN m.sets |-> IF m.a = t THEN m.sets[i] ELSE <<m.sets[i][2], m.sets[i][1]>>]

RowOf(t, results) ==
  LET mine == {m \in results : t \in {m.a, m.b}}
      Total(Count(_)) == SumFunction([m \in mine |-> SumFunction([i \in DOMAIN m.sets |-> Count(SetsOf(t, m)[i])])])
  IN  [team     |-> t,
       played   |-> Cardinality(mine),
       wins     |-> Cardinality({m \in mine : m.winner = t}),
       setsWon  |-> Total(LAMBDA s : IF s[1] > s[2] THEN 1 ELSE 0),
       setsLost |-> Total(LAMBDA s : IF s[2] > s[1] THEN 1 ELSE 0),
       scored   |-> Total(LAMBDA s : s[1]),
       conceded |-> Total(LAMBDA s : s[2]),
       rank     |-> 0,
       lot      |-> FALSE]

PointDiff(x) == x.scored - x.conceded

\* Fractions compared exactly; over nothing is zero.
FractionAbove(an, ad, bn, bd) ==
  (IF ad = 0 THEN 0 ELSE an) * (IF bd = 0 THEN 1 ELSE bd)
    > (IF bd = 0 THEN 0 ELSE bn) * (IF ad = 0 THEN 1 ELSE ad)

SetRatioAbove(x, y) ==
  FractionAbove(x.setsWon, x.setsWon + x.setsLost, y.setsWon, y.setsWon + y.setsLost)

WinRateAbove(x, y) == FractionAbove(x.wins, x.played, y.wins, y.played)

AheadAfterHeadToHead(x, y) ==
  IF SetRatioAbove(x, y) \/ SetRatioAbove(y, x) THEN SetRatioAbove(x, y)
  ELSE IF PointDiff(x) # PointDiff(y) THEN PointDiff(x) > PointDiff(y)
  ELSE IF x.scored # y.scored THEN x.scored > y.scored
  ELSE x.team < y.team

AheadAcrossPools(x, y) ==
  IF WinRateAbove(x, y) \/ WinRateAbove(y, x) THEN WinRateAbove(x, y)
  ELSE IF x.wins # y.wins THEN x.wins > y.wins
  ELSE AheadAfterHeadToHead(x, y)

LevelOnCompetitiveKeys(x, y) ==
  /\ x.wins = y.wins
  /\ ~SetRatioAbove(x, y) /\ ~SetRatioAbove(y, x)
  /\ PointDiff(x) = PointDiff(y)
  /\ x.scored = y.scored

LevelAcrossPools(x, y) ==
  ~WinRateAbove(x, y) /\ ~WinRateAbove(y, x) /\ LevelOnCompetitiveKeys(x, y)

-----------------------------------------------------------------------------
(* The standings of one pool.                                              *)

Meetings(x, y, results) == {m \in results : {m.a, m.b} = {x.team, y.team}}

\* x won more of the meetings with y than y did.
BeatHeadToHead(x, y, results) ==
  LET Won(z) == Cardinality({m \in Meetings(x, y, results) : m.winner = z.team})
  IN  Won(x) > Won(y)

\* Exactly two teams level on wins who have met are separated by that alone.
HeadToHeadDecides(x, y, rows, results) ==
  /\ {z.team : z \in {w \in rows : w.wins = x.wins}} = {x.team, y.team}
  /\ BeatHeadToHead(x, y, results) \/ BeatHeadToHead(y, x, results)

AheadInPool(x, y, rows, results) ==
  IF x.wins # y.wins THEN x.wins > y.wins
  ELSE IF HeadToHeadDecides(x, y, rows, results) THEN BeatHeadToHead(x, y, results)
  ELSE AheadAfterHeadToHead(x, y)

\* Best first; teams level on every key share the rank of the first of them.
ComputeStandings(teams, results) ==
  LET rows == {RowOf(t, results) : t \in teams}
      Ahead(x, y) == AheadInPool(x, y, rows, results)
      Shares(x, y) == LevelOnCompetitiveKeys(x, y) /\ ~HeadToHeadDecides(x, y, rows, results)
      Rank(x) == 1 + Cardinality({y \in rows : Ahead(y, x) /\ ~Shares(y, x)})
  IN  Sorted({[x EXCEPT !.rank = Rank(x)] : x \in rows}, Ahead)

-----------------------------------------------------------------------------
(* Cut lines.  A rule is a record [perPool, wildcards].                    *)

InLotOrder(S, luck) == Sorted(S, LAMBDA x, y : luck[x.team] < luck[y.team])

\* The places of a pool that a tie straddling its cut puts to a lot.
TiedAtCut(rows, perPool) ==
  LET tied == {i \in DOMAIN rows : rows[i].rank = rows[perPool].rank}
  IN  IF perPool >= Len(rows) THEN {}
      ELSE IF \A i \in tied : i <= perPool THEN {} ELSE tied

\* The rows at the given places, re-ordered by lot.
DrawLots(rows, places, luck) ==
  LET drawn == InLotOrder({rows[i] : i \in places}, luck)
      Before(i) == Cardinality({j \in places : j < i})
  IN  [i \in DOMAIN rows |->
         IF i \in places THEN [drawn[1 + Before(i)] EXCEPT !.rank = i, !.lot = TRUE] ELSE rows[i]]

\* By place, then by strength across pools.
ByPlaceThenStrength(x, y) ==
  IF x.rank # y.rank THEN x.rank < y.rank ELSE AheadAcrossPools(x, y)

\* The rows of every pool from a place on, and up to it.
RowsAfter(pools, place) == UNION {{pools[p][i] : i \in {j \in DOMAIN pools[p] : j > place}} : p \in DOMAIN pools}
RowsUpTo(pools, place) == UNION {{pools[p][i] : i \in {j \in DOMAIN pools[p] : j <= place}} : p \in DOMAIN pools}

\* Fault: the last wildcard goes by the order the standings happen to show.
TiedForWildcardNever(pools, rule) == {}

\* The rows of an order that a tie straddling its n-th puts to a lot.
TiedAtLast(order, n) ==
  LET Level(x, y) == x.rank = y.rank /\ LevelAcrossPools(x, y)
  IN  IF n = 0 \/ n >= Len(order) THEN {}
      ELSE IF Level(order[n], order[n + 1]) THEN {x \in ToSet(order) : Level(x, order[n])} ELSE {}

TiedForWildcard(pools, rule) ==
  TiedAtLast(Sorted(RowsAfter(pools, rule.perPool), ByPlaceThenStrength), rule.wildcards)

TeamsInOrder(rows) == Mapped(rows, LAMBDA x : x.team)

\* The pools and the order wildcards are taken in, once the tied rows are
\* put to a lot.
WithWildcardLot(pools, tied, rule, luck) ==
  LET Ahead(x, y) == IF x \in tied /\ y \in tied THEN luck.wild[x.team] < luck.wild[y.team]
                                                 ELSE ByPlaceThenStrength(x, y)
  IN  [pools |-> Mapped(pools, LAMBDA rows : DrawLots(rows, {i \in DOMAIN rows : rows[i] \in tied}, luck.wild)),
       wildcards |-> TeamsInOrder(Sorted(RowsAfter(pools, rule.perPool), Ahead))]

\* Every tie at a cut line broken: the cuts of the pools, then the wildcards'.
ResolveCutLineTies(pools, rule, luck) ==
  LET WithLots(cut) == WithWildcardLot(cut, TiedForWildcard(cut, rule), rule, luck)
  IN  WithLots(Mapped(pools, LAMBDA rows : DrawLots(rows, TiedAtCut(rows, rule.perPool), luck.pool)))

\* Fault: the page shows the standings as they were before the lots.
PublicStandingsUnresolved(pools, rule, luck, complete) == pools

\* What the public standings show once pool play is complete.
PublicStandings(pools, rule, luck, complete) ==
  IF complete THEN ResolveCutLineTies(pools, rule, luck).pools ELSE pools

\* Every wildcard has a team to take and what advances fits a bracket.
AdvancementFits(sizes, rule, largest) ==
  LET top  == SumFunction([p \in DOMAIN sizes |-> Min({sizes[p], rule.perPool})])
      rest == SumFunction([p \in DOMAIN sizes |-> Max({0, sizes[p] - rule.perPool})])
  IN  rule.wildcards <= rest /\ top + rule.wildcards \in 2..largest

\* Who advances, in bracket-seed order.
RankForBracket(pools, rule, luck) ==
  LET Wild(cut) == {cut.wildcards[i] : i \in 1..rule.wildcards}
      Field(cut) == RowsUpTo(cut.pools, rule.perPool)
                      \cup {x \in RowsAfter(cut.pools, rule.perPool) : x.team \in Wild(cut)}
  IN  TeamsInOrder(Sorted(Field(ResolveCutLineTies(pools, rule, luck)), ByPlaceThenStrength))

\* What the public standings show is exactly what the bracket draw takes: as
\* many different teams as the rule says; of every pool the first rows, one for
\* each of its places and then its wildcards; and no row below them shares a
\* rank with one of them.
CutIsShown(seeds, public, rule) ==
  LET Advances(x) == \E l \in DOMAIN seeds : seeds[l] = x.team
  IN  /\ \A l, m \in DOMAIN seeds : seeds[l] = seeds[m] => l = m
      /\ Len(seeds) = rule.wildcards
           + SumFunction([p \in DOMAIN public |->
               IF Len(public[p]) < rule.perPool THEN Len(public[p]) ELSE rule.perPool])
      /\ \A p \in DOMAIN public : \A i, j \in DOMAIN public[p] :
           LET x == public[p][i]
               y == public[p][j]
           IN  /\ i <= rule.perPool => Advances(x)
               /\ i < j /\ Advances(y) => Advances(x)
               /\ Advances(x) /\ ~Advances(y) => x.rank < y.rank

-----------------------------------------------------------------------------
(* Final placements.  A bracket is a set of complete matches               *)
(* [round, bye, a, b, winner].                                             *)

LoserOf(m) == IF m.winner = m.a THEN m.b ELSE m.a

FinalRound(bracket) == Max({m.round : m \in bracket})

Champion(bracket) == (CHOOSE m \in bracket : m.round = FinalRound(bracket)).winner

LosersOf(bracket, r) == {LoserOf(m) : m \in {x \in bracket : x.round = r /\ ~x.bye}}

\* Champion, runner-up, and the losers of each earlier round together.
BracketGroups(bracket) ==
  [g \in 1..(FinalRound(bracket) + 1) |->
     IF g = 1 THEN {Champion(bracket)} ELSE LosersOf(bracket, FinalRound(bracket) + 2 - g)]

\* A team the bracket left out is behind another: pool rank first, then the
\* draw's order across pools unless they are level on every key.
BehindOutside(x, y) ==
  y.rank < x.rank \/ (y.rank = x.rank /\ ~LevelAcrossPools(x, y) /\ AheadAcrossPools(y, x))

\* Competition ranking of every team placed; the others have no placement.
FinalStandings(bracket, pools) ==
  LET groups == BracketGroups(bracket)
      placed == UNION {groups[g] : g \in DOMAIN groups}
      left   == {x \in RowsAfter(pools, 0) : x.team \notin placed}
      Group(t) == CHOOSE g \in DOMAIN groups : t \in groups[g]
      Row(t)   == CHOOSE x \in left : x.team = t
  IN  [t \in placed \cup {x.team : x \in left} |->
         1 + IF t \in placed
             THEN Cardinality(UNION {groups[g] : g \in 1..(Group(t) - 1)})
             ELSE Cardinality(placed) + Cardinality({y \in left : BehindOutside(Row(t), y)})]

=============================================================================
