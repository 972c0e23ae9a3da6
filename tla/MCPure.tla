------------------------------- MODULE MCPure -------------------------------
(***************************************************************************)
(* The pure algorithms on every small input: one behaviour per input,      *)
(* whose single step answers it.  The settlement engine of Purse, and      *)
(* Sideout's pool draw, bracket draw and standings with their cut lines.   *)
(***************************************************************************)
EXTENDS Settle

CONSTANTS
  MaxEntrants,    \* settlements are of 1..n entrants for n up to this
  MaxPool,        \* and of pools up to this
  MaxTeams,       \* pools are drawn for fields up to this
  MaxSeeds,       \* brackets are drawn for fields up to this
  MaxCourts

D == INSTANCE Draw
S == INSTANCE Standings

-----------------------------------------------------------------------------
(* Settlements.                                                            *)

Rules == {"split_evenly", "higher_seed_wins", "earliest_submission_wins"}

\* One of each prize structure type, and one with a participation floor.
Structures ==
  { [weights |-> <<1>>,          minimums |-> <<>>,     floor |-> 0],  \* winner_take_all
    [weights |-> <<50, 30, 20>>, minimums |-> <<>>,     floor |-> 0],  \* percentage_split
    [weights |-> <<4, 2>>,       minimums |-> <<>>,     floor |-> 0],  \* placement_table
    [weights |-> <<1, 1>>,       minimums |-> <<>>,     floor |-> 0],  \* top_n_equal
    [weights |-> <<60, 40>>,     minimums |-> <<3, 1>>, floor |-> 0],  \* guaranteed_minimum
    [weights |-> <<70, 30>>,     minimums |-> <<2, 1>>, floor |-> 1] }

Keys == {None, 1, 2}

\* Under split_evenly neither key is read; under the others only one is.
EntriesFor(rule, n) ==
  [1..n -> [score       : {None, 1, 2},
            seed        : IF rule = "higher_seed_wins" THEN Keys ELSE {None},
            submittedAt : IF rule = "earliest_submission_wins" THEN Keys ELSE {None}]]

Settlements ==
  UNION {UNION {[rule : {rule}, entries : EntriesFor(rule, n), structure : Structures, pool : 0..MaxPool]
                  : n \in 1..MaxEntrants} : rule \in Rules}

Settled(in) == SettlePool(in.pool, in.entries, in.structure, in.rule)

-----------------------------------------------------------------------------
(* Draws.                                                                  *)

PoolDraws ==
  {in \in [teams : 2..MaxTeams, poolSize : 2..MaxTeams, courts : 1..MaxCourts] :
     D!Partitionable(in.teams, in.poolSize)}

BracketDraws == [seeds : 2..MaxSeeds, courts : 1..MaxCourts]

\* The two entry seeds, then the others as they were shuffled.
Line(n) ==
  D!OrderEntries([t \in 1..n |-> IF t <= 2 THEN t ELSE None], [i \in 1..(n - 2) |-> i + 2])

DrawnPools(in) ==
  [pools   |-> D!PartitionIntoPools(Line(in.teams), in.poolSize),
   matches |-> D!PoolMatches(Line(in.teams), in.poolSize, in.courts)]

-----------------------------------------------------------------------------
(* Standings.  Teams of two pools whose ids are mixed, every result of     *)
(* every match, and lots that may fall any of two ways.                    *)

Fields == {<< {1, 4, 5}, {2, 3} >>, << {1, 4}, {2, 6}, {3, 5} >>}

Outcomes ==  \* narrow, wide, and forfeited
  {[won |-> 1, sets |-> << <<21, 19>> >>], [won |-> 1, sets |-> << <<21, 12>> >>],
   [won |-> 2, sets |-> << <<19, 21>> >>], [won |-> 2, sets |-> << >>]}

Pairs(teams) == {pair \in teams \X teams : pair[1] < pair[2]}

Result(pair, outcome) ==
  [a |-> pair[1], b |-> pair[2], winner |-> pair[outcome.won], sets |-> outcome.sets]

Lucks(n) == {[t \in 1..n |-> t], [t \in 1..n |-> n - t], [t \in 1..n |-> (t + 1) % n]}

Advancements == [perPool : 1..2, wildcards : 0..2]

Stages ==
  UNION {LET all == UNION {Pairs(field[p]) : p \in DOMAIN field}
             n   == Cardinality(UNION {field[p] : p \in DOMAIN field})
             Sizes == [p \in DOMAIN field |-> Cardinality(field[p])]
         IN  [field : {field}, outcome : [all -> Outcomes],
              rule : {r \in Advancements : S!AdvancementFits(Sizes, r, 64)},
              luck : [pool : Lucks(n), wild : Lucks(n)]] : field \in Fields}

Results(in, teams) == {Result(pair, in.outcome[pair]) : pair \in Pairs(teams)}

Pools(in) == D!Mapped(in.field, LAMBDA teams : S!ComputeStandings(teams, Results(in, teams)))

Ranked(in) ==
  [seeds  |-> S!RankForBracket(Pools(in), in.rule, in.luck),
   public |-> S!PublicStandings(Pools(in), in.rule, in.luck, TRUE)]

\* The same stage with the ids of the teams in the opposite order.
Mirrored(in) ==
  LET n == Cardinality(UNION {in.field[p] : p \in DOMAIN in.field})
      M(t) == n + 1 - t
      Flip(outcome) ==
        [won |-> 3 - outcome.won, sets |-> [i \in DOMAIN outcome.sets |-> <<outcome.sets[i][2], outcome.sets[i][1]>>]]
  IN  [field   |-> [p \in DOMAIN in.field |-> {M(t) : t \in in.field[p]}],
       outcome |-> [pair \in {<<M(q[2]), M(q[1])>> : q \in DOMAIN in.outcome} |->
                      Flip(in.outcome[<<M(pair[2]), M(pair[1])>>])],
       rule    |-> in.rule,
       luck    |-> [pool |-> [t \in 1..n |-> in.luck.pool[M(t)]], wild |-> [t \in 1..n |-> in.luck.wild[M(t)]]]]

-----------------------------------------------------------------------------
VARIABLES question, input, answer

vars == <<question, input, answer>>

Init ==
  /\ answer = None
  /\ \/ question = "settle" /\ input \in Settlements
     \/ question = "pools" /\ input \in PoolDraws
     \/ question = "bracket" /\ input \in BracketDraws
     \/ question = "standings" /\ input \in Stages

Answer(q, Of(_)) ==
  /\ question = q
  /\ answer = None
  /\ answer' = Of(input)
  /\ UNCHANGED <<question, input>>

Settle == Answer("settle", Settled)
DrawPools == Answer("pools", DrawnPools)
DrawBracket == Answer("bracket", LAMBDA in : D!DrawBracket(in.seeds, in.courts))
Rank == Answer("standings", Ranked)

Next == Settle \/ DrawPools \/ DrawBracket \/ Rank

Spec == Init /\ [][Next]_vars

Answered(q) == question = q /\ answer # None

-----------------------------------------------------------------------------
(* Settlement.                                                             *)

\* A better placement is never paid less, tied entrants are paid alike, and
\* who has no score takes the floor alone (PaidInOrder of Settle; settle.ts,
\* steps 2 to 4).
PaidByPlacement == Answered("settle") => PaidInOrder(answer, input.entries, input.structure)

\* Every unit of the pool is paid out and none is created, and an untied
\* placement is paid the prize its structure promises it (PaidItsPrize of
\* Settle; settle.ts, "Nothing is ever lost"; types.ts).
PaidAsPromised ==
  Answered("settle") =>
    /\ SumFunction([u \in DOMAIN input.entries |-> answer[u].payout]) = input.pool
    /\ PaidItsPrize(answer, input.pool, input.entries, input.structure)

-----------------------------------------------------------------------------
(* The draw.                                                               *)

\* Pools of at most the size asked for, none with a team alone, differ by at
\* most one team, and over any two passes of the seed line each gets the same
\* strength; in each, every pair meets exactly once and no team twice in a
\* round, so no round is longer than it has to be (FairPools and RoundRobin of
\* Draw; partitionIntoPools, roundRobinRounds).
PoolPlayIsARoundRobin ==
  Answered("pools") =>
    /\ D!FairPools(input.teams, input.poolSize, answer.pools)
    /\ D!RoundRobin(answer.pools, answer.matches)

\* The start times: a court holds one match at a time, no team is due on two
\* matches at once and none before an earlier round of its own; a bracket match
\* starts after both matches that feed it (OneMatchAtATime and PlayedInOrder of
\* Draw; assignCourtSlots, and the round floor of drawBracket).
NobodyPlaysTwiceAtOnce ==
  /\ Answered("pools") => D!OneMatchAtATime(answer.matches)
  /\ Answered("bracket") => D!PlayedInOrder(answer, input.courts)

\* If the better seed always wins, every round is the top half of the one
\* before, drawn best against worst, so the top seeds meet only in the final;
\* the byes are the top seeds', and stand in their next match already; and
\* every side of a later match is fed by exactly one match (FairBracket of
\* Draw; seedPlacement, drawBracket).
BracketIsFair == Answered("bracket") => D!FairBracket(input.seeds, answer)

-----------------------------------------------------------------------------
(* The standings.                                                          *)

\* What the public standings show is exactly what the bracket draw takes: of
\* every pool the first rows advance, one for each of its places and then its
\* wildcards, no row below them shares a rank with one of them, and as many
\* advance as the rule says (CutIsShown of Standings; standings.ts, "so what the
\* public standings show").
CutLineIsShown == Answered("standings") => S!CutIsShown(answer.seeds, answer.public, input.rule)

\* Who advances is decided on the sand or by lot, never by the team id that
\* orders level teams on the page: with the ids turned round, the results and
\* the lots being those of the same teams, the same teams advance
\* (resolveCutLineTies, "never falls to the id").
AdvancementIgnoresIds ==
  Answered("standings") =>
    LET n == Cardinality(UNION {input.field[p] : p \in DOMAIN input.field})
        other == Mirrored(input)
        seeds == S!RankForBracket(Pools(other), other.rule, other.luck)
    IN  {answer.seeds[i] : i \in DOMAIN answer.seeds} = {n + 1 - seeds[i] : i \in DOMAIN seeds}

=============================================================================
