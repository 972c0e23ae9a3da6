------------------------------ MODULE MatchPlay ------------------------------
(***************************************************************************)
(* A live pool-to-bracket tournament of Sideout: the scorelines two teams  *)
(* submit for a match, the dispute an organizer resolves, the forfeit, the *)
(* bracket drawn (and redrawn) from the pools, the winners that advance in *)
(* it, and the step to awaiting its settlement (server/consensus.ts,       *)
(* matches.ts, draw.ts, standings.ts and tournaments.ts).                  *)
(*                                                                         *)
(* Every handler is one transaction that locks the tournament first, so it *)
(* is one step.  A scoreline is one of a few legal ones, in the            *)
(* orientation of the match: canonicalization and the hash only tell equal *)
(* from different.  What the push to Purse does to an agreed consensus is  *)
(* the subject of ScorePush; a cancelled tournament, which refuses every   *)
(* one of these handlers, that of CloseFlow.                               *)
(***************************************************************************)
EXTENDS Integers, Sequences, FiniteSets

CONSTANTS
  Line,        \* the seed line the pools were drawn from: the teams, best first
  PoolSize,
  Rule,        \* the advancement rule of the draw's configuration
  Pools,       \* pools and pool_teams
  PoolGames,   \* the matches of the pools, each named by its two teams
  Bracket,     \* the bracket to draw, by position
  Lucks,       \* the lots the draw's persisted rng seed may stand for
  Scorelines,  \* legal scorelines: records [sets, won], won the side that won
  MaxForfeits, \* bound: matches forfeited
  None         \* absence of a value (null)

D == INSTANCE Draw
S == INSTANCE Standings

-----------------------------------------------------------------------------
(* The draw.  A bracket match is named by <<0, its position>>.             *)

Teams == {Line[i] : i \in DOMAIN Line}

Advancing ==
  Rule.wildcards + S!SumFunction([p \in DOMAIN Pools |-> S!Min({Len(Pools[p]), Rule.perPool})])

\* A line of different teams that divides into pools of the size, none of them
\* the zero that names a bracket match; and a rule by which two or more advance.
ASSUME LineAssumption ==
  /\ Line \in Seq(Teams)
  /\ {None, 0} \cap Teams = {}
  /\ \A i, j \in DOMAIN Line : Line[i] = Line[j] => i = j
  /\ PoolSize \in Nat
  /\ D!Partitionable(Len(Line), PoolSize)
  /\ Advancing \in Nat /\ Advancing >= 2

\* Teams are numbers; every pool sends someone, every wildcard has a team to
\* take; and a lot tells any two teams apart.
ASSUME StandingsAssumption ==
  /\ Teams \subseteq Nat
  /\ Rule.perPool \in Nat \ {0} /\ Rule.wildcards \in Nat
  /\ S!AdvancementFits([p \in DOMAIN Pools |-> Len(Pools[p])], Rule, Advancing)
  /\ \A lots \in UNION {{draws.pool, draws.wild} : draws \in Lucks} :
       /\ \A t \in Teams : lots[t] \in Int
       /\ \A s, t \in Teams : lots[s] = lots[t] => s = t

ASSUME DrawAssumption ==
  /\ Pools = D!PartitionIntoPools(Line, PoolSize)
  /\ PoolGames = {<<m.a, m.b>> : m \in D!PoolMatches(Line, PoolSize, 1)}
  /\ Bracket = D!DrawBracket(Advancing, 1)

TeamsOf(pool) == {pool[i] : i \in DOMAIN pool}

MatchesOf(pool) == {m \in PoolGames : m[1] \in TeamsOf(pool)}

BracketMatches == {<<0, pos>> : pos \in DOMAIN Bracket}

Matches == PoolGames \cup BracketMatches

Sides == {1, 2}

IsBye(m) == Bracket[m[2]].bye

SeedOf(m, side) == Bracket[m[2]].seeds[side]

\* Where the winner of a match goes: the next match and the side of it.
NextOf(m) ==
  IF m \in PoolGames \/ Bracket[m[2]].next = None THEN None
  ELSE [match |-> <<0, Bracket[m[2]].next>>, side |-> Bracket[m[2]].slot]

\* The absence of a value is no seed and no link.
ASSUME NoneAssumption ==
  /\ None \notin Nat
  /\ None \notin [match : BracketMatches, side : Sides]

ASSUME ScorelinesAssumption ==
  /\ None \notin Scorelines
  /\ \A line \in Scorelines : line.won \in Sides /\ line.sets \in Seq(Nat \X Nat)

-----------------------------------------------------------------------------
VARIABLES
  tournament,   \* tournaments.status: live or awaiting_settlement
  luck,         \* the lots of tournaments.draw_config.rngSeed
  status,       \* matches.status, "undrawn" while the bracket has none
  slot,         \* matches.team_a_id and team_b_id
  winner,       \* matches.winner_team_id
  consensus,    \* match_consensus.state
  agreed,       \* the agreed scoreline: agreed_hash and the sets rows
  said,         \* score_submissions: each side's live submission
  ruled         \* score_submissions: the organizer's resolution

result == <<status, slot, winner>>
scores == <<consensus, agreed, said, ruled>>
vars == <<tournament, luck, result, scores>>

Complete(m) == status[m] \in {"final", "forfeited", "bye"}

\* Play has taken the match off the schedule.
Started(m) == status[m] \notin {"undrawn", "scheduled", "bye"}

Populated(m) == None \notin {slot[m][1], slot[m][2]}

\* The winner moves into its side of the next match.
Advance(m, w) ==
  IF NextOf(m) = None THEN slot
  ELSE [slot EXCEPT ![NextOf(m).match] = [@ EXCEPT ![NextOf(m).side] = w]]

-----------------------------------------------------------------------------
(* The consensus.                                                          *)

\* Entering agreed, from either path: the match is final.
EnterAgreed(m, line) ==
  /\ consensus' = [consensus EXCEPT ![m] = "agreed"]
  /\ agreed' = [agreed EXCEPT ![m] = line]
  /\ status' = [status EXCEPT ![m] = "final"]
  /\ winner' = [winner EXCEPT ![m] = slot[m][line.won]]
  /\ slot' = Advance(m, slot[m][line.won])

CanSubmit(m) ==
  /\ tournament = "live"
  /\ status[m] \in {"scheduled", "awaiting_scores"}
  /\ Populated(m)
  /\ consensus[m] \in {"none", "awaiting_second"}

\* Nobody else has spoken: the match waits for the other side, and the side
\* may still replace what it said.
SubmitFirst(m, side, line) ==
  /\ CanSubmit(m)
  /\ said[m][3 - side] = None
  /\ said' = [said EXCEPT ![m] = [@ EXCEPT ![side] = line]]
  /\ consensus' = [consensus EXCEPT ![m] = "awaiting_second"]
  /\ status' = [status EXCEPT ![m] = "awaiting_scores"]
  /\ UNCHANGED <<tournament, luck, slot, winner, agreed, ruled>>

\* Both sides say the same.
SubmitMatching(m, side, line) ==
  /\ CanSubmit(m)
  /\ said[m][3 - side] = line
  /\ said' = [said EXCEPT ![m] = [@ EXCEPT ![side] = line]]
  /\ EnterAgreed(m, line)
  /\ UNCHANGED <<tournament, luck, ruled>>

SubmitConflicting(m, side, line) ==
  /\ CanSubmit(m)
  /\ said[m][3 - side] \notin {None, line}
  /\ said' = [said EXCEPT ![m] = [@ EXCEPT ![side] = line]]
  /\ consensus' = [consensus EXCEPT ![m] = "disputed"]
  /\ status' = [status EXCEPT ![m] = "disputed"]
  /\ UNCHANGED <<tournament, luck, slot, winner, agreed, ruled>>

\* Fault: only the consensus row is asked, which a forfeit leaves disputed.
IsDisputedByConsensus(m) == consensus[m] = "disputed"

\* Fault: the organizer may settle a match only one side has reported.
IsDisputedOrWaiting(m) ==
  consensus[m] \in {"awaiting_second", "disputed"} /\ status[m] \in {"awaiting_scores", "disputed"}

IsDisputed(m) == consensus[m] = "disputed" /\ status[m] = "disputed"

\* The organizer settles a dispute with a scoreline of their own.
ResolveDispute(m, line) ==
  /\ tournament = "live"
  /\ IsDisputed(m)
  /\ Populated(m)
  /\ ruled' = [ruled EXCEPT ![m] = line]
  /\ EnterAgreed(m, line)
  /\ UNCHANGED <<tournament, luck, said>>

-----------------------------------------------------------------------------
(* The organizer.                                                          *)

\* The other side wins, whatever the teams have said; the consensus row is
\* left as it is.
Forfeit(m, side) ==
  /\ tournament = "live"
  /\ status[m] \in {"scheduled", "awaiting_scores", "disputed"}
  /\ Populated(m)
  /\ Cardinality({f \in Matches : status[f] = "forfeited"}) < MaxForfeits
  /\ status' = [status EXCEPT ![m] = "forfeited"]
  /\ winner' = [winner EXCEPT ![m] = slot[m][3 - side]]
  /\ slot' = Advance(m, slot[m][3 - side])
  /\ UNCHANGED <<tournament, luck, scores>>

\* What the standings count: a forfeit is a win without sets.
ResultsOf(pool) ==
  {[a |-> slot[m][1], b |-> slot[m][2], winner |-> winner[m],
    sets |-> IF status[m] = "final" THEN agreed[m].sets ELSE <<>>] : m \in {x \in MatchesOf(pool) : Complete(x)}}

PoolResults ==
  [p \in DOMAIN Pools |-> [teams |-> TeamsOf(Pools[p]), results |-> ResultsOf(Pools[p])]]

StandingsOf(pools) == D!Mapped(pools, LAMBDA pool : S!ComputeStandings(pool.teams, pool.results))

Standings == StandingsOf(PoolResults)

\* Fault: a disputed match counts as played.
PoolPlayCompleteButDisputed == \A m \in PoolGames : Complete(m) \/ status[m] = "disputed"

PoolPlayComplete == \A m \in PoolGames : Complete(m)

PublicStandings == S!PublicStandings(Standings, Rule, luck, PoolPlayComplete)

BracketSeeds == S!RankForBracket(Standings, Rule, luck)

SeededTeam(seeds, seed) == IF seed = None THEN None ELSE seeds[seed]

BracketInPlay == \E m \in BracketMatches : Started(m)

\* The bracket is drawn from the standings, replacing one not yet in play;
\* a bye is complete and its team already stands in its next match.
RunDraw ==
  /\ tournament = "live"
  /\ PoolPlayComplete
  /\ ~BracketInPlay
  /\ LET seeds == BracketSeeds
         Drawn(m, side) == SeededTeam(seeds, SeedOf(m, side))
     IN  /\ status' = [m \in Matches |-> IF m \in PoolGames THEN status[m]
                                         ELSE IF IsBye(m) THEN "bye" ELSE "scheduled"]
         /\ slot' = [m \in Matches |-> IF m \in PoolGames THEN slot[m] ELSE <<Drawn(m, 1), Drawn(m, 2)>>]
         /\ winner' = [m \in Matches |-> IF m \in PoolGames THEN winner[m]
                                         ELSE IF IsBye(m) THEN Drawn(m, 1) ELSE None]
  /\ UNCHANGED <<tournament, luck, scores>>

BracketDrawn == \A m \in BracketMatches : status[m] # "undrawn"

\* Fault: a bracket is not asked for.
MaySettlePools == \A m \in Matches : Complete(m) \/ status[m] = "undrawn"

MaySettle == BracketDrawn /\ \A m \in Matches : Complete(m)

AwaitSettlement ==
  /\ tournament = "live"
  /\ MaySettle
  /\ tournament' = "awaiting_settlement"
  /\ UNCHANGED <<luck, result, scores>>

-----------------------------------------------------------------------------
\* The tournament has just gone live with its pools drawn.
Init ==
  /\ tournament = "live"
  /\ luck \in Lucks
  /\ status = [m \in Matches |-> IF m \in PoolGames THEN "scheduled" ELSE "undrawn"]
  /\ slot = [m \in Matches |-> IF m \in PoolGames THEN m ELSE <<None, None>>]
  /\ winner = [m \in Matches |-> None]
  /\ consensus = [m \in Matches |-> "none"]
  /\ agreed = [m \in Matches |-> None]
  /\ said = [m \in Matches |-> <<None, None>>]
  /\ ruled = [m \in Matches |-> None]

Next ==
  \/ \E m \in Matches, side \in Sides, line \in Scorelines :
       SubmitFirst(m, side, line) \/ SubmitMatching(m, side, line) \/ SubmitConflicting(m, side, line)
  \/ \E m \in Matches, line \in Scorelines : ResolveDispute(m, line)
  \/ \E m \in Matches, side \in Sides : Forfeit(m, side)
  \/ RunDraw
  \/ AwaitSettlement

Spec == Init /\ [][Next]_vars

-----------------------------------------------------------------------------
(* Properties.                                                             *)

\* Statuses and submissions stay in their domains, and slots keep two sides.
TypeOK ==
  /\ tournament \in {"live", "awaiting_settlement"}
  /\ status \in [Matches -> {"undrawn", "scheduled", "awaiting_scores", "disputed", "final", "forfeited", "bye"}]
  /\ DOMAIN slot = Matches /\ \A m \in Matches : DOMAIN slot[m] = Sides
  /\ DOMAIN winner = Matches
  /\ consensus \in [Matches -> {"none", "awaiting_second", "disputed", "agreed"}]
  /\ agreed \in [Matches -> Scorelines \cup {None}]
  /\ said \in [Matches -> [Sides -> Scorelines \cup {None}]]
  /\ ruled \in [Matches -> Scorelines \cup {None}]

\* A final result is what both teams last said, or what the organizer ruled on
\* a dispute between two things they had said; nobody is ruled against who was
\* never contradicted, and the winner is the side that scoreline names
\* (consensus.ts, "the trust boundary between a phone on the sand and anything
\* that moves value").
ResultStands ==
  \A m \in Matches : status[m] = "final" =>
    /\ consensus[m] = "agreed"
    /\ winner[m] = slot[m][agreed[m].won]
    /\ \/ ruled[m] = None /\ said[m] = <<agreed[m], agreed[m]>>
       \/ /\ ruled[m] = agreed[m]
          /\ None \notin {said[m][1], said[m][2]}
          /\ said[m][1] # said[m][2]

Feeds(f, m, side) ==
  f \in BracketMatches /\ NextOf(f) # None /\ NextOf(f).match = m /\ NextOf(f).side = side

\* Every side of a bracket match holds the winner of the match that feeds it
\* and nobody before that match is decided; a side nothing feeds holds the team
\* that the public standings seed there (bracket.ts, and standings.ts: "what
\* the public standings show is exactly what the bracket draw will take").
BracketFollowsResults ==
  BracketDrawn =>
    LET seeds == BracketSeeds
    IN  \A m \in BracketMatches, side \in Sides :
          IF \E f \in BracketMatches : Feeds(f, m, side)
          THEN slot[m][side] = winner[CHOOSE f \in BracketMatches : Feeds(f, m, side)]
          ELSE slot[m][side] = SeededTeam(seeds, SeedOf(m, side))

\* A decided match never changes again: not by a late submission, a resolution
\* of a dispute a forfeit has settled, nor a redraw, which may only replace a
\* bracket nobody has played in and then seats the same byes.
DecidedStays ==
  [][\A m \in Matches : Complete(m) =>
       /\ status'[m] = status[m]
       /\ winner'[m] = winner[m]
       /\ slot'[m] = slot[m]
       /\ agreed'[m] = agreed[m]]_vars

Placements ==
  S!FinalStandings({[round |-> Bracket[m[2]].round, bye |-> status[m] = "bye", a |-> slot[m][1],
                     b |-> slot[m][2], winner |-> winner[m]] : m \in BracketMatches},
                   PublicStandings)

WellPlaced(placements, standings, seeds) ==
  LET PlacedAbove(s, t) == placements[s] < placements[t]
      InBracket(t) == t \in {seeds[k] : k \in DOMAIN seeds}
  IN  /\ DOMAIN placements = Teams
      /\ \E champion \in Teams :
           /\ \A t \in Teams \ {champion} : PlacedAbove(champion, t)
           /\ \A m \in BracketMatches : NextOf(m) = None => winner[m] = champion
      /\ \A m \in BracketMatches, side \in Sides :
           slot[m][side] \notin {None, winner[m]} => PlacedAbove(winner[m], slot[m][side])
      /\ \A p \in DOMAIN standings : \A i, j \in DOMAIN standings[p] :
           LET x == standings[p][i]
               y == standings[p][j]
           IN  /\ InBracket(x.team) /\ ~InBracket(y.team) => PlacedAbove(x.team, y.team)
               /\ ~InBracket(x.team) /\ x.rank < y.rank => PlacedAbove(x.team, y.team)

\* A tournament that awaits its settlement can be settled: every drawn team has
\* one placement, the champion's is its own, nobody is placed above the team
\* that knocked it out, nobody the bracket left out above one that played in it
\* nor above a team of its pool that finished ahead (final-standings.ts).
EveryoneIsPlaced ==
  tournament = "awaiting_settlement" => WellPlaced(Placements, PublicStandings, BracketSeeds)

=============================================================================
