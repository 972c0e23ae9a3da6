----------------------------- MODULE MCMatchPlay -----------------------------
(***************************************************************************)
(* Two pools of two teams, the winners and one wildcard in a bracket of    *)
(* three with a bye: five matches, two of them in the bracket.             *)
(***************************************************************************)
EXTENDS MatchPlay

FourTeams == <<1, 2, 3, 4>>

TopAndWildcard == [perPool |-> 1, wildcards |-> 1]

TwoPools == << <<1, 4>>, <<2, 3>> >>

OnePerPool == {<<1, 4>>, <<2, 3>>}

\* The winner of the better pool waits in the final.
ThreeSeeds ==
  << [round |-> 1, seeds |-> <<1, None>>, bye |-> TRUE, next |-> 3, slot |-> 1, court |-> 1, time |-> 0],
     [round |-> 1, seeds |-> <<2, 3>>, bye |-> FALSE, next |-> 3, slot |-> 2, court |-> 1, time |-> 0],
     [round |-> 2, seeds |-> <<1, None>>, bye |-> FALSE, next |-> None, slot |-> None, court |-> 1, time |-> 1] >>

\* The lot for the wildcard may fall either way.
EitherWay ==
  {[pool |-> [t \in 1..4 |-> t], wild |-> order] : order \in {[t \in 1..4 |-> t], [t \in 1..4 |-> 4 - t]}}

\* One scoreline for each side.
OneEach ==
  {[sets |-> << <<21, 17>> >>, won |-> 1], [sets |-> << <<17, 21>> >>, won |-> 2]}

=============================================================================
