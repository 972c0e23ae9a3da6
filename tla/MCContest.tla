----------------------------- MODULE MCContest -----------------------------
(***************************************************************************)
(* A small instance of Contest for TLC: one contest that is open to both   *)
(* users, closed by an operator or on its own, one with a single place,    *)
(* and one neither user can afford.                                        *)
(***************************************************************************)
EXTENDS ContestPot, TLC

SixtyForty    == [weights |-> <<60, 40>>, minimums |-> <<>>, floor |-> 0]
WinnerTakeAll == [weights |-> <<1>>, minimums |-> <<>>, floor |-> 0]

OpenToAll(policy) ==
  [amount |-> 2, max |-> None, policy |-> policy, rake |-> 2500,
   structure |-> SixtyForty, tieBreak |-> "split_evenly"]

OnePlace ==
  [amount |-> 3, max |-> 1, policy |-> "auto", rake |-> 0,
   structure |-> WinnerTakeAll, tieBreak |-> "split_evenly"]

TooDear == [OnePlace EXCEPT !.amount = 5]

MCDefinitions == {OpenToAll("operator_close"), OpenToAll("auto"), OnePlace, TooDear}

\* A first score, a better finished one and a finished no-show.
MCReports ==
  { [score |-> 1, finished |-> FALSE],
    [score |-> 2, finished |-> TRUE],
    [score |-> None, finished |-> TRUE] }

KeySymmetry == Permutations(Keys)
=============================================================================
