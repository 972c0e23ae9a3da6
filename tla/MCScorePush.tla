----------------------------- MODULE MCScorePush -----------------------------
(* Instances of ScorePush: two matches that share a team. *)
EXTENDS ScorePush, TLC

CONSTANTS t1, t2, t3, m1, m2, p1, p2

SharedTeam == m1 :> {t1, t2} @@ m2 :> {t1, t3}

FairSpecM1 == Spec /\ FairTo(m1)

\* The matches are alike, so the liveness of one of them is checked, and
\* fairness is assumed for that one alone.
M1EventuallyConfirmed == EventuallyConfirmed(m1)

\* Pushers are interchangeable; used only where no liveness is checked.
PusherSymmetry == Permutations(Pushers)

=============================================================================
