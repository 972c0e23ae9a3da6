------------------------------- MODULE MCField -------------------------------
(***************************************************************************)
(* Small instances of Field for TLC.                                       *)
(***************************************************************************)
EXTENDS Field, TLC

\* A captain for every team, so that teams are interchangeable, or one for all.
OwnCaptains == [t \in Teams |-> t]
OneCaptain == [t \in Teams |-> "captain"]

Interchangeable == Permutations(Teams) \cup Permutations(Donations)

=============================================================================
