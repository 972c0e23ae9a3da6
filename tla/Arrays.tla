------------------------------- MODULE Arrays -------------------------------
(***************************************************************************)
(* Array.prototype.sort and map, as the draw and the standings use them:   *)
(* every comparator of theirs ends in a total order.                       *)
(***************************************************************************)
EXTENDS Naturals, SequencesExt

\* The list of F(1) to F(n), which TLC computes once.
List(n, F(_)) == SubSeq([i \in 1..n |-> F(i)], 1, n)

\* The members of S, those Before says come first in front: each stands behind
\* as many as come before it.
Sorted(S, Before(_, _)) ==
  List(Cardinality(S), LAMBDA i : CHOOSE x \in S : Cardinality({y \in S : Before(y, x)}) = i - 1)

Mapped(s, F(_)) == List(Len(s), LAMBDA i : F(s[i]))

=============================================================================
