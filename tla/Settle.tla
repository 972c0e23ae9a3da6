------------------------------- MODULE Settle -------------------------------
(***************************************************************************)
(* The settlement engine of apps/purse/src/settlement/settle.ts: a pure    *)
(* function from the pool, the entrants and the prize structure to one     *)
(* placement and one payout per entrant.                                   *)
(*                                                                         *)
(* The code sorts the entrants and walks the groups of ties with a         *)
(* position counter.  Its comparison is a total preorder refined by        *)
(* userId, so the same groups and positions are stated here directly: who  *)
(* is ahead of whom, and the slots a group of ties occupies.  Users are    *)
(* natural numbers ordered as the userId strings are.                      *)
(***************************************************************************)
EXTENDS Integers, Sequences, FiniteSets, Functions

CONSTANT None    \* a missing score, seed or submission instant

-----------------------------------------------------------------------------
(* Amounts.                                                                *)

MinOf(a, b) == IF a < b THEN a ELSE b

\* Basis points of an amount, rounded down.
ApplyBps(amount, bps) == IF bps <= 0 THEN 0 ELSE (amount * bps) \div 10000

\* Truncate or pad with zero to exactly n slots.
Fit(values, n) == [i \in 1..n |-> IF i <= Len(values) THEN values[i] ELSE 0]

\* n shares of total, the leftover units going to the first shares.
EvenSplit(total, n) ==
  [i \in 1..n |-> total \div n + (IF i <= total % n THEN 1 ELSE 0)]

\* Fault: the remainder is handed out from the last slot.
ProportionalFromLast(pool, weights) ==
  LET total  == SumFunction(weights)
      floors == [i \in DOMAIN weights |-> (pool * weights[i]) \div total]
      left   == pool - SumFunction(floors)
  IN  IF total = 0
      THEN [i \in DOMAIN weights |-> IF i = 1 THEN pool ELSE 0]
      ELSE [i \in DOMAIN weights |->
              floors[i] + (IF Len(weights) - i < left THEN 1 ELSE 0)]

\* Floor shares in proportion to the weights, then one unit each from the
\* first slot until the remainder is gone.  All to the first slot when no
\* weight is positive.
Proportional(pool, weights) ==
  LET total  == SumFunction(weights)
      floors == [i \in DOMAIN weights |-> (pool * weights[i]) \div total]
      left   == pool - SumFunction(floors)
  IN  IF total = 0
      THEN [i \in DOMAIN weights |-> IF i = 1 THEN pool ELSE 0]
      ELSE [i \in DOMAIN weights |-> floors[i] + (IF i <= left THEN 1 ELSE 0)]

\* Minimums paid best placement first until the pool runs out.
BestFirst(pool, minimums) ==
  [i \in DOMAIN minimums |->
     LET remaining == pool - SumFunctionOnSet(minimums, 1..(i - 1))
     IN  IF remaining <= 0 THEN 0 ELSE MinOf(minimums[i], remaining)]

\* Fault: the guaranteed minimums are not paid first.
PrizeVectorNoMinimums(structure, pool, slots) ==
  Proportional(pool, Fit(structure.weights, slots))

NonIncreasing(values) == \A i, j \in DOMAIN values : i < j => values[j] <= values[i]

\* A structure is a record: the weights of its placements, the guaranteed
\* minimums (empty for every other type) and the participation floor.
Structure(s) ==
  /\ s.weights \in Seq(Nat) /\ NonIncreasing(s.weights)
  /\ s.minimums \in Seq(Nat) /\ NonIncreasing(s.minimums)
  /\ s.floor \in Nat

\* One amount per placement slot.
PrizeVector(structure, pool, slots) ==
  LET minimums   == Fit(structure.minimums, slots)
      guaranteed == SumFunction(minimums)
      rest       == Proportional(pool - guaranteed, Fit(structure.weights, slots))
  IN  IF pool >= guaranteed
      THEN [i \in 1..slots |-> minimums[i] + rest[i]]
      ELSE BestFirst(pool, minimums)

-----------------------------------------------------------------------------
(* Ranking.  entries is a function from the entrants to records            *)
(* [score, seed, submittedAt].                                             *)

TieBreaks == {"split_evenly", "higher_seed_wins", "earliest_submission_wins"}

ScoreAhead(a, b) == a # None /\ (b = None \/ a > b)

KeyAhead(a, b) == a # None /\ (b = None \/ a < b)

TieKeyAhead(a, b, rule) ==
  CASE rule = "split_evenly"             -> FALSE
    [] rule = "higher_seed_wins"         -> KeyAhead(a.seed, b.seed)
    [] rule = "earliest_submission_wins" -> KeyAhead(a.submittedAt, b.submittedAt)

\* Placed strictly better: a better score, or an equal one separated by the
\* tie-break rule.  Two unscored entrants are never separated.
Ahead(a, b, rule) ==
  \/ ScoreAhead(a.score, b.score)
  \/ a.score # None /\ a.score = b.score /\ TieKeyAhead(a, b, rule)

\* Competition ranking: tied entrants share a placement, the next is skipped.
Placement(entries, rule, u) ==
  1 + Cardinality({v \in DOMAIN entries : Ahead(entries[v], entries[u], rule)})

TieGroup(entries, rule, u) ==
  {v \in DOMAIN entries : Placement(entries, rule, v) = Placement(entries, rule, u)}

\* Position of u inside its group: ties are ordered by ascending userId.
IndexInGroup(group, u) == 1 + Cardinality({v \in group : v < u})

-----------------------------------------------------------------------------
(* The engine.                                                             *)

ScoredCount(entries) == Cardinality({u \in DOMAIN entries : entries[u].score # None})

FloorTotal(pool, entries, structure) ==
  IF structure.floor > 0
  THEN MinOf(pool, structure.floor * Cardinality(DOMAIN entries))
  ELSE 0

\* A pool that is not empty needs someone to pay.
HasRecipients(pool, entries) == DOMAIN entries = {} => pool = 0

SettlePool(pool, entries, structure, rule) ==
  LET n          == Cardinality(DOMAIN entries)
      floorTotal == FloorTotal(pool, entries, structure)
      floorShare == EvenSplit(floorTotal, n)
      slots      == IF ScoredCount(entries) > 0 THEN ScoredCount(entries) ELSE n
      vector     == PrizeVector(structure, pool - floorTotal, slots)
  IN  [u \in DOMAIN entries |->
         LET place    == Placement(entries, rule, u)
             group    == TieGroup(entries, rule, u)
             index    == IndexInGroup(group, u)
             occupied == (place .. place + Cardinality(group) - 1) \cap (1..slots)
             combined == SumFunctionOnSet(vector, occupied)
         IN  [placement |-> place,
              payout    |-> floorShare[place + index - 1]
                              + EvenSplit(combined, Cardinality(group))[index]]]

-----------------------------------------------------------------------------
(* What the engine promises of the payouts it computes.                    *)

\* A better placement is never paid less, roundings, floors and shared ties
\* included; tied entrants differ by at most one unit, which goes to the lower
\* userId; and an unscored entrant takes the participation floor and nothing
\* else as soon as someone scored (settle.ts, steps 2 to 4).
PaidInOrder(payouts, entries, structure) ==
  LET Place(u) == payouts[u].placement
      Paid(u)  == payouts[u].payout
  IN  /\ \A u, v \in DOMAIN entries : Place(u) < Place(v) => Paid(u) >= Paid(v)
      /\ \A u, v \in DOMAIN entries : Place(u) = Place(v) /\ u < v => Paid(u) - Paid(v) \in {0, 1}
      /\ (\E u \in DOMAIN entries : entries[u].score # None) =>
           \A u \in DOMAIN entries : entries[u].score = None => Paid(u) <= structure.floor

\* What a structure promises an untied placement is what it is paid: every
\* amount of a placement table whose total is the pool, and every guaranteed
\* minimum the pool covers on top of the floors (types.ts).
PaidItsPrize(payouts, pool, entries, structure) ==
  LET scored   == ScoredCount(entries)
      entrants == Cardinality(DOMAIN entries)
      slots    == IF scored > 0 THEN scored ELSE entrants
      minimums == Fit(structure.minimums, slots)
      Untied(u) == \A v \in DOMAIN entries \ {u} : payouts[v].placement # payouts[u].placement
  IN  /\ structure.minimums = <<>> /\ structure.floor = 0
         /\ Len(structure.weights) <= slots /\ pool = SumFunction(structure.weights) =>
           \A u \in DOMAIN entries : Untied(u) =>
             payouts[u].payout = Fit(structure.weights, entrants)[payouts[u].placement]
      /\ pool >= structure.floor * entrants + SumFunction(minimums) =>
           \A u \in DOMAIN entries : entries[u].score # None /\ Untied(u) =>
             payouts[u].payout >= structure.floor + minimums[payouts[u].placement]

=============================================================================
