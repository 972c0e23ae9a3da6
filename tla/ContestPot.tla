----------------------------- MODULE ContestPot -----------------------------
(***************************************************************************)
(* Contest implements StakePot: the mapping from the lifecycle states, the *)
(* participants and the ledger balances to pots and cash.  A pot has a     *)
(* price from the moment the contest leaves draft, when its definition is  *)
(* frozen, until it is over.                                               *)
(***************************************************************************)
EXTENDS Contest

PhaseOf(c) ==
  CASE state[c] \in {"absent", "draft"}                            -> "planned"
    [] state[c] = "open"                                           -> "collecting"
    [] state[c] \in {"locked", "in_progress", "awaiting_settlement"} -> "running"
    [] OTHER                                                       -> "over"

Phases == [c \in Contests |-> PhaseOf(c)]

Prices ==
  [c \in Contests |-> IF PhaseOf(c) \in {"collecting", "running"} THEN definition[c].amount ELSE 0]

Holders == [c \in Contests |-> IF PhaseOf(c) = "over" THEN {} ELSE Active(c)]

Pot == INSTANCE StakePot WITH
  phase <- Phases, price <- Prices, holders <- Holders, cash <- wallet, kept <- fees

\* Contest implements StakePot: a point leaves a wallet only by joining, and
\* every other movement is a leave, a return of every stake, or one
\* distribution of exactly the pot, whatever the retries, re-entries, scores
\* and roundings (README, "every stake refunded").
ImplementsPot == Pot!PotSpec

=============================================================================
