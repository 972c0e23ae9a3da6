------------------------------ MODULE StakePot ------------------------------
(***************************************************************************)
(* What Purse promises of the stakes of a contest, with the ledger, the    *)
(* keys, the scores and the settlement engine left out: stakes go into a   *)
(* pot one at a time at one price, come out one at a time until play       *)
(* starts, and leave together in a single step that either returns every   *)
(* stake or distributes exactly the pot.                                   *)
(***************************************************************************)
EXTENDS Integers, FiniteSets, Functions

CONSTANTS Contests, Users, StartBalance

VARIABLES
  phase,      \* [c] "planned", "collecting", "running" or "over"
  price,      \* [c] the stake, 0 while planned and when over
  holders,    \* [c] the users whose stake is in the pot
  cash,       \* [u] what the user holds outside every pot
  kept        \* what the platform has taken

potVars == <<phase, price, holders, cash, kept>>

PotInit ==
  /\ phase = [c \in Contests |-> "planned"]
  /\ price = [c \in Contests |-> 0]
  /\ holders = [c \in Contests |-> {}]
  /\ cash = [u \in Users |-> StartBalance]
  /\ kept = 0

Announce(c) ==
  /\ phase[c] = "planned"
  /\ phase' = [phase EXCEPT ![c] = "collecting"]
  /\ price'[c] \in Nat \ {0}
  /\ price' = [price EXCEPT ![c] = price'[c]]
  /\ UNCHANGED <<holders, cash, kept>>

Join(c, u) ==
  /\ phase[c] = "collecting"
  /\ u \notin holders[c]
  /\ cash[u] >= price[c]
  /\ holders' = [holders EXCEPT ![c] = @ \cup {u}]
  /\ cash' = [cash EXCEPT ![u] = @ - price[c]]
  /\ UNCHANGED <<phase, price, kept>>

Leave(c, u) ==
  /\ phase[c] = "collecting"
  /\ u \in holders[c]
  /\ holders' = [holders EXCEPT ![c] = @ \ {u}]
  /\ cash' = [cash EXCEPT ![u] = @ + price[c]]
  /\ UNCHANGED <<phase, price, kept>>

Start(c) ==
  /\ phase[c] = "collecting"
  /\ phase' = [phase EXCEPT ![c] = "running"]
  /\ UNCHANGED <<price, holders, cash, kept>>

\* The contest ends without a result: every stake comes back.
Return(c) ==
  /\ phase[c] # "over"
  /\ phase' = [phase EXCEPT ![c] = "over"]
  /\ holders' = [holders EXCEPT ![c] = {}]
  /\ cash' = [u \in Users |-> IF u \in holders[c] THEN cash[u] + price[c] ELSE cash[u]]
  /\ price' = [price EXCEPT ![c] = 0]
  /\ UNCHANGED kept

\* The contest ends with a result: the holders and the platform share the
\* pot, all of it, and the platform takes at most half.
Distribute(c) ==
  LET pot == price[c] * Cardinality(holders[c])
  IN  /\ phase[c] = "running"
      /\ phase' = [phase EXCEPT ![c] = "over"]
      /\ holders' = [holders EXCEPT ![c] = {}]
      /\ \A u \in Users : IF u \in holders[c] THEN cash'[u] >= cash[u] ELSE cash'[u] = cash[u]
      /\ SumFunction([u \in holders[c] |-> cash'[u] - cash[u]]) + (kept' - kept) = pot
      /\ 0 <= kept' - kept /\ 2 * (kept' - kept) <= pot
      /\ price' = [price EXCEPT ![c] = 0]

PotNext ==
  \/ \E c \in Contests : Announce(c) \/ Start(c) \/ Return(c) \/ Distribute(c)
  \/ \E c \in Contests, u \in Users : Join(c, u) \/ Leave(c, u)

PotSpec == PotInit /\ [][PotNext]_potVars

=============================================================================
