----------------------------- MODULE MCPayments -----------------------------
(***************************************************************************)
(* Small instances of Payments for TLC: one user, two deposit keys and a   *)
(* withdrawal key of the same amount.                                      *)
(***************************************************************************)
EXTENDS Payments, TLC

CONSTANTS d1, w1, u1

MCIntent ==
  [k \in Keys |->
     [user |-> u1, amount |-> 2,
      direction |-> IF k = d1 THEN "deposit" ELSE "withdrawal"]]

PaymentSymmetry == Permutations(Requests) \cup Permutations(Callbacks)
=============================================================================
