------------------------------ MODULE Payments ------------------------------
(***************************************************************************)
(* Purse payments: deposits and withdrawals over a rail                    *)
(* (apps/purse/src/treasury).                                              *)
(*                                                                         *)
(* A request is not one transaction.  It checks, opens the payment row in  *)
(* one transaction, calls the rail with no lock held, and applies the      *)
(* answer in another transaction; it may die between any two of these.     *)
(* Provider callbacks read a payment outside the transaction that moves    *)
(* it.  Requests under one key may overlap: the HTTP layer keeps them      *)
(* apart only while its reservation lives.                                 *)
(***************************************************************************)
EXTENDS Integers, FiniteSets, Sequences, Functions

CONSTANTS
  None,
  Users,
  Keys,          \* idempotency keys
  Intent,        \* [k] what is asked under the key: user, direction, amount
  Requests,      \* deliveries of requests; bounds the retries
  Callbacks      \* deliveries of provider callbacks; bounds them

Directions == {"deposit", "withdrawal"}

ASSUME IntentAssumption ==
  Intent \in [Keys -> [user : Users, direction : Directions, amount : Nat \ {0}]]

ASSUME NoneAssumption == None \notin Keys /\ None \notin Requests

\* There are finitely many users, and of requests only as many as were sent.
ASSUME SizeAssumption == IsFiniteSet(Users) /\ IsFiniteSet(Requests)

VARIABLES
  step,          \* [r] how far the request is
  keyOf,         \* [r] the key it carries
  payment,       \* [r] state of the payment row the request opened, None before
  reference,     \* [r] provider_ref of that row: the key the rail derived it from
  funded,        \* [r] the row carries its ledger entry
  trail,         \* [r] the states of its payment_events, oldest first
  rail,          \* [k] what the provider did under the key
  callback,      \* [b] a callback that has read its payment: row and target
  wallet,        \* [u] balance of the user's CREDIT wallet
  stakes,        \* [u] what of it sits in contest escrows
  custody,       \* balance of the external_settlement account
  restricted     \* users under a self-exclusion, a cool-off or a block

vars == <<step, keyOf, payment, reference, funded, trail, rail, callback,
          wallet, stakes, custody, restricted>>

ledger == <<wallet, stakes, custody>>
row == <<payment, reference, funded, trail>>

User(k) == Intent[k].user
Direction(k) == Intent[k].direction
Amount(k) == Intent[k].amount
DirectionOf(r) == Direction(keyOf[r])

-----------------------------------------------------------------------------
(* The machine (states.ts).                                                *)

Transitions ==
  [deposit |->
     [requires_action |-> {"authorized", "failed", "cancelled"},
      authorized      |-> {"captured", "failed", "cancelled"},
      captured        |-> {"settled", "refunded"},
      settled |-> {}, refunded |-> {}, failed |-> {}, cancelled |-> {}],
   withdrawal |->
     [requested |-> {"in_review", "approved", "failed", "cancelled"},
      in_review |-> {"approved", "failed", "cancelled"},
      approved  |-> {"paid", "returned"},
      paid |-> {}, returned |-> {}, failed |-> {}, cancelled |-> {}]]

States == DOMAIN Transitions.deposit \cup DOMAIN Transitions.withdrawal

ASSUME StatesAssumption == None \notin States \cup {"accepted", "declined"}

TerminalStates == {"settled", "paid", "failed", "cancelled", "refunded", "returned"}

InitialState == [deposit |-> "requires_action", withdrawal |-> "requested"]
FundingState == [deposit |-> "captured", withdrawal |-> "approved"]

CanTransition(direction, from, to) == to \in Transitions[direction][from]

\* Fault: the trigger is missing.
NoTrigger(r, to) == TRUE

\* What the database lets an UPDATE of the row do: a terminal payment keeps
\* its state (0022_treasury_guards.sql).
TriggerAllows(r, to) == payment[r] \in TerminalStates => to = payment[r]

\* Fault: provider references are not unique.
ReferenceUsedAgain(r) == TRUE

\* provider_ref is unique per tenant, and a function of the key at the rail.
ReferenceFree(r) == \A q \in Requests \ {r} : reference[q] # keyOf[r]

-----------------------------------------------------------------------------
(* A request (payments.ts).                                                *)

\* Restrictions, the instrument and a verified identity are read, then the
\* key is looked up: a known key answers with the payment it opened.
Begin(r, k) ==
  /\ step[r] = "idle"
  /\ User(k) \notin restricted
  /\ \A q \in Requests : payment[q] # None => keyOf[q] # k
  /\ step' = [step EXCEPT ![r] = "checked"]
  /\ keyOf' = [keyOf EXCEPT ![r] = k]
  /\ UNCHANGED <<row, rail, callback, ledger, restricted>>

Open(r) ==
  /\ step[r] = "checked"
  /\ step' = [step EXCEPT ![r] = "opened"]
  /\ payment' = [payment EXCEPT ![r] = InitialState[DirectionOf(r)]]
  /\ trail' = [trail EXCEPT ![r] = <<InitialState[DirectionOf(r)]>>]
  /\ UNCHANGED <<keyOf, reference, funded, rail, callback, ledger, restricted>>

\* Fault: the rail is called before the row exists.
CalledBeforeOpen(r) == step[r] \in {"checked", "opened"}

MayCallRail(r) == step[r] = "opened"

\* charge or payout.  The rail answers a repeated key as it did the first time.
CallRail(r) ==
  /\ MayCallRail(r)
  /\ step' = [step EXCEPT ![r] = "answered"]
  /\ \E outcome \in {"accepted", "declined"} :
       rail' = [rail EXCEPT ![keyOf[r]] = IF @ = None THEN outcome ELSE @]
  /\ UNCHANGED <<keyOf, row, callback, ledger, restricted>>

\* A refusal is applied, and nothing was funded.
Fail(r) ==
  /\ step[r] = "answered"
  /\ rail[keyOf[r]] = "declined"
  /\ CanTransition(DirectionOf(r), InitialState[DirectionOf(r)], "failed")
  /\ ReferenceFree(r)
  /\ step' = [step EXCEPT ![r] = "done"]
  /\ payment' = [payment EXCEPT ![r] = "failed"]
  /\ reference' = [reference EXCEPT ![r] = keyOf[r]]
  /\ trail' = [trail EXCEPT ![r] = Append(@, "failed")]
  /\ UNCHANGED <<keyOf, funded, rail, callback, ledger, restricted>>

\* Fault: the rail's fee of one comes out of the user's credit.
CreditLessFee(k) == Amount(k) - 1

\* The wallet is credited the full amount; the fee is the platform's.
Credit(k) == Amount(k)

PostDeposit(k) ==
  /\ wallet' = [wallet EXCEPT ![User(k)] = @ + Credit(k)]
  /\ custody' = custody + Amount(k)

\* A wallet may not go below zero; a refusal rolls everything back.
Covers(k) == wallet[User(k)] >= Amount(k)

PostWithdrawal(k) ==
  /\ Covers(k)
  /\ wallet' = [wallet EXCEPT ![User(k)] = @ - Amount(k)]
  /\ custody' = custody - Amount(k)

\* An acceptance is applied: the row walks to its funding state, the ledger
\* leg is posted and the two are linked, in one transaction.
Fund(r) ==
  LET steps == IF DirectionOf(r) = "deposit" THEN <<"authorized", "captured">> ELSE <<"approved">>
  IN  /\ step[r] = "answered"
      /\ rail[keyOf[r]] = "accepted"
      /\ ReferenceFree(r)
      /\ IF DirectionOf(r) = "deposit" THEN PostDeposit(keyOf[r]) ELSE PostWithdrawal(keyOf[r])
      /\ step' = [step EXCEPT ![r] = "done"]
      /\ payment' = [payment EXCEPT ![r] = FundingState[DirectionOf(r)]]
      /\ reference' = [reference EXCEPT ![r] = keyOf[r]]
      /\ funded' = [funded EXCEPT ![r] = TRUE]
      /\ trail' = [trail EXCEPT ![r] = @ \o steps]
      /\ UNCHANGED <<keyOf, rail, callback, stakes, restricted>>

\* The applying transaction is refused by the reference or by the wallet, and
\* the request ends with an error.
Refuse(r) ==
  /\ step[r] = "answered"
  /\ \/ ~ReferenceFree(r)
     \/ /\ rail[keyOf[r]] = "accepted"
        /\ DirectionOf(r) = "withdrawal"
        /\ ~Covers(keyOf[r])
  /\ step' = [step EXCEPT ![r] = "refused"]
  /\ UNCHANGED <<keyOf, row, rail, callback, ledger, restricted>>

\* The process dies, or the rail's answer is lost.
Die(r) ==
  /\ step[r] \in {"checked", "opened", "answered"}
  /\ step' = [step EXCEPT ![r] = "dead"]
  /\ UNCHANGED <<keyOf, row, rail, callback, ledger, restricted>>

-----------------------------------------------------------------------------
(* Provider callbacks (confirmPayment, returnPayment).                     *)

CallbackTargets == [deposit |-> {"settled", "returned"}, withdrawal |-> {"paid", "returned"}]

\* The payment is read, and the move is judged on what was read.
ReadForCallback(b, r, to) ==
  /\ callback[b].to = "idle"
  /\ payment[r] # None
  /\ to \in CallbackTargets[DirectionOf(r)]
  /\ CanTransition(DirectionOf(r), payment[r], to)
  /\ callback' = [callback EXCEPT ![b] = [payment |-> r, to |-> to]]
  /\ UNCHANGED <<step, keyOf, row, rail, ledger, restricted>>

\* The row is updated by its id alone and the event appended.
ApplyCallback(b) ==
  /\ callback[b].payment # None
  /\ TriggerAllows(callback[b].payment, callback[b].to)
  /\ payment' = [payment EXCEPT ![callback[b].payment] = callback[b].to]
  /\ trail' = [trail EXCEPT ![callback[b].payment] = Append(@, callback[b].to)]
  /\ callback' = [callback EXCEPT ![b] = [payment |-> None, to |-> "done"]]
  /\ UNCHANGED <<step, keyOf, reference, funded, rail, ledger, restricted>>

-----------------------------------------------------------------------------
(* The surroundings.                                                       *)

\* Contests take stakes out of the wallet and give them back.
Stake(u) ==
  /\ wallet[u] > 0
  /\ wallet' = [wallet EXCEPT ![u] = @ - 1]
  /\ stakes' = [stakes EXCEPT ![u] = @ + 1]
  /\ UNCHANGED <<step, keyOf, row, rail, callback, custody, restricted>>

Unstake(u) ==
  /\ stakes[u] > 0
  /\ wallet' = [wallet EXCEPT ![u] = @ + 1]
  /\ stakes' = [stakes EXCEPT ![u] = @ - 1]
  /\ UNCHANGED <<step, keyOf, row, rail, callback, custody, restricted>>

PlaceRestriction(u) ==
  /\ u \notin restricted
  /\ restricted' = restricted \cup {u}
  /\ UNCHANGED <<step, keyOf, row, rail, callback, ledger>>

Init ==
  /\ step = [r \in Requests |-> "idle"]
  /\ keyOf = [r \in Requests |-> None]
  /\ payment = [r \in Requests |-> None]
  /\ reference = [r \in Requests |-> None]
  /\ funded = [r \in Requests |-> FALSE]
  /\ trail = [r \in Requests |-> <<>>]
  /\ rail = [k \in Keys |-> None]
  /\ callback = [b \in Callbacks |-> [payment |-> None, to |-> "idle"]]
  /\ wallet = [u \in Users |-> 0]
  /\ stakes = [u \in Users |-> 0]
  /\ custody = 0
  /\ restricted = {}

Next ==
  \/ \E r \in Requests, k \in Keys : Begin(r, k)
  \/ \E r \in Requests : Open(r) \/ CallRail(r) \/ Fail(r) \/ Fund(r) \/ Refuse(r) \/ Die(r)
  \/ \E b \in Callbacks, r \in Requests, to \in States : ReadForCallback(b, r, to)
  \/ \E b \in Callbacks : ApplyCallback(b)
  \/ \E u \in Users : Stake(u) \/ Unstake(u) \/ PlaceRestriction(u)

Spec == Init /\ [][Next]_vars

-----------------------------------------------------------------------------
(* Properties.                                                             *)

Steps == {"idle", "checked", "opened", "answered", "done", "refused", "dead"}

\* Every variable has its type; wallets never go below zero (I3).  That
\* custody does not is part of CustodyMatchesPayments.
TypeOK ==
  /\ step \in [Requests -> Steps]
  /\ keyOf \in [Requests -> Keys \cup {None}]
  /\ payment \in [Requests -> States \cup {None}]
  /\ reference \in [Requests -> Keys \cup {None}]
  /\ funded \in [Requests -> BOOLEAN]
  /\ rail \in [Keys -> {None, "accepted", "declined"}]
  /\ wallet \in [Users -> Nat]
  /\ stakes \in [Users -> Nat]
  /\ custody \in Int
  /\ restricted \subseteq Users

FundedRequests(direction) == {r \in Requests : funded[r] /\ DirectionOf(r) = direction}
TotalAmount(requests) == SumFunction([r \in requests |-> Amount(keyOf[r])])

\* Custody equals the funded deposits less the funded withdrawals, and also
\* what users hold (I8), with retries overlapping and requests dying between
\* the rail and the ledger.
CustodyMatchesPayments ==
  /\ custody = TotalAmount(FundedRequests("deposit")) - TotalAmount(FundedRequests("withdrawal"))
  /\ custody = SumFunction(wallet) + SumFunction(stakes)

\* A key funds at most one payment, although two deliveries of one request
\* can both find the key unknown and open a row each (payments.ts, "so a
\* retry returns the original rather than charging twice").
KeyFundsOnce ==
  \A q, r \in Requests : funded[q] /\ funded[r] /\ keyOf[q] = keyOf[r] => q = r

\* Whatever the rail has done under a key, and whoever died, there is a
\* payment row under that key to reconcile it against, and a row that says it
\* was funded is backed by the rail (payments.ts, deposit's comment).
RailAndRowsAgree ==
  /\ \A k \in Keys : rail[k] # None => \E r \in Requests : payment[r] # None /\ keyOf[r] = k
  /\ \A r \in Requests : funded[r] => rail[keyOf[r]] = "accepted"

\* A payment ends once and only after it was funded: no interleaving of
\* confirmations and returns, each judged on a stale read, records two
\* different endings or ends a payment that carries no ledger entry.
EndsOnce ==
  \A r \in Requests :
    LET ends == Range(trail[r]) \cap TerminalStates
    IN  /\ Cardinality(ends) <= 1
        /\ payment[r] \in {"settled", "paid", "returned"} => funded[r]

\* What requestWithdrawal's comment says: the wallet is debited before the
\* cash has moved.  Stated only of requests that ran to their end.
PayoutsAreDebited ==
  \A r \in Requests :
    step[r] \in {"done", "refused"} /\ DirectionOf(r) = "withdrawal"
      /\ rail[keyOf[r]] = "accepted"
    => \E q \in Requests : funded[q] /\ keyOf[q] = keyOf[r]

=============================================================================
