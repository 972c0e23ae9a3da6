-------------------------------- MODULE Field --------------------------------
(***************************************************************************)
(* The field of a Sideout tournament: teams, registration and the entry    *)
(* donation that pays for a place (sideout server/teams.ts,                *)
(* registration.ts, field.ts, donations/service.ts and stripe.ts), the     *)
(* organizer's transitions up to going live (server/tournaments.ts) and    *)
(* the first stage of the draw as the set of teams it covers               *)
(* (server/draw.ts).                                                       *)
(*                                                                         *)
(* A registration is a process: it reserves the place in one transaction,  *)
(* creates the payment at the provider and stores its reference in         *)
(* another.  Stripe is external: it takes payments, cancels and refunds    *)
(* them, and its events arrive in any order.  Time is the lapse of a       *)
(* reservation.  A request judges lapses by the time it arrived; here it   *)
(* judges them when it commits, which only accepts more.                   *)
(***************************************************************************)
EXTENDS Naturals, FiniteSets

CONSTANTS
  Teams,       \* teams that may be created
  Captain,     \* the user who creates a team
  Donations,   \* entry donations that may be started
  MaxPlaces,   \* bound: the largest capacity an organizer sets
  MaxMishaps,  \* bound: payments not created, cancelled or refunded in part, processes that
               \* die, registrations reopened, capacities changed, tournaments cancelled
  None         \* absence of a value (null)

ASSUME TeamsAssumption == IsFiniteSet(Teams) /\ None \notin Teams
ASSUME NoneAssumption ==
  None \notin {"pending", "succeeded", "failed", "refunded", "forming", "registered", "withdrawn", "no"}
ASSUME PlacesAssumption == MaxPlaces \in Nat /\ MaxMishaps \in Nat

VARIABLES
  status,      \* tournaments.status, from registration_open to live
  maxTeams,    \* tournaments.max_teams
  drawn,       \* teams in a pool or a round-1 bracket match
  team,        \* teams.status of each team, None before it is created
  creating,    \* createTeam of each user: the team it found, while it runs
  owner,       \* donations.team_id
  donation,    \* donations.status, None before it is created
  lapsed,      \* donations older than the reservation's time to live
  due,         \* donations with a donation.refund_due audit row
  call,        \* what each donation's registration does next
  intent,      \* Stripe: the payment of each donation
  refund,      \* Stripe: how much of it was refunded
  events,      \* Stripe: events on their way
  mishaps

tournament == <<status, maxTeams, drawn>>
stripe == <<intent, refund, events>>
vars == <<tournament, creating, team, owner, donation, lapsed, due, call, stripe, mishaps>>

Mishap == mishaps < MaxMishaps /\ mishaps' = mishaps + 1

Capacities == 2..MaxPlaces

Users == {Captain[t] : t \in Teams}

-----------------------------------------------------------------------------
(* Who holds a place (field.ts).                                           *)

DonationsOf(t) == {d \in Donations : owner[d] = t}

Confirming(d) == donation[d] = "succeeded"
PlaceHolding(d) == Confirming(d) \/ (donation[d] = "pending" /\ d \notin lapsed)

\* The entry was free, or some donation of the team pays for it.
PaidBy(t, Counts(_)) == DonationsOf(t) = {} \/ \E d \in DonationsOf(t) : Counts(d)

HoldsPlace(t) == team[t] = "registered" /\ PaidBy(t, PlaceHolding)
Confirmed(t) == team[t] = "registered" /\ PaidBy(t, Confirming)

Counted == {t \in Teams : HoldsPlace(t)}
ConfirmedTeams == {t \in Teams : Confirmed(t)}

-----------------------------------------------------------------------------
(* Teams (teams.ts).  createTeam takes no lock: what it found may be stale *)
(* when it writes.                                                         *)

ActiveTeams(u) == {t \in Teams : Captain[t] = u /\ team[t] \notin {None, "withdrawn"}}

StartCreate(u) ==
  /\ creating[u] = "no"
  /\ status = "registration_open"
  /\ \/ ActiveTeams(u) = {} /\ creating' = [creating EXCEPT ![u] = None]
     \/ \E t \in ActiveTeams(u) :
          /\ team[t] = "forming"
          /\ creating' = [creating EXCEPT ![u] = t]
  /\ UNCHANGED <<tournament, team, owner, donation, lapsed, due, call, stripe, mishaps>>

\* The captain's own forming team is superseded by the new one.
CreateTeam(t) ==
  LET u == Captain[t]
  IN  /\ creating[u] # "no"
      /\ team[t] = None
      /\ team' = [s \in Teams |-> IF s = t THEN "forming"
                                    ELSE IF s = creating[u] THEN "withdrawn" ELSE team[s]]
      /\ creating' = [creating EXCEPT ![u] = "no"]
      /\ UNCHANGED <<tournament, owner, donation, lapsed, due, call, stripe, mishaps>>

-----------------------------------------------------------------------------
(* What a donation's status does to its team (donations/service.ts).       *)

\* Fault: a refund that is learned of before its payment is dropped.
TransitionsInOrder == [pending   |-> {"succeeded", "failed"},
                       failed    |-> {},
                       succeeded |-> {"refunded"},
                       refunded  |-> {}]

Transitions == [pending   |-> {"succeeded", "failed", "refunded"},
                failed    |-> {"refunded"},
                succeeded |-> {"refunded"},
                refunded  |-> {}]

Moves(d, to) == donation[d] # None /\ to \in Transitions[donation[d]]

OthersOf(d, statuses) ==
  {e \in DonationsOf(owner[d]) : e # d /\ donation[e] \in statuses}

FieldFixed == status \notin {"registration_open", "registration_closed"}

\* Fault: one place too many.
IsFullOffByOne(t) == Cardinality(Counted \ {t}) > maxTeams

\* The place count leaves out the team whose payment is judged.
IsFull(t) == Cardinality(Counted \ {t}) >= maxTeams

\* Fault: a second payment for a place is taken as the first.
NoPlaceOnce(d) == team[owner[d]] = "withdrawn" \/ FieldFixed \/ IsFull(owner[d])

\* Money taken that buys no place: the team withdrew, another donation pays
\* already, the field is fixed, or the event filled up meanwhile.
NoPlace(d) ==
  \/ team[owner[d]] = "withdrawn"
  \/ OthersOf(d, {"succeeded"}) # {}
  \/ FieldFixed
  \/ IsFull(owner[d])

\* A team that did not get its place withdraws, unless it has already or
\* another donation pays for it.
AfterSuccess(d) ==
  IF ~NoPlace(d) THEN "registered"
  ELSE IF team[owner[d]] = "withdrawn" \/ OthersOf(d, {"succeeded"}) # {} THEN team[owner[d]]
  ELSE "withdrawn"

AfterFailure(d) ==
  IF team[owner[d]] = "registered" /\ OthersOf(d, {"pending", "succeeded"}) = {}
  THEN "forming" ELSE team[owner[d]]

AfterRefund(d) ==
  IF team[owner[d]] = "registered" /\ OthersOf(d, {"succeeded"}) = {}
  THEN "withdrawn" ELSE team[owner[d]]

\* The team's status once the donation has moved (syncTeamRegistration).
TeamAfter(d, to) ==
  [succeeded |-> AfterSuccess(d), failed |-> AfterFailure(d), refunded |-> AfterRefund(d)][to]

\* applyDonationStatus: a move that is not in the table changes nothing.
ApplyStatus(d, to) ==
  IF Moves(d, to)
  THEN /\ donation' = [donation EXCEPT ![d] = to]
       /\ team' = [team EXCEPT ![owner[d]] = TeamAfter(d, to)]
       /\ due' = IF to = "succeeded" /\ NoPlace(d) THEN due \cup {d} ELSE due
  ELSE UNCHANGED <<donation, team, due>>

-----------------------------------------------------------------------------
(* Registration (registration.ts).                                         *)

\* Step 1, under the tournament's lock: reserve the place with a pending
\* donation.  A team whose reservation has lapsed may register again.
MayRegister(t) ==
  /\ status = "registration_open"
  /\ team[t] = "forming" \/ (team[t] = "registered" /\ ~HoldsPlace(t))
  /\ Cardinality(Counted) < maxTeams

Register(t, d) ==
  /\ MayRegister(t)
  /\ donation[d] = None
  /\ team' = [team EXCEPT ![t] = "registered"]
  /\ donation' = [donation EXCEPT ![d] = "pending"]
  /\ owner' = [owner EXCEPT ![d] = t]
  /\ call' = [call EXCEPT ![d] = "pay"]
  /\ UNCHANGED <<tournament, creating, lapsed, due, stripe, mishaps>>

\* Step 2: the payment is created at Stripe, its reference is stored, and only
\* then the browser gets what it pays with; or creating it failed.
CreatePayment(d) ==
  /\ call[d] = "pay"
  /\ \/ /\ call' = [call EXCEPT ![d] = "done"]
        /\ intent' = [intent EXCEPT ![d] = "open"]
        /\ UNCHANGED mishaps
     \/ /\ call' = [call EXCEPT ![d] = "fail"]
        /\ Mishap
        /\ UNCHANGED intent
  /\ UNCHANGED <<tournament, creating, team, owner, donation, lapsed, due, refund, events>>

FailDonation(d) ==
  /\ call[d] = "fail"
  /\ ApplyStatus(d, "failed")
  /\ call' = [call EXCEPT ![d] = "done"]
  /\ UNCHANGED <<tournament, creating, owner, lapsed, stripe, mishaps>>

\* The process dies under a registration.
Dies(d) ==
  /\ call[d] \in {"pay", "fail"}
  /\ Mishap
  /\ call' = [call EXCEPT ![d] = "done"]
  /\ UNCHANGED <<tournament, creating, team, owner, donation, lapsed, due, stripe>>

\* A reservation grows older than its time to live.
Lapse(d) ==
  /\ donation[d] = "pending"
  /\ d \notin lapsed
  /\ lapsed' = lapsed \cup {d}
  /\ UNCHANGED <<tournament, creating, team, owner, donation, due, call, stripe, mishaps>>

-----------------------------------------------------------------------------
(* Stripe.                                                                 *)

Pay(d) ==
  /\ intent[d] = "open"
  /\ intent' = [intent EXCEPT ![d] = "paid"]
  /\ events' = events \cup {<<d, "succeeded">>}
  /\ UNCHANGED <<tournament, creating, team, owner, donation, lapsed, due, call, refund, mishaps>>

\* A payment that was superseded by a later registration of its team, or by one
\* of its payments, is cancelled (cancelSupersededPayments), best effort.
Superseded(d) ==
  /\ donation[d] \in {"pending", "failed"}
  /\ \E e \in DonationsOf(owner[d]) \ {d} : intent[e] # "none"

CancelPayment(d) ==
  /\ Mishap
  /\ Superseded(d)
  /\ intent[d] = "open"
  /\ intent' = [intent EXCEPT ![d] = "canceled"]
  /\ events' = events \cup {<<d, "failed">>}
  /\ UNCHANGED <<tournament, creating, team, owner, donation, lapsed, due, call, refund>>

\* charge.refunded carries whether the whole amount has been refunded; a
\* partial refund says that the payment stands.
RefundSays(amount) == IF amount = "whole" THEN "refunded" ELSE "succeeded"

Refund(d, amount) ==
  /\ intent[d] = "paid"
  /\ refund[d] # "whole" /\ refund[d] # amount
  /\ IF amount = "part" THEN Mishap ELSE UNCHANGED mishaps
  /\ refund' = [refund EXCEPT ![d] = amount]
  /\ events' = events \cup {<<d, RefundSays(amount)>>}
  /\ UNCHANGED <<tournament, creating, team, owner, donation, lapsed, due, call, intent>>

\* applyStripeEvent: an event is applied once.
Receive(d, to) ==
  /\ <<d, to>> \in events
  /\ events' = events \ {<<d, to>>}
  /\ ApplyStatus(d, to)
  /\ UNCHANGED <<tournament, creating, owner, lapsed, call, intent, refund, mishaps>>

-----------------------------------------------------------------------------
(* The organizer (tournaments.ts, draw.ts).                                *)

CloseRegistration ==
  /\ status = "registration_open"
  /\ status' = "registration_closed"
  /\ UNCHANGED <<maxTeams, drawn, creating, team, owner, donation, lapsed, due, call, stripe, mishaps>>

\* Reopening discards the draw.
ReopenRegistration ==
  /\ Mishap
  /\ status = "registration_closed"
  /\ status' = "registration_open"
  /\ drawn' = {}
  /\ UNCHANGED <<maxTeams, creating, team, owner, donation, lapsed, due, call, stripe>>

SetMaxTeams(n) ==
  /\ Mishap
  /\ n >= Cardinality(Counted)
  /\ n # maxTeams
  /\ status # "cancelled"
  /\ maxTeams' = n
  /\ UNCHANGED <<status, drawn, creating, team, owner, donation, lapsed, due, call, stripe>>

\* The draw takes the confirmed teams, two at least.
Draw ==
  /\ status = "registration_closed"
  /\ Cardinality(ConfirmedTeams) >= 2
  /\ drawn' = ConfirmedTeams
  /\ UNCHANGED <<status, maxTeams, creating, team, owner, donation, lapsed, due, call, stripe, mishaps>>

\* Fault: a team that is still paying is overlooked.
DrawCoversConfirmed ==
  /\ ConfirmedTeams \subseteq drawn
  /\ drawn \subseteq Counted

\* No confirmed team is left out, no drawn team has lost its place, and no
\* team is still paying for one.
DrawCoversField ==
  /\ ConfirmedTeams \subseteq drawn
  /\ drawn \subseteq Counted
  /\ Counted \ drawn = {}

GoLive ==
  /\ status = "registration_closed"
  /\ drawn # {}
  /\ DrawCoversField
  /\ status' = "live"
  /\ UNCHANGED <<maxTeams, drawn, creating, team, owner, donation, lapsed, due, call, stripe, mishaps>>

Cancel ==
  /\ Mishap
  /\ status # "cancelled"
  /\ status' = "cancelled"
  /\ UNCHANGED <<maxTeams, drawn, creating, team, owner, donation, lapsed, due, call, stripe>>

-----------------------------------------------------------------------------
Init ==
  /\ status = "registration_open"
  /\ maxTeams \in Capacities
  /\ drawn = {}
  /\ team = [t \in Teams |-> None]
  /\ creating = [u \in Users |-> "no"]
  /\ owner = [d \in Donations |-> None]
  /\ donation = [d \in Donations |-> None]
  /\ lapsed = {} /\ due = {} /\ events = {}
  /\ call = [d \in Donations |-> "none"]
  /\ intent = [d \in Donations |-> "none"]
  /\ refund = [d \in Donations |-> "none"]
  /\ mishaps = 0

Next ==
  \/ \E u \in Users : StartCreate(u)
  \/ \E t \in Teams : CreateTeam(t)
  \/ \E d \in Donations :
       \/ \E t \in Teams : Register(t, d)
       \/ CreatePayment(d) \/ FailDonation(d) \/ Dies(d)
       \/ Lapse(d)
       \/ Pay(d) \/ CancelPayment(d)
       \/ \E amount \in {"part", "whole"} : Refund(d, amount)
       \/ \E to \in {"succeeded", "failed", "refunded"} : Receive(d, to)
  \/ CloseRegistration \/ ReopenRegistration \/ Draw \/ GoLive \/ Cancel
  \/ \E n \in Capacities : SetMaxTeams(n)

Spec == Init /\ [][Next]_vars

-----------------------------------------------------------------------------
(* Properties.                                                             *)

DonationStatuses == {"pending", "succeeded", "failed", "refunded"}

\* Every variable has its type, and a donation has its team.
TypeOK ==
  /\ status \in {"registration_open", "registration_closed", "live", "cancelled"}
  /\ maxTeams \in Capacities
  /\ drawn \subseteq Teams
  /\ team \in [Teams -> {"forming", "registered", "withdrawn", None}]
  /\ creating \in [Users -> Teams \cup {"no", None}]
  /\ owner \in [Donations -> Teams \cup {None}]
  /\ donation \in [Donations -> DonationStatuses \cup {None}]
  /\ \A d \in Donations : owner[d] = None <=> donation[d] = None
  /\ lapsed \subseteq Donations /\ due \subseteq Donations
  /\ call \in [Donations -> {"none", "pay", "fail", "done"}]
  /\ intent \in [Donations -> {"none", "open", "paid", "canceled"}]
  /\ refund \in [Donations -> {"none", "part", "whole"}]
  /\ events \subseteq Donations \X {"succeeded", "failed", "refunded"}
  /\ mishaps \in 0..MaxMishaps

\* Confirmed and reserving teams together never exceed the capacity, although
\* reservations lapse, are renewed and are paid for after they lapsed, and the
\* organizer changes the capacity meanwhile.
NeverOverbooked == Cardinality(Counted) <= maxTeams

\* Whoever holds a place in a live tournament is in its draw: no registration,
\* late payment or stale draw puts a team into the field after it was fixed.
LiveFieldIsDrawn == status = "live" => Counted \subseteq drawn

\* Money that was taken and is not named for the organizer to refund.
Pays(d) == donation[d] = "succeeded" /\ d \notin due

\* createTeam withdraws the team it found forming.
Supersedes(s) == \E t \in Teams : CreateTeam(t) /\ creating[Captain[t]] = s

\* Money that was taken and not given back pays for the place of a team, once,
\* or is named for the organizer to refund, in whatever order a renewal, the
\* payments, their cancellations and the refunds are learned of.  One step
\* alone parts a payment from its place: the team's own captain creates
\* another team, having found this one forming before it was paid for (see
\* NoSecondTeam); no step but that one withdraws a team that pays.
EveryPaymentHasItsPlace ==
  [][\A d \in Donations :
       Pays(d)' =>
         /\ OthersOf(d, {"succeeded"})' \subseteq due'
         /\ \/ (team[owner[d]] = "registered")'
            \/ Pays(d) /\ (team[owner[d]] = "withdrawn" \/ Supersedes(owner[d]))]_vars

\* Teams of teams.ts: "Once a team is registered there is no second team."
NoSecondTeam ==
  [][\A s, t \in Teams :
       Captain[s] = Captain[t] /\ team[s] = "registered" => (team'[t] = None <=> team[t] = None)]_vars

\* Once every event of a payment has been applied, the donation counts as
\* raised exactly if Stripe took the money and kept some of it.
BooksFollowStripe ==
  \A d \in Donations :
    (\A e \in events : e[1] # d) =>
      (donation[d] = "succeeded" <=> (intent[d] = "paid" /\ refund[d] # "whole"))

=============================================================================
