---------------------------- MODULE FieldProofs ----------------------------
(***************************************************************************)
(* Proofs about Field, for any number of teams and donations: capacity,    *)
(* the draw of a live tournament, the books of the donations and the       *)
(* places they pay for. The first two rest on one fact about every step:   *)
(* the teams that hold a place grow by one team at most, and only while    *)
(* the field is not fixed and a place is free.                             *)
(***************************************************************************)
EXTENDS Field, FiniteSetTheorems, TLAPS

\* Places are kept for a bounded field, and a live field was drawn.
IInv == TypeOK /\ NeverOverbooked /\ LiveFieldIsDrawn

\* The initial states are typed.
LEMMA InitTypeOK == Init => TypeOK
BY TeamsAssumption, PlacesAssumption DEF Init, TypeOK, Capacities, DonationStatuses

\* What a donation does to its team leaves the team a status.
LEMMA TeamAfterType ==
  ASSUME TypeOK, NEW d \in Donations, owner[d] \in Teams, NEW to \in {"succeeded", "failed", "refunded"}
  PROVE  TeamAfter(d, to) \in {"forming", "registered", "withdrawn", None}
BY DEF TypeOK, TeamAfter, AfterSuccess, AfterFailure, AfterRefund

\* A move of a donation keeps the types of what it changes.
LEMMA ApplyStatusType ==
  ASSUME TypeOK, NEW d \in Donations, NEW to \in {"succeeded", "failed", "refunded"}, ApplyStatus(d, to)
  PROVE  /\ donation' \in [Donations -> DonationStatuses \cup {None}]
         /\ \A e \in Donations : donation'[e] = None <=> donation[e] = None
         /\ team' \in [Teams -> {"forming", "registered", "withdrawn", None}]
         /\ due' \subseteq Donations
<1>1. CASE Moves(d, to)
  <2>1. owner[d] \in Teams
    BY <1>1 DEF Moves, TypeOK
  <2>2. TeamAfter(d, to) \in {"forming", "registered", "withdrawn", None}
    BY <2>1, TeamAfterType
  <2>3. /\ donation' = [donation EXCEPT ![d] = to]
        /\ team' = [team EXCEPT ![owner[d]] = TeamAfter(d, to)]
        /\ due' \subseteq due \cup {d}
    BY <1>1 DEF ApplyStatus
  <2>4. donation[d] # None /\ to # None
    BY <1>1, NoneAssumption DEF Moves
  <2> QED
    BY <2>1, <2>2, <2>3, <2>4 DEF TypeOK, DonationStatuses
<1>2. CASE ~Moves(d, to)
  BY <1>2 DEF ApplyStatus, TypeOK
<1> QED
  BY <1>1, <1>2

\* Every step keeps the types.
LEMMA StepTypeOK == TypeOK /\ [Next]_vars => TypeOK'
<1> SUFFICES ASSUME TypeOK, [Next]_vars PROVE TypeOK'
  OBVIOUS
<1> USE TeamsAssumption, NoneAssumption DEF TypeOK, DonationStatuses, Mishap, tournament, stripe
<1>1. ASSUME NEW u \in Users, StartCreate(u) PROVE TypeOK'
  BY <1>1 DEF StartCreate, ActiveTeams
<1>2. ASSUME NEW t \in Teams, CreateTeam(t) PROVE TypeOK'
  BY <1>2 DEF CreateTeam
<1>3. ASSUME NEW d \in Donations, NEW t \in Teams, Register(t, d) PROVE TypeOK'
  BY <1>3 DEF Register
<1>4. ASSUME NEW d \in Donations, CreatePayment(d) PROVE TypeOK'
  BY <1>4, PlacesAssumption DEF CreatePayment
<1>5. ASSUME NEW d \in Donations, FailDonation(d) PROVE TypeOK'
  BY <1>5, ApplyStatusType DEF FailDonation
<1>6. ASSUME NEW d \in Donations, Dies(d) PROVE TypeOK'
  BY <1>6, PlacesAssumption DEF Dies
<1>7. ASSUME NEW d \in Donations, Lapse(d) PROVE TypeOK'
  BY <1>7 DEF Lapse
<1>8. ASSUME NEW d \in Donations, Pay(d) PROVE TypeOK'
  BY <1>8 DEF Pay
<1>9. ASSUME NEW d \in Donations, CancelPayment(d) PROVE TypeOK'
  BY <1>9, PlacesAssumption DEF CancelPayment
<1>10. ASSUME NEW d \in Donations, NEW amount \in {"part", "whole"}, Refund(d, amount) PROVE TypeOK'
  BY <1>10, PlacesAssumption DEF Refund, RefundSays
<1>11. ASSUME NEW d \in Donations, NEW to \in {"succeeded", "failed", "refunded"}, Receive(d, to) PROVE TypeOK'
  BY <1>11, ApplyStatusType DEF Receive
<1>12. ASSUME CloseRegistration \/ ReopenRegistration \/ GoLive \/ Cancel PROVE TypeOK'
  BY <1>12, PlacesAssumption DEF CloseRegistration, ReopenRegistration, GoLive, Cancel
<1>13. ASSUME Draw PROVE TypeOK'
  BY <1>13 DEF Draw, ConfirmedTeams
<1>14. ASSUME NEW n \in Capacities, SetMaxTeams(n) PROVE TypeOK'
  BY <1>14, PlacesAssumption DEF SetMaxTeams
<1>15. CASE UNCHANGED vars
  BY <1>15 DEF vars
<1> QED
  BY <1>1, <1>2, <1>3, <1>4, <1>5, <1>6, <1>7, <1>8, <1>9, <1>10, <1>11, <1>12, <1>13, <1>14, <1>15 DEF Next

-----------------------------------------------------------------------------
(* Who may come to hold a place.                                           *)

\* A step that leaves the donations alone, and registers no team, seats nobody.
LEMMA NobodySeated ==
  ASSUME UNCHANGED <<owner, donation>>, lapsed \subseteq lapsed',
         \A t \in Teams : team'[t] = "registered" => team[t] = "registered"
  PROVE  Counted' \subseteq Counted
BY DEF Counted, HoldsPlace, PaidBy, PlaceHolding, Confirming, DonationsOf

\* Only a payment that finds the field open and a place free seats a team,
\* and it seats no other.
LEMMA PaymentSeats ==
  ASSUME TypeOK, NEW d \in Donations, NEW to \in {"succeeded", "failed", "refunded"},
         ApplyStatus(d, to), UNCHANGED <<owner, lapsed>>
  PROVE  \/ Counted' \subseteq Counted
         \/ /\ owner[d] \in Teams
            /\ ~FieldFixed
            /\ ~IsFull(owner[d])
            /\ Counted' \subseteq Counted \cup {owner[d]}
<1>1. CASE ~Moves(d, to)
  BY <1>1, NobodySeated DEF ApplyStatus
<1> SUFFICES ASSUME Moves(d, to) 
             PROVE  \/ Counted' \subseteq Counted
                    \/ /\ owner[d] \in Teams /\ ~FieldFixed /\ ~IsFull(owner[d])
                       /\ Counted' \subseteq Counted \cup {owner[d]}
  BY <1>1
<1> DEFINE o == owner[d]
<1>2. /\ o \in Teams /\ donation[d] # None
      /\ donation' = [donation EXCEPT ![d] = to]
      /\ team' = [team EXCEPT ![o] = TeamAfter(d, to)]
  BY DEF Moves, TypeOK, ApplyStatus
<1>3. ASSUME NEW t \in Teams, t # o PROVE t \in Counted' => t \in Counted
  <2>1. team'[t] = team[t] /\ \A e \in Donations : owner[e] = t => donation'[e] = donation[e]
    BY <1>2, <1>3 DEF TypeOK
  <2> QED
    BY <2>1 DEF Counted, HoldsPlace, PaidBy, PlaceHolding, Confirming, DonationsOf
<1>4. Counted' \subseteq Counted \cup {o}
  BY <1>3 DEF Counted
<1>5. team'[o] = TeamAfter(d, to) /\ \A e \in Donations : e # d => donation'[e] = donation[e]
  BY <1>2 DEF TypeOK
<1>6. CASE to = "succeeded"
  <2>1. CASE ~NoPlace(d)
    BY <1>2, <1>4, <2>1 DEF NoPlace
  <2>2. CASE NoPlace(d)
    <3>1. TeamAfter(d, to) = "registered" => team[o] = "registered" /\ OthersOf(d, {"succeeded"}) # {}
      BY <1>6, <2>2 DEF TeamAfter, AfterSuccess
    <3>2. o \in Counted' => o \in Counted
      BY <1>2, <1>5, <3>1 DEF Counted, HoldsPlace, PaidBy, PlaceHolding, Confirming, DonationsOf, OthersOf
    <3> QED
      BY <1>4, <3>2
  <2> QED
    BY <2>1, <2>2
<1>7. CASE to # "succeeded"
  <2>1. TeamAfter(d, to) = "registered" => team[o] = "registered"
    BY <1>7 DEF TeamAfter, AfterFailure, AfterRefund
  <2>2. donation'[d] \notin {"succeeded", "pending"}
    BY <1>2, <1>7 DEF TypeOK
  <2>3. o \in Counted' => o \in Counted
    BY <1>2, <1>5, <2>1, <2>2 DEF Counted, HoldsPlace, PaidBy, PlaceHolding, Confirming, DonationsOf
  <2> QED
    BY <1>4, <2>3
<1> QED
  BY <1>6, <1>7

\* Every step seats nobody, or one team in an open field with a place free.
LEMMA StepSeats ==
  ASSUME TypeOK, [Next]_vars
  PROVE  \/ Counted' \subseteq Counted
         \/ \E t \in Teams : ~FieldFixed /\ ~IsFull(t) /\ Counted' \subseteq Counted \cup {t}
                             /\ UNCHANGED <<status, maxTeams>>
<1> DEFINE Goal == \/ Counted' \subseteq Counted
                   \/ \E t \in Teams : ~FieldFixed /\ ~IsFull(t) /\ Counted' \subseteq Counted \cup {t}
                                       /\ UNCHANGED <<status, maxTeams>>
<1> USE DEF tournament, stripe
<1>1. ASSUME NEW u \in Users, StartCreate(u) PROVE Goal
  BY <1>1, NobodySeated DEF StartCreate
<1>2. ASSUME NEW t \in Teams, CreateTeam(t) PROVE Goal
  BY <1>2, NobodySeated DEF CreateTeam, TypeOK
<1>3. ASSUME NEW d \in Donations, NEW t \in Teams, Register(t, d) PROVE Goal
  <2>1. /\ ~FieldFixed /\ t \notin Counted /\ Cardinality(Counted) < maxTeams
        /\ owner[d] = None /\ UNCHANGED <<status, maxTeams, lapsed>>
        /\ team' = [team EXCEPT ![t] = "registered"]
        /\ donation' = [donation EXCEPT ![d] = "pending"]
        /\ owner' = [owner EXCEPT ![d] = t]
    BY <1>3 DEF Register, MayRegister, FieldFixed, Counted, HoldsPlace, TypeOK
  <2>2. Counted \ {t} = Counted
    BY <2>1
  <2>3. ~IsFull(t)
    <3>1. Cardinality(Counted) \in Nat
      BY TeamsAssumption, FS_CardinalityType, FS_Subset DEF Counted
    <3>2. Cardinality(Counted \ {t}) = Cardinality(Counted)
      BY <2>2, Zenon
    <3>3. maxTeams \in Nat
      BY DEF TypeOK, Capacities
    <3> QED
      BY <2>1, <3>1, <3>2, <3>3 DEF IsFull
  <2>4. ASSUME NEW s \in Teams, s # t PROVE s \in Counted' => s \in Counted
    <3>1. team'[s] = team[s] /\ \A e \in Donations : owner'[e] = s <=> owner[e] = s
      BY <2>1, <2>4, TeamsAssumption DEF TypeOK
    <3>2. \A e \in Donations : owner[e] = s => donation'[e] = donation[e]
      BY <2>1, TeamsAssumption DEF TypeOK
    <3> QED
      BY <2>1, <3>1, <3>2 DEF Counted, HoldsPlace, PaidBy, PlaceHolding, Confirming, DonationsOf
  <2>5. Counted' \subseteq Counted \cup {t}
    BY <2>4 DEF Counted
  <2> QED
    BY <2>1, <2>3, <2>5
<1>4. ASSUME NEW d \in Donations, CreatePayment(d) \/ Dies(d) \/ Lapse(d) \/ Pay(d) \/ CancelPayment(d) PROVE Goal
  BY <1>4, NobodySeated DEF CreatePayment, Dies, Lapse, Pay, CancelPayment
<1>5. ASSUME NEW d \in Donations, FailDonation(d) PROVE Goal
  <2>1. ApplyStatus(d, "failed") /\ UNCHANGED <<owner, lapsed, status, maxTeams>>
    BY <1>5 DEF FailDonation
  <2> QED
    BY <2>1, PaymentSeats
<1>6. ASSUME NEW d \in Donations, NEW amount \in {"part", "whole"}, Refund(d, amount) PROVE Goal
  BY <1>6, NobodySeated DEF Refund
<1>7. ASSUME NEW d \in Donations, NEW to \in {"succeeded", "failed", "refunded"}, Receive(d, to) PROVE Goal
  <2>1. ApplyStatus(d, to) /\ UNCHANGED <<owner, lapsed, status, maxTeams>>
    BY <1>7 DEF Receive
  <2> QED
    BY <2>1, PaymentSeats
<1>8. ASSUME CloseRegistration \/ ReopenRegistration \/ GoLive \/ Cancel \/ Draw PROVE Goal
  BY <1>8, NobodySeated DEF CloseRegistration, ReopenRegistration, GoLive, Cancel, Draw
<1>9. ASSUME NEW n \in Capacities, SetMaxTeams(n) PROVE Goal
  BY <1>9, NobodySeated DEF SetMaxTeams
<1>10. CASE UNCHANGED vars
  BY <1>10, NobodySeated DEF vars
<1> QED
  BY <1>1, <1>2, <1>3, <1>4, <1>5, <1>6, <1>7, <1>8, <1>9, <1>10 DEF Next

-----------------------------------------------------------------------------
(* The invariants.                                                         *)

\* One more team than a set that is not full still fits.
LEMMA OneMoreFits ==
  ASSUME NEW t, NEW S, NEW T, NEW n \in Nat, IsFiniteSet(S),
         ~(Cardinality(S \ {t}) >= n), T \subseteq S \cup {t}
  PROVE  Cardinality(T) <= n
<1>1. IsFiniteSet(S \ {t}) /\ t \notin S \ {t}
  BY FS_Difference, FS_Singleton
<1>2. Cardinality((S \ {t}) \cup {t}) = Cardinality(S \ {t}) + 1 /\ IsFiniteSet((S \ {t}) \cup {t})
  BY <1>1, FS_AddElement
<1>3. T \subseteq (S \ {t}) \cup {t}
  OBVIOUS
<1>4. Cardinality(T) <= Cardinality((S \ {t}) \cup {t})
  BY <1>2, <1>3, FS_Subset
<1>5. Cardinality(S \ {t}) \in Nat /\ Cardinality(T) \in Nat
  BY <1>1, <1>2, <1>3, FS_Subset, FS_CardinalityType
<1> QED
  BY <1>2, <1>4, <1>5

\* The capacity changes only to one that the field fits in.
LEMMA CapacityKept ==
  ASSUME [Next]_vars
  PROVE  maxTeams' = maxTeams \/ Cardinality(Counted) <= maxTeams'
<1>1. ASSUME NEW n \in Capacities, SetMaxTeams(n) PROVE n >= Cardinality(Counted) /\ maxTeams' = n
  BY <1>1 DEF SetMaxTeams
<1> QED
  BY <1>1 DEF Next, vars, tournament, StartCreate, CreateTeam, Register, CreatePayment, FailDonation, Dies, Lapse, Pay,
              CancelPayment, Refund, Receive, CloseRegistration, ReopenRegistration, Draw, GoLive, Cancel

\* A tournament that is live has been so, or went live with its whole field drawn.
LEMMA LiveStaysDrawn ==
  ASSUME LiveFieldIsDrawn, [Next]_vars, status' = "live"
  PROVE  /\ Counted \subseteq drawn /\ drawn' = drawn
         /\ status # "live" => UNCHANGED <<team, owner, donation, lapsed>>
<1>1. CASE GoLive
  BY <1>1 DEF GoLive, DrawCoversField
<1>2. CASE status = "live" /\ drawn' = drawn
  BY <1>2 DEF LiveFieldIsDrawn
<1> QED
  BY <1>1, <1>2 DEF Next, vars, tournament, StartCreate, CreateTeam, Register, CreatePayment, FailDonation, Dies, Lapse, Pay,
              CancelPayment, Refund, Receive, CloseRegistration, ReopenRegistration, Draw, SetMaxTeams, Cancel

\* The initial field is empty.
LEMMA InitIInv == Init => IInv
<1> SUFFICES ASSUME Init PROVE NeverOverbooked /\ LiveFieldIsDrawn
  BY InitTypeOK DEF IInv
<1>1. Counted = {}
  BY NoneAssumption DEF Init, Counted, HoldsPlace
<1> QED
  BY <1>1, FS_EmptySet DEF Init, NeverOverbooked, LiveFieldIsDrawn, Capacities

\* Every step keeps the field within its capacity, and a live one within its draw.
LEMMA StepIInv == IInv /\ [Next]_vars => IInv'
<1> SUFFICES ASSUME IInv, [Next]_vars PROVE IInv'
  OBVIOUS
<1>1. TypeOK /\ TypeOK'
  BY StepTypeOK DEF IInv
<1>2. IsFiniteSet(Counted) /\ IsFiniteSet(Counted')
  BY TeamsAssumption, FS_Subset DEF Counted
<1>3. Cardinality(Counted) \in Nat /\ Cardinality(Counted') \in Nat
  BY <1>2, FS_CardinalityType
<1>4. NeverOverbooked'
  <2>1. CASE Counted' \subseteq Counted
    <3>1. Cardinality(Counted') <= Cardinality(Counted)
      BY <1>2, <2>1, FS_Subset
    <3>2. maxTeams' = maxTeams \/ Cardinality(Counted) <= maxTeams'
      BY CapacityKept
    <3> QED
      BY <1>1, <1>3, <3>1, <3>2 DEF IInv, NeverOverbooked, TypeOK, Capacities
  <2>2. CASE \E t \in Teams : ~FieldFixed /\ ~IsFull(t) /\ Counted' \subseteq Counted \cup {t}
                              /\ UNCHANGED <<status, maxTeams>>
    <3>1. PICK t \in Teams : ~IsFull(t) /\ Counted' \subseteq Counted \cup {t} /\ maxTeams' = maxTeams
      BY <2>2
    <3>2. maxTeams \in Nat
      BY <1>1 DEF TypeOK, Capacities
    <3> QED
      BY <1>2, <3>1, <3>2, OneMoreFits DEF IsFull, NeverOverbooked
  <2> QED
    BY <1>1, <2>1, <2>2, StepSeats
<1>5. LiveFieldIsDrawn'
  <2> SUFFICES ASSUME status' = "live" PROVE Counted' \subseteq drawn'
    BY DEF LiveFieldIsDrawn
  <2>1. /\ Counted \subseteq drawn /\ drawn' = drawn
        /\ status # "live" => UNCHANGED <<team, owner, donation, lapsed>>
    BY LiveStaysDrawn DEF IInv
  <2>2. Counted' \subseteq Counted
    BY <1>1, <2>1, StepSeats, NobodySeated DEF FieldFixed
  <2> QED
    BY <2>1, <2>2
<1> QED
  BY <1>1, <1>4, <1>5 DEF IInv

\* The variables keep their types.
THEOREM TypeCorrect == Spec => []TypeOK
<1>1. Init => TypeOK
  BY InitTypeOK
<1>2. TypeOK /\ [Next]_vars => TypeOK'
  BY StepTypeOK
<1> QED
  BY <1>1, <1>2, PTL DEF Spec

\* However reservations lapse and are renewed and payments come in, confirmed
\* and reserving teams together never exceed the capacity (registration.ts,
\* field.ts).
THEOREM NeverOverbookedHolds == Spec => []NeverOverbooked
<1>1. Init => IInv
  BY InitIInv
<1>2. IInv /\ [Next]_vars => IInv'
  BY StepIInv
<1>3. IInv => NeverOverbooked
  BY DEF IInv
<1> QED
  BY <1>1, <1>2, <1>3, PTL DEF Spec

\* Whoever holds a place in a live tournament is in its draw (tournaments.ts,
\* teamsOutsideDraw; donations/service.ts, the fixed field).
THEOREM LiveFieldIsDrawnHolds == Spec => []LiveFieldIsDrawn
<1>1. Init => IInv
  BY InitIInv
<1>2. IInv /\ [Next]_vars => IInv'
  BY StepIInv
<1>3. IInv => LiveFieldIsDrawn
  BY DEF IInv
<1> QED
  BY <1>1, <1>2, <1>3, PTL DEF Spec

-----------------------------------------------------------------------------
(* Donations and payments.                                                 *)

\* What the books may say of a payment in each of its states at Stripe, given
\* the events that are still on their way: each state has one event that is
\* yet to move the donation, or has moved it already.
BooksMatch(d) ==
  /\ donation[d] = None => intent[d] = "none"
  /\ call[d] \in {"pay", "fail"} => donation[d] = "pending" /\ intent[d] = "none"
  /\ intent[d] \in {"none", "open"} => refund[d] = "none" /\ \A to \in DonationStatuses : <<d, to>> \notin events
  /\ intent[d] = "none" => donation[d] \in {None, "pending", "failed"}
  /\ intent[d] = "open" => donation[d] = "pending"
  /\ intent[d] = "canceled" =>
       /\ donation[d] = "failed" \/ (donation[d] = "pending" /\ <<d, "failed">> \in events)
       /\ refund[d] = "none" /\ <<d, "succeeded">> \notin events /\ <<d, "refunded">> \notin events
  /\ intent[d] = "paid" => <<d, "failed">> \notin events
  /\ intent[d] = "paid" /\ refund[d] # "whole" =>
       /\ donation[d] = "succeeded" \/ (donation[d] = "pending" /\ <<d, "succeeded">> \in events)
       /\ <<d, "refunded">> \notin events
  /\ intent[d] = "paid" /\ refund[d] = "whole" =>
       donation[d] = "refunded" \/ (donation[d] \in {"pending", "succeeded"} /\ <<d, "refunded">> \in events)

BooksInv == \A d \in Donations : BooksMatch(d)

\* What a step does not touch of a donation and its payment still matches.
LEMMA UntouchedMatches ==
  ASSUME NEW d \in Donations, BooksMatch(d), donation'[d] = donation[d], call'[d] = call[d],
         intent'[d] = intent[d], refund'[d] = refund[d],
         \A to \in DonationStatuses : <<d, to>> \in events' <=> <<d, to>> \in events
  PROVE  BooksMatch(d)'
BY DEF BooksMatch, DonationStatuses

\* A donation's move leaves the other donations alone, and moves it by the table.
LEMMA ApplyStatusMoves ==
  ASSUME TypeOK, NEW d \in Donations, NEW to \in {"succeeded", "failed", "refunded"}, ApplyStatus(d, to)
  PROVE  /\ \A e \in Donations : e # d => donation'[e] = donation[e]
         /\ donation'[d] = IF donation[d] = "pending" \/ (donation[d] \in {"failed", "succeeded"} /\ to = "refunded")
                           THEN to ELSE donation[d]
<1>1. donation[d] \in DonationStatuses \cup {None}
  BY DEF TypeOK
<1>2. CASE Moves(d, to)
  <2>1. donation' = [donation EXCEPT ![d] = to]
    BY <1>2 DEF ApplyStatus
  <2>2. donation'[d] = to /\ \A e \in Donations : e # d => donation'[e] = donation[e]
    BY <2>1 DEF TypeOK
  <2>3. donation[d] = "pending" \/ (donation[d] \in {"failed", "succeeded"} /\ to = "refunded")
    BY <1>1, <1>2 DEF Moves, Transitions, DonationStatuses
  <2> QED
    BY <2>2, <2>3
<1>3. CASE ~Moves(d, to)
  <2>1. donation' = donation
    BY <1>3 DEF ApplyStatus
  <2>2. ~(donation[d] = "pending" \/ (donation[d] \in {"failed", "succeeded"} /\ to = "refunded"))
    BY <1>3, NoneAssumption DEF Moves, Transitions
  <2> QED
    BY <2>1, <2>2
<1> QED
  BY <1>2, <1>3

\* Every step keeps the books in line with Stripe and its events.
LEMMA StepBooksInv == TypeOK /\ BooksInv /\ [Next]_vars => BooksInv'
<1> SUFFICES ASSUME TypeOK, BooksInv, [Next]_vars, NEW x \in Donations PROVE BooksMatch(x)'
  BY DEF BooksInv
<1> BooksMatch(x)
  BY DEF BooksInv
<1> DEFINE Untouched == /\ donation'[x] = donation[x] /\ call'[x] = call[x]
                        /\ intent'[x] = intent[x] /\ refund'[x] = refund[x]
                        /\ \A to \in DonationStatuses : <<x, to>> \in events' <=> <<x, to>> \in events
<1>0. Untouched => BooksMatch(x)'
  BY UntouchedMatches
<1> USE DEF stripe
<1>1. ASSUME NEW u \in Users, StartCreate(u) PROVE BooksMatch(x)'
  BY <1>0, <1>1 DEF StartCreate
<1>2. ASSUME NEW t \in Teams, CreateTeam(t) PROVE BooksMatch(x)'
  BY <1>0, <1>2 DEF CreateTeam
<1>3. ASSUME NEW d \in Donations, NEW t \in Teams, Register(t, d) PROVE BooksMatch(x)'
  <2>1. CASE x # d
    BY <1>0, <1>3, <2>1 DEF Register, TypeOK
  <2>2. CASE x = d
    <3>1. /\ donation[x] = None /\ donation'[x] = "pending" /\ call'[x] = "pay"
          /\ UNCHANGED <<intent, refund, events>>
      BY <1>3, <2>2 DEF Register, TypeOK
    <3> QED
      BY <3>1 DEF BooksMatch, DonationStatuses
  <2> QED
    BY <2>1, <2>2
<1>4. ASSUME NEW d \in Donations, CreatePayment(d) PROVE BooksMatch(x)'
  <2>1. CASE x # d
    BY <1>0, <1>4, <2>1 DEF CreatePayment, TypeOK
  <2>2. CASE x = d
    <3>1. /\ call[x] = "pay" /\ UNCHANGED <<donation, refund, events>>
          /\ \/ call'[x] = "done" /\ intent'[x] = "open"
             \/ call'[x] = "fail" /\ intent'[x] = intent[x]
      BY <1>4, <2>2 DEF CreatePayment, TypeOK
    <3> QED
      BY <3>1, NoneAssumption DEF BooksMatch, DonationStatuses
  <2> QED
    BY <2>1, <2>2
<1>5. ASSUME NEW d \in Donations, FailDonation(d) PROVE BooksMatch(x)'
  <2>1. /\ call[d] = "fail" /\ ApplyStatus(d, "failed") /\ call'[d] = "done"
        /\ \A e \in Donations : e # d => call'[e] = call[e]
        /\ UNCHANGED <<intent, refund, events>>
    BY <1>5 DEF FailDonation, TypeOK
  <2>2. CASE x # d
    BY <1>0, <2>1, <2>2, ApplyStatusMoves
  <2>3. CASE x = d
    <3>1. donation[x] = "pending" /\ intent[x] = "none"
      BY <2>1, <2>3 DEF BooksMatch
    <3>2. donation'[x] = "failed"
      BY <2>1, <2>3, <3>1, ApplyStatusMoves
    <3> QED
      BY <2>1, <2>3, <3>1, <3>2, NoneAssumption DEF BooksMatch, DonationStatuses
  <2> QED
    BY <2>2, <2>3
<1>6. ASSUME NEW d \in Donations, Dies(d) PROVE BooksMatch(x)'
  <2>1. /\ \A e \in Donations : e # d => call'[e] = call[e]
        /\ call'[d] = "done"
        /\ UNCHANGED <<donation, intent, refund, events>>
    BY <1>6 DEF Dies, TypeOK
  <2>2. CASE x # d
    BY <1>0, <2>1, <2>2
  <2>3. CASE x = d
    BY <2>1, <2>3 DEF BooksMatch, DonationStatuses
  <2> QED
    BY <2>2, <2>3
<1>7. ASSUME NEW d \in Donations, Lapse(d) PROVE BooksMatch(x)'
  BY <1>0, <1>7 DEF Lapse
<1>8. ASSUME NEW d \in Donations, Pay(d) PROVE BooksMatch(x)'
  <2>1. /\ intent[d] = "open" /\ events' = events \cup {<<d, "succeeded">>}
        /\ \A e \in Donations : e # d => intent'[e] = intent[e]
        /\ intent'[d] = "paid"
        /\ UNCHANGED <<donation, call, refund>>
    BY <1>8 DEF Pay, TypeOK
  <2>2. CASE x # d
    BY <1>0, <2>1, <2>2
  <2>3. CASE x = d
    BY <2>1, <2>3, NoneAssumption DEF BooksMatch, DonationStatuses
  <2> QED
    BY <2>2, <2>3
<1>9. ASSUME NEW d \in Donations, CancelPayment(d) PROVE BooksMatch(x)'
  <2>1. /\ intent[d] = "open" /\ events' = events \cup {<<d, "failed">>}
        /\ \A e \in Donations : e # d => intent'[e] = intent[e]
        /\ intent'[d] = "canceled"
        /\ UNCHANGED <<donation, call, refund>>
    BY <1>9 DEF CancelPayment, TypeOK
  <2>2. CASE x # d
    BY <1>0, <2>1, <2>2
  <2>3. CASE x = d
    BY <2>1, <2>3, NoneAssumption DEF BooksMatch, DonationStatuses
  <2> QED
    BY <2>2, <2>3
<1>10. ASSUME NEW d \in Donations, NEW amount \in {"part", "whole"}, Refund(d, amount) PROVE BooksMatch(x)'
  <2>1. /\ intent[d] = "paid" /\ refund[d] # "whole"
        /\ events' = events \cup {<<d, RefundSays(amount)>>}
        /\ \A e \in Donations : e # d => refund'[e] = refund[e]
        /\ refund'[d] = amount
        /\ UNCHANGED <<donation, call, intent>>
    BY <1>10 DEF Refund, TypeOK
  <2>2. CASE x # d
    BY <1>0, <2>1, <2>2
  <2>3. CASE x = d /\ amount = "whole"
    BY <2>1, <2>3, NoneAssumption DEF BooksMatch, DonationStatuses, RefundSays
  <2>4. CASE x = d /\ amount = "part"
    BY <2>1, <2>4, NoneAssumption DEF BooksMatch, DonationStatuses, RefundSays
  <2> QED
    BY <2>2, <2>3, <2>4
<1>11. ASSUME NEW d \in Donations, NEW to \in {"succeeded", "failed", "refunded"}, Receive(d, to) PROVE BooksMatch(x)'
  <2>1. /\ <<d, to>> \in events /\ events' = events \ {<<d, to>>} /\ ApplyStatus(d, to)
        /\ UNCHANGED <<call, intent, refund>>
    BY <1>11 DEF Receive
  <2>2. CASE x # d
    BY <1>0, <2>1, <2>2, ApplyStatusMoves
  <2>3. CASE x = d
    <3> DEFINE now == donation'[x]
               was == donation[x]
    <3>1. now = IF was = "pending" \/ (was \in {"failed", "succeeded"} /\ to = "refunded") THEN to ELSE was
      BY <2>1, <2>3, ApplyStatusMoves
    <3>2. intent[x] \in {"canceled", "paid"}
      BY <2>1, <2>3 DEF BooksMatch, DonationStatuses, TypeOK
    <3>3. CASE intent[x] = "canceled"
      BY <2>1, <2>3, <3>1, <3>3, NoneAssumption DEF BooksMatch, DonationStatuses
    <3>4. CASE intent[x] = "paid" /\ refund[x] # "whole"
      BY <2>1, <2>3, <3>1, <3>4, NoneAssumption DEF BooksMatch, DonationStatuses
    <3>5. CASE intent[x] = "paid" /\ refund[x] = "whole"
      BY <2>1, <2>3, <3>1, <3>5, NoneAssumption DEF BooksMatch, DonationStatuses
    <3> QED
      BY <3>2, <3>3, <3>4, <3>5
  <2> QED
    BY <2>2, <2>3
<1>12. ASSUME CloseRegistration \/ ReopenRegistration \/ GoLive \/ Cancel \/ Draw PROVE BooksMatch(x)'
  BY <1>0, <1>12 DEF CloseRegistration, ReopenRegistration, GoLive, Cancel, Draw
<1>13. ASSUME NEW n \in Capacities, SetMaxTeams(n) PROVE BooksMatch(x)'
  BY <1>0, <1>13 DEF SetMaxTeams
<1>14. CASE UNCHANGED vars
  BY <1>0, <1>14 DEF vars
<1> QED
  BY <1>1, <1>2, <1>3, <1>4, <1>5, <1>6, <1>7, <1>8, <1>9, <1>10, <1>11, <1>12, <1>13, <1>14 DEF Next

\* Once its events have been applied, a donation counts as raised exactly if
\* Stripe took the money and kept some of it, in whatever order payments,
\* cancellations, refunds and their events come (donations/service.ts, the
\* table of moves; donations/stripe.ts).
THEOREM BooksFollowStripeHolds == Spec => []BooksFollowStripe
<1>1. Init => TypeOK /\ BooksInv
  BY InitTypeOK DEF Init, BooksInv, BooksMatch, DonationStatuses
<1>2. TypeOK /\ BooksInv /\ [Next]_vars => TypeOK' /\ BooksInv'
  BY StepTypeOK, StepBooksInv
<1>3. TypeOK /\ BooksInv => BooksFollowStripe
  <2> SUFFICES ASSUME TypeOK, BooksInv, NEW d \in Donations, \A e \in events : e[1] # d
               PROVE  donation[d] = "succeeded" <=> (intent[d] = "paid" /\ refund[d] # "whole")
    BY DEF BooksFollowStripe
  <2>1. \A to : <<d, to>> \notin events
    OBVIOUS
  <2>2. BooksMatch(d) /\ intent[d] \in {"none", "open", "paid", "canceled"}
    BY DEF BooksInv, TypeOK
  <2> QED
    BY <2>1, <2>2, NoneAssumption DEF BooksMatch
<1> QED
  BY <1>1, <1>2, <1>3, PTL DEF Spec

-----------------------------------------------------------------------------
(* What a payment buys.                                                    *)

\* A payment that stands, and is not to be refunded, pays for a team alone;
\* the team has its place, or was withdrawn since.
PlaceOf(d) ==
  Pays(d) => /\ team[owner[d]] \in {"registered", "withdrawn"}
             /\ \A e \in Donations : e # d /\ owner[e] = owner[d] /\ donation[e] = "succeeded" => e \in due

PlacesInv == \A d \in Donations : PlaceOf(d)

\* After the step a payment has its place alone, unless its team was withdrawn
\* before or its captain supersedes it now.
Placed(d) ==
  Pays(d)' =>
    /\ OthersOf(d, {"succeeded"})' \subseteq due'
    /\ \/ (team[owner[d]] = "registered")'
       \/ Pays(d) /\ (team[owner[d]] = "withdrawn" \/ Supersedes(owner[d]))

AllPlaced == \A d \in Donations : Placed(d)

\* The same in other words, for one payment.
LEMMA PlacedAlone ==
  ASSUME NEW x \in Donations,
         team'[owner'[x]] \in {"registered", "withdrawn"},
         \A e \in Donations : e # x /\ owner'[e] = owner'[x] /\ donation'[e] = "succeeded" => e \in due',
         \/ team'[owner'[x]] = "registered"
         \/ Pays(x) /\ (team[owner[x]] = "withdrawn" \/ Supersedes(owner[x]))
  PROVE  PlaceOf(x)' /\ Placed(x)
BY DEF PlaceOf, Placed, OthersOf, DonationsOf

\* Steps that move no donation, and withdraw a team only for its captain's next.
LEMMA PlacesStay ==
  ASSUME TypeOK, PlacesInv, UNCHANGED <<owner, donation, due>>,
         \A s \in Teams : team[s] \in {"registered", "withdrawn"} =>
           team'[s] = team[s] \/ (team'[s] = "withdrawn" /\ Supersedes(s))
  PROVE  PlacesInv' /\ AllPlaced
<1>1. ASSUME NEW x \in Donations PROVE PlaceOf(x)' /\ Placed(x)
  <2>1. CASE ~Pays(x)'
    BY <2>1 DEF PlaceOf, Placed
  <2>2. CASE Pays(x)'
    <3>1. Pays(x) /\ PlaceOf(x)
      BY <2>2 DEF Pays, PlacesInv
    <3>2. owner[x] \in Teams
      BY <3>1, NoneAssumption DEF Pays, TypeOK
    <3>3. /\ team[owner[x]] \in {"registered", "withdrawn"}
          /\ \A e \in Donations : e # x /\ owner'[e] = owner'[x] /\ donation'[e] = "succeeded" => e \in due'
      BY <3>1 DEF PlaceOf
    <3> QED
      BY <3>1, <3>2, <3>3, PlacedAlone
  <2> QED
    BY <2>1, <2>2
<1> QED
  BY <1>1 DEF PlacesInv, AllPlaced

\* A move of a donation keeps places and payments together: a payment that
\* finds another one, or no place, is named for a refund, and a team is taken
\* out of the field only when no payment stands for it.
LEMMA ApplyStatusPlaces ==
  ASSUME TypeOK, PlacesInv, NEW d \in Donations, NEW to \in {"succeeded", "failed", "refunded"},
         ApplyStatus(d, to), owner' = owner
  PROVE  PlacesInv' /\ AllPlaced
<1>1. CASE ~Moves(d, to)
  BY <1>1, PlacesStay DEF ApplyStatus
<1> SUFFICES ASSUME Moves(d, to), NEW x \in Donations
             PROVE  PlaceOf(x)' /\ Placed(x)
  BY <1>1 DEF PlacesInv, AllPlaced
<1>2. CASE ~Pays(x)'
  BY <1>2 DEF PlaceOf, Placed
<1> SUFFICES ASSUME Pays(x)'
             PROVE  /\ team'[owner[x]] \in {"registered", "withdrawn"}
                    /\ \A e \in Donations : e # x /\ owner[e] = owner[x] /\ donation'[e] = "succeeded" => e \in due'
                    /\ team'[owner[x]] = "registered" \/ (Pays(x) /\ team[owner[x]] = "withdrawn")
  BY <1>2, PlacedAlone
<1> DEFINE o == owner[d]
<1>3. /\ o \in Teams /\ donation[d] # None
      /\ donation' = [donation EXCEPT ![d] = to]
      /\ team' = [team EXCEPT ![o] = TeamAfter(d, to)]
      /\ due' = IF to = "succeeded" /\ NoPlace(d) THEN due \cup {d} ELSE due
  BY DEF Moves, TypeOK, ApplyStatus
<1>4. /\ donation'[d] = to /\ \A e \in Donations : e # d => donation'[e] = donation[e]
      /\ team'[o] = TeamAfter(d, to) /\ \A t \in Teams : t # o => team'[t] = team[t]
  BY <1>3 DEF TypeOK
<1>5. /\ donation'[x] = "succeeded" /\ x \notin due' /\ x \notin due
      /\ x # d => donation[x] = "succeeded"
  BY <1>3, <1>4 DEF Pays
<1>6. owner[x] \in Teams
  <2>1. donation[x] # None
    BY <1>3, <1>5, NoneAssumption
  <2> QED
    BY <2>1 DEF TypeOK
<1>7. x # d => PlaceOf(x) /\ Pays(x)
  BY <1>5 DEF PlacesInv, Pays
<1>8. CASE owner[x] # o
  BY <1>3, <1>4, <1>5, <1>6, <1>7, <1>8 DEF PlaceOf
<1>9. CASE owner[x] = o /\ x # d
  <2>1. x \in OthersOf(d, {"succeeded"}) /\ x \in OthersOf(d, {"pending", "succeeded"})
    BY <1>5, <1>9 DEF OthersOf, DonationsOf
  <2>2. team'[o] = team[o]
    BY <1>4, <2>1 DEF TeamAfter, AfterSuccess, AfterFailure, AfterRefund, NoPlace
  <2>3. to = "succeeded" => d \in due'
    BY <1>3, <2>1 DEF NoPlace
  <2> QED
    BY <1>3, <1>4, <1>7, <1>9, <2>2, <2>3 DEF PlaceOf
<1>10. CASE x = d
  <2>1. donation[d] # "succeeded" \/ to = "refunded"
    BY DEF Moves, Transitions
  <2>2. to = "succeeded" /\ ~NoPlace(d)
    BY <1>3, <1>4, <1>5, <1>10
  <2>3. TeamAfter(d, to) = "registered" /\ OthersOf(d, {"succeeded"}) = {}
    BY <2>2 DEF TeamAfter, AfterSuccess, NoPlace
  <2> QED
    BY <1>4, <1>10, <2>3 DEF OthersOf, DonationsOf
<1> QED
  BY <1>8, <1>9, <1>10

\* A registration reserves a place and brings no payment.
LEMMA RegisterPlaces ==
  ASSUME TypeOK, PlacesInv, NEW d \in Donations, NEW t \in Teams, Register(t, d)
  PROVE  PlacesInv' /\ AllPlaced
<1>1. /\ owner[d] = None /\ donation[d] = None /\ due' = due
      /\ donation'[d] = "pending" /\ \A e \in Donations : e # d => donation'[e] = donation[e]
      /\ owner'[d] = t /\ \A e \in Donations : e # d => owner'[e] = owner[e]
      /\ team'[t] = "registered" /\ \A s \in Teams : s # t => team'[s] = team[s]
  BY DEF Register, TypeOK
<1>2. ASSUME NEW x \in Donations PROVE PlaceOf(x)' /\ Placed(x)
  <2>1. CASE ~Pays(x)'
    BY <2>1 DEF PlaceOf, Placed
  <2>2. CASE Pays(x)'
    <3>1. x # d /\ Pays(x) /\ PlaceOf(x)
      BY <1>1, <2>2 DEF Pays, PlacesInv
    <3>2. owner[x] \in Teams
      BY <3>1, NoneAssumption DEF Pays, TypeOK
    <3>3. \/ team'[owner[x]] = "registered"
          \/ team'[owner[x]] = "withdrawn" /\ team[owner[x]] = "withdrawn"
      BY <1>1, <3>1, <3>2 DEF PlaceOf
    <3>4. \A e \in Donations : e # x /\ owner'[e] = owner'[x] /\ donation'[e] = "succeeded" => e \in due'
      BY <1>1, <3>1 DEF PlaceOf
    <3> QED
      BY <1>1, <3>1, <3>3, <3>4, PlacedAlone
  <2> QED
    BY <2>1, <2>2
<1> QED
  BY <1>2 DEF PlacesInv, AllPlaced

\* Every step keeps the payments and the places together.
LEMMA StepPlacesInv ==
  ASSUME TypeOK, PlacesInv, [Next]_vars
  PROVE  PlacesInv' /\ AllPlaced
<1>0. UNCHANGED <<owner, donation, due, team>> => PlacesInv' /\ AllPlaced
  BY PlacesStay
<1> USE DEF tournament, stripe
<1>1. ASSUME NEW u \in Users, StartCreate(u) PROVE PlacesInv' /\ AllPlaced
  BY <1>0, <1>1 DEF StartCreate
<1>2. ASSUME NEW t \in Teams, CreateTeam(t) PROVE PlacesInv' /\ AllPlaced
  <2>1. /\ team[t] = None /\ UNCHANGED <<owner, donation, due>>
        /\ \A s \in Teams : team'[s] = IF s = t THEN "forming"
                                        ELSE IF s = creating[Captain[t]] THEN "withdrawn" ELSE team[s]
    BY <1>2 DEF CreateTeam
  <2>2. \A s \in Teams : s = creating[Captain[t]] => Supersedes(s)
    BY <1>2 DEF Supersedes
  <2>3. None \notin {"registered", "withdrawn"}
    BY NoneAssumption
  <2> QED
    BY <2>1, <2>2, <2>3, PlacesStay
<1>3. ASSUME NEW d \in Donations, NEW t \in Teams, Register(t, d) PROVE PlacesInv' /\ AllPlaced
  BY <1>3, RegisterPlaces
<1>4. ASSUME NEW d \in Donations, CreatePayment(d) \/ Dies(d) \/ Lapse(d) \/ Pay(d) \/ CancelPayment(d)
      PROVE  PlacesInv' /\ AllPlaced
  BY <1>0, <1>4 DEF CreatePayment, Dies, Lapse, Pay, CancelPayment
<1>5. ASSUME NEW d \in Donations, FailDonation(d) PROVE PlacesInv' /\ AllPlaced
  BY <1>5, ApplyStatusPlaces DEF FailDonation
<1>6. ASSUME NEW d \in Donations, NEW amount \in {"part", "whole"}, Refund(d, amount)
      PROVE  PlacesInv' /\ AllPlaced
  BY <1>0, <1>6 DEF Refund
<1>7. ASSUME NEW d \in Donations, NEW to \in {"succeeded", "failed", "refunded"}, Receive(d, to)
      PROVE  PlacesInv' /\ AllPlaced
  BY <1>7, ApplyStatusPlaces DEF Receive
<1>8. ASSUME CloseRegistration \/ ReopenRegistration \/ GoLive \/ Cancel \/ Draw
      PROVE  PlacesInv' /\ AllPlaced
  BY <1>0, <1>8 DEF CloseRegistration, ReopenRegistration, GoLive, Cancel, Draw
<1>9. ASSUME NEW n \in Capacities, SetMaxTeams(n) PROVE PlacesInv' /\ AllPlaced
  BY <1>0, <1>9 DEF SetMaxTeams
<1>10. CASE UNCHANGED vars
  BY <1>0, <1>10 DEF vars
<1> QED
  BY <1>1, <1>2, <1>3, <1>4, <1>5, <1>6, <1>7, <1>8, <1>9, <1>10 DEF Next

\* Money that was taken and not given back pays for the place of a team, once,
\* or is named for a refund, in whatever order registrations, payments, their
\* cancellations and refunds are learned of (donations/service.ts,
\* syncTeamRegistration), and no step takes the place of a payment away but
\* createTeam, when the captain's own team was found forming and paid for
\* since (teams.ts, supersedeFormingTeam).
THEOREM EveryPaymentHasItsPlaceHolds == Spec => EveryPaymentHasItsPlace
<1>1. Init => TypeOK /\ PlacesInv
  BY InitTypeOK, NoneAssumption DEF Init, PlacesInv, PlaceOf, Pays
<1>2. TypeOK /\ PlacesInv /\ [Next]_vars => TypeOK' /\ PlacesInv'
  BY StepTypeOK, StepPlacesInv
<1>3. TypeOK /\ PlacesInv /\ [Next]_vars => [AllPlaced]_vars
  BY StepPlacesInv
<1>4. Spec => [][AllPlaced]_vars
  BY <1>1, <1>2, <1>3, PTL DEF Spec
<1> QED
  BY <1>4 DEF EveryPaymentHasItsPlace, AllPlaced, Placed

=============================================================================
