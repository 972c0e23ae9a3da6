--------------------------- MODULE PaymentsProofs ---------------------------
(***************************************************************************)
(* Theorems about Payments for every set of users, keys, requests and      *)
(* callbacks.                                                              *)
(*                                                                         *)
(* What a payment row says is tied to how far the request that opened it   *)
(* has come: the row is in its first state until that request applies the  *)
(* rail's answer, and a callback that has read a payment finds it funded   *)
(* when it writes, however much later that is.  The custody account        *)
(* follows from there: each step moves it by the amount of the one request *)
(* that becomes funded.                                                    *)
(***************************************************************************)
EXTENDS Payments, FiniteSetTheorems, SequenceTheorems, TLAPS

\* The endings a provider callback may record.
Landed == {"settled", "paid", "returned"}

\* The types of what the theorems speak of; balances are left aside.
RowsTyped ==
  /\ step \in [Requests -> Steps]
  /\ keyOf \in [Requests -> Keys \cup {None}]
  /\ payment \in [Requests -> States \cup {None}]
  /\ reference \in [Requests -> Keys \cup {None}]
  /\ funded \in [Requests -> BOOLEAN]
  /\ trail \in [Requests -> Seq(States)]
  /\ rail \in [Keys -> {None, "accepted", "declined"}]
  /\ callback \in [Callbacks -> [payment : Requests \cup {None}, to : States \cup {"idle", "done"}]]

\* A request has a key once it has begun, and a row only then.
RequestsHaveKeys ==
  \A r \in Requests : step[r] # "idle" \/ payment[r] # None => keyOf[r] \in Keys

\* A row is in a state of its direction's machine.
Machine(r) == DOMAIN Transitions[DirectionOf(r)]
RowsInTheirMachine == \A r \in Requests : payment[r] # None => payment[r] \in Machine(r)

\* Until the rail's answer is applied a row is in its first state, unfunded
\* and without a reference.
RowsFollowSteps ==
  \A r \in Requests :
    /\ step[r] \in {"idle", "checked"} => payment[r] = None
    /\ step[r] \in {"opened", "answered"} => payment[r] = InitialState[DirectionOf(r)]
    /\ payment[r] = None => ~funded[r] /\ reference[r] = None /\ trail[r] = <<>>
    /\ payment[r] # None /\ payment[r] = InitialState[DirectionOf(r)] =>
         ~funded[r] /\ reference[r] = None

\* A row is funded exactly when its state says so, it then carries the key's
\* reference, and the rail has accepted.
FundedRows ==
  \A r \in Requests :
    /\ payment[r] # None /\ payment[r] \in {FundingState[DirectionOf(r)]} \cup Landed => funded[r]
    /\ funded[r] => /\ payment[r] # None
                    /\ payment[r] \in {FundingState[DirectionOf(r)]} \cup Landed
                    /\ reference[r] = keyOf[r]
                    /\ rail[keyOf[r]] = "accepted"

\* A reference is on one row.
ReferencesDiffer ==
  \A q, r \in Requests : reference[q] # None /\ reference[q] = reference[r] => q = r

\* The trail of a live row holds no ending, that of an ended row holds its own.
TrailsEndInTheState ==
  \A r \in Requests : Range(trail[r]) \cap TerminalStates \subseteq {payment[r]}

\* A callback holds a payment that was funded, and an ending for it.
CallbacksHoldFunded ==
  \A b \in Callbacks :
    callback[b].payment # None =>
      /\ funded[callback[b].payment]
      /\ callback[b].to \in Landed \cap Machine(callback[b].payment)

IInv ==
  /\ RowsTyped
  /\ RequestsHaveKeys
  /\ RowsInTheirMachine
  /\ RowsFollowSteps
  /\ FundedRows
  /\ ReferencesDiffer
  /\ TrailsEndInTheState
  /\ CallbacksHoldFunded
  /\ RailAndRowsAgree

-----------------------------------------------------------------------------
(* Lemmas.                                                                 *)

\* An event appended to a trail adds itself to what the trail holds.
LEMMA RangeOfAppend ==
  ASSUME NEW S, NEW s \in Seq(S), NEW x \in S
  PROVE  Append(s, x) \in Seq(S) /\ Range(Append(s, x)) = Range(s) \cup {x}
<1>1. /\ Append(s, x) \in Seq(S)
      /\ DOMAIN Append(s, x) = DOMAIN s \cup {Len(s) + 1}
      /\ \A i \in DOMAIN s : Append(s, x)[i] = s[i]
      /\ Append(s, x)[Len(s) + 1] = x
  BY AppendProperties
<1> QED
  BY <1>1 DEF Range

\* So do several of them.
LEMMA RangeOfConcat ==
  ASSUME NEW S, NEW s \in Seq(S), NEW t \in Seq(S)
  PROVE  s \o t \in Seq(S) /\ Range(s \o t) \subseteq Range(s) \cup Range(t)
<1>1. /\ s \o t \in Seq(S)
      /\ Len(s \o t) = Len(s) + Len(t)
      /\ \A i \in 1 .. Len(s) + Len(t) : (s \o t)[i] = IF i <= Len(s) THEN s[i] ELSE t[i - Len(s)]
  BY ConcatProperties
<1>2. Len(s) \in Nat /\ Len(t) \in Nat /\ DOMAIN s = 1 .. Len(s) /\ DOMAIN t = 1 .. Len(t)
      /\ DOMAIN (s \o t) = 1 .. Len(s) + Len(t)
  BY <1>1, LenProperties
<1>3. ASSUME NEW i \in 1 .. Len(s) + Len(t)
      PROVE  (s \o t)[i] \in Range(s) \cup Range(t)
  <2>1. CASE i <= Len(s)
    BY <1>1, <1>2, <2>1 DEF Range
  <2>2. CASE i > Len(s)
    <3>1. i - Len(s) \in DOMAIN t /\ (s \o t)[i] = t[i - Len(s)]
      BY <1>1, <1>2, <2>2
    <3> QED
      BY <3>1 DEF Range
  <2> QED
    BY <1>2, <2>1, <2>2
<1> QED
  BY <1>1, <1>2, <1>3 DEF Range

\* What a begun request asks for.
LEMMA DirectionKnown ==
  ASSUME NEW r \in Requests, keyOf[r] \in Keys
  PROVE  DirectionOf(r) \in Directions
BY IntentAssumption DEF DirectionOf, Direction

\* Initial, funding and ended states are different ones.
LEMMA StatesDiffer ==
  ASSUME NEW d \in Directions
  PROVE  /\ InitialState[d] \in States /\ FundingState[d] \in States
         /\ InitialState[d] \notin TerminalStates /\ FundingState[d] \notin TerminalStates
         /\ InitialState[d] # FundingState[d]
         /\ {InitialState[d], FundingState[d], "failed"} \subseteq DOMAIN Transitions[d]
         /\ Landed \subseteq TerminalStates /\ TerminalStates \subseteq States
         /\ "failed" \notin Landed
BY DEF Directions, InitialState, FundingState, States, Transitions, TerminalStates, Landed

\* A callback ends only what is in its funding state.
LEMMA CallbacksEndFunded ==
  ASSUME NEW d \in Directions, NEW from \in DOMAIN Transitions[d], NEW to \in CallbackTargets[d],
         CanTransition(d, from, to)
  PROVE  from = FundingState[d] /\ to \in Landed \cap DOMAIN Transitions[d]
<1>1. CASE d = "deposit"
  BY <1>1 DEF FundingState, Transitions, CallbackTargets, CanTransition, Landed
<1>2. CASE d = "withdrawal"
  BY <1>2 DEF FundingState, Transitions, CallbackTargets, CanTransition, Landed
<1> QED
  BY <1>1, <1>2 DEF Directions

\* States and answers are not None.
LEMMA StatesAreNotNone ==
  /\ None \notin States /\ None # "accepted" /\ None # "declined"
  /\ None \notin Keys /\ None \notin Requests
BY StatesAssumption, NoneAssumption

-----------------------------------------------------------------------------
(* Every step keeps the invariant.                                         *)

\* A stutter does.
LEMMA StutterStep ==
  ASSUME IInv, UNCHANGED <<step, keyOf, row, rail, callback>>
  PROVE  IInv'
BY DEF IInv, RowsTyped, RequestsHaveKeys, RowsInTheirMachine, RowsFollowSteps, FundedRows,
       ReferencesDiffer, TrailsEndInTheState, CallbacksHoldFunded, RailAndRowsAgree, row,
       Machine, DirectionOf

\* A request takes a key when it has no row.
LEMMA BeginStep ==
  ASSUME IInv, NEW r \in Requests, NEW k \in Keys, Begin(r, k)
  PROVE  IInv'
<1> USE DEF Begin, row
<1>1. /\ payment[r] = None /\ ~funded[r] /\ reference[r] = None
  BY DEF IInv, RowsFollowSteps
<1>2. RowsTyped'
  BY DEF IInv, RowsTyped, Steps
<1>3. /\ keyOf'[r] = k /\ step'[r] = "checked"
      /\ \A q \in Requests \ {r} : keyOf'[q] = keyOf[q] /\ step'[q] = step[q]
  BY DEF IInv, RowsTyped
<1>4. \A q \in Requests \ {r} : DirectionOf(q)' = DirectionOf(q)
  BY <1>3 DEF DirectionOf
<1>5. RequestsHaveKeys'
  BY <1>3 DEF IInv, RequestsHaveKeys
<1>6. RowsFollowSteps'
  BY <1>1, <1>3, <1>4 DEF IInv, RowsFollowSteps
<1>7. FundedRows'
  BY <1>1, <1>3, <1>4 DEF IInv, FundedRows
<1>8. RailAndRowsAgree'
  BY <1>1, <1>3 DEF IInv, RailAndRowsAgree
<1>9. ReferencesDiffer' /\ TrailsEndInTheState'
  BY DEF IInv, ReferencesDiffer, TrailsEndInTheState
<1>10. RowsInTheirMachine'
  BY <1>1, <1>4 DEF IInv, RowsInTheirMachine, Machine
<1>11. CallbacksHoldFunded'
  <2>1. \A b \in Callbacks : callback[b].payment # None => callback[b].payment \in Requests \ {r}
    BY <1>1 DEF IInv, RowsTyped, CallbacksHoldFunded
  <2> QED
    BY <1>4, <2>1 DEF IInv, CallbacksHoldFunded, Machine
<1> QED
  BY <1>2, <1>5, <1>6, <1>7, <1>8, <1>9, <1>10, <1>11 DEF IInv

\* A row is opened in its first state.
LEMMA OpenStep ==
  ASSUME IInv, NEW r \in Requests, Open(r)
  PROVE  IInv'
<1> USE DEF Open
<1> DEFINE first == InitialState[DirectionOf(r)]
<1>1. keyOf[r] \in Keys /\ DirectionOf(r) \in Directions
  BY DirectionKnown DEF IInv, RequestsHaveKeys
<1>2. /\ first \in States /\ first \notin TerminalStates /\ first # None
      /\ first \notin {FundingState[DirectionOf(r)]} \cup Landed
      /\ first \in Machine(r)
  BY <1>1, StatesDiffer, StatesAreNotNone DEF Machine
<1>3. /\ payment[r] = None /\ ~funded[r] /\ reference[r] = None
  BY DEF IInv, RowsFollowSteps
<1>4. <<first>> \in Seq(States) /\ Range(<<first>>) = {first}
  BY <1>2 DEF Range
<1>5. RowsTyped'
  BY <1>2, <1>4 DEF IInv, RowsTyped, Steps
<1>6. /\ payment'[r] = first /\ trail'[r] = <<first>> /\ step'[r] = "opened"
      /\ \A q \in Requests \ {r} :
           payment'[q] = payment[q] /\ trail'[q] = trail[q] /\ step'[q] = step[q]
  BY DEF IInv, RowsTyped
<1>7. \A q \in Requests : DirectionOf(q)' = DirectionOf(q)
  BY DEF DirectionOf
<1>8. RequestsHaveKeys'
  BY <1>1, <1>6 DEF IInv, RequestsHaveKeys
<1>9. RowsFollowSteps'
  BY <1>2, <1>3, <1>6, <1>7 DEF IInv, RowsFollowSteps
<1>10. FundedRows'
  BY <1>2, <1>3, <1>6, <1>7 DEF IInv, FundedRows
<1>11. TrailsEndInTheState'
  BY <1>2, <1>4, <1>6 DEF IInv, TrailsEndInTheState
<1>12. RailAndRowsAgree'
  BY <1>2, <1>3, <1>6 DEF IInv, RailAndRowsAgree
<1>13. ReferencesDiffer' /\ CallbacksHoldFunded'
  BY DEF IInv, ReferencesDiffer, CallbacksHoldFunded, Machine, DirectionOf
<1>14. RowsInTheirMachine'
  BY <1>2, <1>6, <1>7 DEF IInv, RowsInTheirMachine, Machine
<1> QED
  BY <1>5, <1>8, <1>9, <1>10, <1>11, <1>12, <1>13, <1>14 DEF IInv

\* The rail answers once per key, and the row is there.
LEMMA CallRailStep ==
  ASSUME IInv, NEW r \in Requests, CallRail(r)
  PROVE  IInv'
<1> USE DEF CallRail, MayCallRail, row
<1>1. keyOf[r] \in Keys /\ DirectionOf(r) \in Directions
  BY DirectionKnown DEF IInv, RequestsHaveKeys
<1>2. payment[r] = InitialState[DirectionOf(r)] /\ payment[r] # None
  BY <1>1, StatesDiffer, StatesAreNotNone DEF IInv, RowsFollowSteps
<1>3. PICK outcome \in {"accepted", "declined"} :
        rail' = [rail EXCEPT ![keyOf[r]] = IF @ = None THEN outcome ELSE @]
  OBVIOUS
<1>4. RowsTyped'
  BY <1>1, <1>3 DEF IInv, RowsTyped, Steps
<1>5. /\ step'[r] = "answered" /\ \A q \in Requests \ {r} : step'[q] = step[q]
      /\ \A k \in Keys \ {keyOf[r]} : rail'[k] = rail[k]
      /\ rail[keyOf[r]] # None => rail'[keyOf[r]] = rail[keyOf[r]]
  BY <1>1, <1>3 DEF IInv, RowsTyped
<1>6. \A k \in Keys : rail[k] = "accepted" => rail'[k] = "accepted"
  BY <1>5, StatesAreNotNone
<1>7. RequestsHaveKeys'
  BY <1>1, <1>5 DEF IInv, RequestsHaveKeys
<1>8. RowsFollowSteps'
  BY <1>2, <1>5 DEF IInv, RowsFollowSteps, DirectionOf
<1>9. \A q \in Requests : funded[q] => keyOf[q] \in Keys
  BY DEF IInv, FundedRows, RequestsHaveKeys
<1>10. FundedRows'
  BY <1>6, <1>9 DEF IInv, FundedRows, DirectionOf
<1>11. RailAndRowsAgree'
  BY <1>1, <1>2, <1>5, <1>6, <1>9 DEF IInv, RailAndRowsAgree
<1>12. ReferencesDiffer' /\ TrailsEndInTheState' /\ CallbacksHoldFunded' /\ RowsInTheirMachine'
  BY DEF IInv, ReferencesDiffer, TrailsEndInTheState, CallbacksHoldFunded, RowsInTheirMachine,
         Machine, DirectionOf
<1> QED
  BY <1>4, <1>7, <1>8, <1>10, <1>11, <1>12 DEF IInv

\* What is known of a row whose request has its answer.
LEMMA AnsweredRow ==
  ASSUME IInv, NEW r \in Requests, step[r] = "answered"
  PROVE  /\ keyOf[r] \in Keys /\ DirectionOf(r) \in Directions
         /\ payment[r] = InitialState[DirectionOf(r)] /\ payment[r] # None
         /\ ~funded[r] /\ reference[r] = None
         /\ Range(trail[r]) \cap TerminalStates = {}
         /\ \A b \in Callbacks : callback[b].payment # r
<1>1. keyOf[r] \in Keys /\ DirectionOf(r) \in Directions
  BY DirectionKnown DEF IInv, RequestsHaveKeys
<1>2. payment[r] = InitialState[DirectionOf(r)] /\ payment[r] # None /\ payment[r] \notin TerminalStates
  BY <1>1, StatesDiffer, StatesAreNotNone DEF IInv, RowsFollowSteps
<1>3. ~funded[r] /\ reference[r] = None
  BY <1>2 DEF IInv, RowsFollowSteps
<1>4. Range(trail[r]) \cap TerminalStates = {}
  BY <1>2 DEF IInv, TrailsEndInTheState
<1>5. \A b \in Callbacks : callback[b].payment # r
  BY <1>3, StatesAreNotNone DEF IInv, CallbacksHoldFunded
<1> QED
  BY <1>1, <1>2, <1>3, <1>4, <1>5

\* A refusal ends a row that was never funded.
LEMMA FailStep ==
  ASSUME IInv, NEW r \in Requests, Fail(r)
  PROVE  IInv'
<1> USE DEF Fail
<1>1. /\ keyOf[r] \in Keys /\ DirectionOf(r) \in Directions
      /\ payment[r] # None /\ ~funded[r] /\ reference[r] = None
      /\ Range(trail[r]) \cap TerminalStates = {}
  BY AnsweredRow
<1>2. /\ "failed" \in States /\ "failed" # None
      /\ "failed" \notin {InitialState[DirectionOf(r)], FundingState[DirectionOf(r)]} \cup Landed
      /\ "failed" \in Machine(r)
  BY <1>1, StatesAreNotNone
     DEF Directions, InitialState, FundingState, States, Transitions, Landed, Machine
<1>3. Append(trail[r], "failed") \in Seq(States)
      /\ Range(Append(trail[r], "failed")) = Range(trail[r]) \cup {"failed"}
  <2>1. trail[r] \in Seq(States)
    BY DEF IInv, RowsTyped
  <2> QED
    BY <1>2, <2>1, RangeOfAppend
<1>4. RowsTyped'
  BY <1>1, <1>2, <1>3 DEF IInv, RowsTyped, Steps
<1>5. /\ payment'[r] = "failed" /\ trail'[r] = Append(trail[r], "failed") /\ step'[r] = "done"
      /\ reference'[r] = keyOf[r]
      /\ \A q \in Requests \ {r} :
           /\ payment'[q] = payment[q] /\ trail'[q] = trail[q] /\ step'[q] = step[q]
           /\ reference'[q] = reference[q]
  BY DEF IInv, RowsTyped
<1>6. \A q \in Requests : DirectionOf(q)' = DirectionOf(q)
  BY DEF DirectionOf
<1>7. RequestsHaveKeys'
  BY <1>1, <1>5 DEF IInv, RequestsHaveKeys
<1>8. RowsFollowSteps'
  BY <1>1, <1>2, <1>5, <1>6 DEF IInv, RowsFollowSteps
<1>9. FundedRows'
  BY <1>1, <1>2, <1>5, <1>6 DEF IInv, FundedRows
<1>10. ReferencesDiffer'
  BY <1>5 DEF IInv, ReferencesDiffer, ReferenceFree
<1>11. TrailsEndInTheState'
  BY <1>1, <1>3, <1>5 DEF IInv, TrailsEndInTheState
<1>12. CallbacksHoldFunded' /\ RailAndRowsAgree'
  BY <1>1, <1>2, <1>5 DEF IInv, CallbacksHoldFunded, RailAndRowsAgree, Machine, DirectionOf
<1>13. RowsInTheirMachine'
  BY <1>2, <1>5, <1>6 DEF IInv, RowsInTheirMachine, Machine
<1> QED
  BY <1>4, <1>7, <1>8, <1>9, <1>10, <1>11, <1>12, <1>13 DEF IInv

\* An acceptance funds the row of a key no other row refers to.
LEMMA FundStep ==
  ASSUME IInv, NEW r \in Requests, Fund(r)
  PROVE  IInv'
<1> USE DEF Fund
<1> DEFINE steps == IF DirectionOf(r) = "deposit" THEN <<"authorized", "captured">> ELSE <<"approved">>
           landing == FundingState[DirectionOf(r)]
<1>1. /\ keyOf[r] \in Keys /\ DirectionOf(r) \in Directions
      /\ payment[r] # None /\ ~funded[r] /\ reference[r] = None
      /\ Range(trail[r]) \cap TerminalStates = {}
  BY AnsweredRow
<1>2. /\ landing \in States /\ landing # None /\ landing # InitialState[DirectionOf(r)]
      /\ landing \notin TerminalStates /\ landing \in Machine(r)
  BY <1>1, StatesDiffer, StatesAreNotNone DEF Machine
<1>3. steps \in Seq(States) /\ Range(steps) \cap TerminalStates = {}
  <2>1. CASE DirectionOf(r) = "deposit"
    <3>1. steps = <<"authorized", "captured">> /\ {"authorized", "captured"} \subseteq States
      BY <2>1 DEF States, Transitions
    <3>2. Range(steps) \subseteq {"authorized", "captured"}
      BY <3>1 DEF Range
    <3> QED
      BY <3>1, <3>2 DEF TerminalStates
  <2>2. CASE DirectionOf(r) # "deposit"
    <3>1. steps = <<"approved">> /\ "approved" \in States
      BY <2>2 DEF States, Transitions
    <3>2. Range(steps) \subseteq {"approved"}
      BY <3>1 DEF Range
    <3> QED
      BY <3>1, <3>2 DEF TerminalStates
  <2> QED
    BY <2>1, <2>2
<1>4. trail[r] \o steps \in Seq(States) /\ Range(trail[r] \o steps) \cap TerminalStates = {}
  <2>1. trail[r] \in Seq(States)
    BY DEF IInv, RowsTyped
  <2>2. trail[r] \o steps \in Seq(States)
        /\ Range(trail[r] \o steps) \subseteq Range(trail[r]) \cup Range(steps)
    BY <1>3, <2>1, RangeOfConcat
  <2> QED
    BY <1>1, <1>3, <2>2
<1>5. /\ trail' = [trail EXCEPT ![r] = trail[r] \o steps]
      /\ payment' = [payment EXCEPT ![r] = landing]
  BY DEF IInv, RowsTyped
<1> HIDE DEF steps, landing
<1>6. RowsTyped'
  <2>1. payment' \in [Requests -> States \cup {None}]
    BY <1>2, <1>5 DEF IInv, RowsTyped
  <2>2. trail' \in [Requests -> Seq(States)]
    <3>1. trail \in [Requests -> Seq(States)]
      BY DEF IInv, RowsTyped
    <3>2. trail' = [trail EXCEPT ![r] = trail[r] \o steps]
      BY <1>5
    <3> HIDE DEF Fund
    <3> QED
      BY <1>4, <3>1, <3>2
  <2>3. step' \in [Requests -> Steps] /\ reference' \in [Requests -> Keys \cup {None}]
    BY <1>1 DEF IInv, RowsTyped, Steps
  <2>4. funded' \in [Requests -> BOOLEAN]
    BY DEF IInv, RowsTyped
  <2> QED
    BY <2>1, <2>2, <2>3, <2>4 DEF IInv, RowsTyped
<1>7. /\ payment'[r] = landing /\ trail'[r] = trail[r] \o steps /\ step'[r] = "done"
      /\ reference'[r] = keyOf[r] /\ funded'[r] = TRUE
      /\ \A q \in Requests \ {r} :
           /\ payment'[q] = payment[q] /\ trail'[q] = trail[q] /\ step'[q] = step[q]
           /\ reference'[q] = reference[q] /\ funded'[q] = funded[q]
  BY <1>5 DEF IInv, RowsTyped
<1>8. \A q \in Requests : DirectionOf(q)' = DirectionOf(q)
  BY DEF DirectionOf
<1>9. RequestsHaveKeys'
  BY <1>1, <1>7 DEF IInv, RequestsHaveKeys
<1>10. RowsFollowSteps'
  BY <1>1, <1>2, <1>7, <1>8 DEF IInv, RowsFollowSteps
<1>11. FundedRows'
  BY <1>1, <1>2, <1>7, <1>8 DEF IInv, FundedRows, landing
<1>12. ReferencesDiffer'
  BY <1>7 DEF IInv, ReferencesDiffer, ReferenceFree
<1>13. TrailsEndInTheState'
  BY <1>4, <1>7 DEF IInv, TrailsEndInTheState
<1>14. CallbacksHoldFunded'
  <2>1. \A b \in Callbacks : callback[b].payment \in Requests \cup {None}
    BY DEF IInv, RowsTyped
  <2> QED
    BY <1>7, <1>8, <2>1 DEF IInv, CallbacksHoldFunded, Machine
<1>15. RailAndRowsAgree'
  <2>1. \A q \in Requests : payment[q] # None => payment'[q] # None
    BY <1>2, <1>7
  <2>2. \A q \in Requests : funded'[q] => rail[keyOf[q]] = "accepted"
    BY <1>7 DEF IInv, RailAndRowsAgree
  <2>3. UNCHANGED <<keyOf, rail>>
    OBVIOUS
  <2> HIDE DEF Fund
  <2> QED
    BY <2>1, <2>2, <2>3 DEF IInv, RailAndRowsAgree
<1>16. RowsInTheirMachine'
  BY <1>2, <1>7, <1>8 DEF IInv, RowsInTheirMachine, Machine
<1> QED
  BY <1>6, <1>9, <1>10, <1>11, <1>12, <1>13, <1>14, <1>15, <1>16 DEF IInv

\* A request that ends with an error or dies leaves its row as it was.
LEMMA GiveUpStep ==
  ASSUME IInv, NEW r \in Requests, Refuse(r) \/ Die(r)
  PROVE  IInv'
<1>1. /\ UNCHANGED <<keyOf, row, rail, callback>>
      /\ step[r] \in {"checked", "opened", "answered"}
      /\ step' = [step EXCEPT ![r] = "refused"] \/ step' = [step EXCEPT ![r] = "dead"]
  BY DEF Refuse, Die
<1>2. /\ step'[r] \in {"refused", "dead"} /\ step' \in [Requests -> Steps]
      /\ \A q \in Requests \ {r} : step'[q] = step[q]
  BY <1>1 DEF IInv, RowsTyped, Steps
<1>3. RowsTyped'
  BY <1>1, <1>2 DEF IInv, RowsTyped, row
<1>4. RequestsHaveKeys'
  BY <1>1, <1>2 DEF IInv, RequestsHaveKeys, row
<1>5. RowsFollowSteps'
  BY <1>1, <1>2 DEF IInv, RowsFollowSteps, row, DirectionOf
<1>6. FundedRows' /\ ReferencesDiffer' /\ TrailsEndInTheState' /\ CallbacksHoldFunded'
      /\ RailAndRowsAgree' /\ RowsInTheirMachine'
  BY <1>1 DEF IInv, FundedRows, ReferencesDiffer, TrailsEndInTheState, CallbacksHoldFunded,
              RailAndRowsAgree, RowsInTheirMachine, row, Machine, DirectionOf
<1> QED
  BY <1>3, <1>4, <1>5, <1>6 DEF IInv

\* A callback that reads a payment it may end has read a funded one.
LEMMA ReadStep ==
  ASSUME IInv, NEW b \in Callbacks, NEW r \in Requests, NEW to \in States, ReadForCallback(b, r, to)
  PROVE  IInv'
<1> USE DEF ReadForCallback, row
<1>1. payment[r] \in Machine(r) /\ keyOf[r] \in Keys /\ DirectionOf(r) \in Directions
  BY DirectionKnown DEF IInv, RowsInTheirMachine, RequestsHaveKeys
<1>2. payment[r] = FundingState[DirectionOf(r)] /\ to \in Landed \cap Machine(r)
  BY <1>1, CallbacksEndFunded DEF Machine
<1>3. funded[r]
  BY <1>2 DEF IInv, FundedRows
<1>4. /\ callback'[b] = [payment |-> r, to |-> to]
      /\ \A c \in Callbacks \ {b} : callback'[c] = callback[c]
  BY DEF IInv, RowsTyped
<1>5. RowsTyped'
  BY DEF IInv, RowsTyped
<1>6. CallbacksHoldFunded'
  BY <1>2, <1>3, <1>4 DEF IInv, CallbacksHoldFunded, Machine, DirectionOf
<1>7. RequestsHaveKeys' /\ RowsInTheirMachine' /\ RowsFollowSteps' /\ FundedRows'
  BY DEF IInv, RequestsHaveKeys, RowsInTheirMachine, RowsFollowSteps, FundedRows, Machine, DirectionOf
<1>8. ReferencesDiffer' /\ TrailsEndInTheState' /\ RailAndRowsAgree'
  BY DEF IInv, ReferencesDiffer, TrailsEndInTheState, RailAndRowsAgree
<1> QED
  BY <1>5, <1>6, <1>7, <1>8 DEF IInv

\* A callback that writes ends a funded payment, or records its ending again.
LEMMA ApplyStep ==
  ASSUME IInv, NEW b \in Callbacks, ApplyCallback(b)
  PROVE  IInv'
<1> USE DEF ApplyCallback
<1> DEFINE r == callback[b].payment
           to == callback[b].to
<1>1. r \in Requests /\ r # None
  BY DEF IInv, RowsTyped
<1>2. funded[r] /\ to \in Landed \cap Machine(r)
  BY <1>1 DEF IInv, CallbacksHoldFunded
<1>3. /\ to \in States /\ to # None /\ to \in TerminalStates
      /\ payment[r] # None /\ keyOf[r] \in Keys /\ DirectionOf(r) \in Directions
      /\ to # InitialState[DirectionOf(r)]
  <2>1. payment[r] # None
    BY <1>1, <1>2 DEF IInv, FundedRows
  <2>2. keyOf[r] \in Keys
    BY <1>1, <2>1 DEF IInv, RequestsHaveKeys
  <2>3. DirectionOf(r) \in Directions
    BY <1>1, <2>2, DirectionKnown
  <2> QED
    BY <1>2, <2>1, <2>2, <2>3, StatesDiffer, StatesAreNotNone
<1>4. payment[r] \in TerminalStates => to = payment[r]
  BY DEF TriggerAllows
<1>5. step[r] \notin {"idle", "checked", "opened", "answered"}
  <2>1. step[r] \notin {"idle", "checked"}
    BY <1>1, <1>3 DEF IInv, RowsFollowSteps
  <2>2. step[r] \notin {"opened", "answered"}
    BY <1>1, <1>2, <1>3 DEF IInv, RowsFollowSteps
  <2> QED
    BY <2>1, <2>2
<1>6. /\ payment' = [payment EXCEPT ![r] = to]
      /\ trail' = [trail EXCEPT ![r] = Append(trail[r], to)]
      /\ callback' = [callback EXCEPT ![b] = [payment |-> None, to |-> "done"]]
      /\ UNCHANGED <<step, keyOf, reference, funded, rail>>
  BY <1>1 DEF IInv, RowsTyped
<1>7. Append(trail[r], to) \in Seq(States) /\ Range(Append(trail[r], to)) = Range(trail[r]) \cup {to}
  <2>1. trail[r] \in Seq(States)
    BY <1>1 DEF IInv, RowsTyped
  <2> QED
    BY <1>3, <2>1, RangeOfAppend
<1>8. RowsTyped'
  <2>1. payment' \in [Requests -> States \cup {None}] /\ trail' \in [Requests -> Seq(States)]
    BY <1>3, <1>6, <1>7 DEF IInv, RowsTyped
  <2>2. callback' \in [Callbacks -> [payment : Requests \cup {None}, to : States \cup {"idle", "done"}]]
    BY <1>6 DEF IInv, RowsTyped
  <2> QED
    BY <1>6, <2>1, <2>2 DEF IInv, RowsTyped
<1>9. CallbacksHoldFunded'
  <2>1. /\ callback'[b].payment = None
        /\ \A c \in Callbacks \ {b} : callback'[c] = callback[c]
    BY <1>6 DEF IInv, RowsTyped
  <2> QED
    BY <1>6, <2>1 DEF IInv, CallbacksHoldFunded, Machine, DirectionOf
<1>10. /\ payment'[r] = to /\ trail'[r] = Append(trail[r], to)
       /\ \A q \in Requests \ {r} : payment'[q] = payment[q] /\ trail'[q] = trail[q]
  BY <1>1, <1>6 DEF IInv, RowsTyped
<1>11. \A q \in Requests : DirectionOf(q)' = DirectionOf(q)
  BY <1>6 DEF DirectionOf
<1> HIDE DEF r, to, ApplyCallback
<1>12. RequestsHaveKeys'
  BY <1>1, <1>3, <1>6, <1>10 DEF IInv, RequestsHaveKeys
<1>13. RowsInTheirMachine'
  BY <1>1, <1>2, <1>10, <1>11 DEF IInv, RowsInTheirMachine, Machine
<1>14. RowsFollowSteps'
  BY <1>1, <1>3, <1>5, <1>6, <1>10, <1>11 DEF IInv, RowsFollowSteps
<1>15. FundedRows'
  BY <1>1, <1>2, <1>3, <1>6, <1>10, <1>11 DEF IInv, FundedRows
<1>16. TrailsEndInTheState'
  <2>1. Range(trail[r]) \cap TerminalStates \subseteq {to}
    BY <1>1, <1>4 DEF IInv, TrailsEndInTheState
  <2> QED
    BY <1>1, <1>7, <1>10, <2>1 DEF IInv, TrailsEndInTheState
<1>17. RailAndRowsAgree'
  BY <1>1, <1>3, <1>6, <1>10 DEF IInv, RailAndRowsAgree
<1>18. ReferencesDiffer'
  BY <1>6 DEF IInv, ReferencesDiffer
<1> QED
  BY <1>8, <1>9, <1>12, <1>13, <1>14, <1>15, <1>16, <1>17, <1>18 DEF IInv

-----------------------------------------------------------------------------
(* Theorems.                                                               *)

\* The invariant holds in every state that can be reached.
THEOREM Invariance == Spec => []IInv
<1>1. Init => IInv
  <2> SUFFICES ASSUME Init PROVE IInv
    OBVIOUS
  <2>1. RowsTyped
    BY DEF Init, RowsTyped, Steps
  <2>2. \A r \in Requests : Range(trail[r]) = {}
    BY DEF Init, Range
  <2>3. RequestsHaveKeys /\ RowsInTheirMachine /\ RowsFollowSteps /\ FundedRows
    BY StatesAreNotNone DEF Init, RequestsHaveKeys, RowsInTheirMachine, RowsFollowSteps, FundedRows
  <2>4. ReferencesDiffer /\ TrailsEndInTheState /\ CallbacksHoldFunded /\ RailAndRowsAgree
    BY <2>2 DEF Init, ReferencesDiffer, TrailsEndInTheState, CallbacksHoldFunded, RailAndRowsAgree
  <2> QED
    BY <2>1, <2>3, <2>4 DEF IInv
<1>2. IInv /\ [Next]_vars => IInv'
  <2> SUFFICES ASSUME IInv, [Next]_vars PROVE IInv'
    OBVIOUS
  <2>1. ASSUME NEW r \in Requests, NEW k \in Keys, Begin(r, k) PROVE IInv'
    BY <2>1, BeginStep
  <2>2. ASSUME NEW r \in Requests, Open(r) PROVE IInv'
    BY <2>2, OpenStep
  <2>3. ASSUME NEW r \in Requests, CallRail(r) PROVE IInv'
    BY <2>3, CallRailStep
  <2>4. ASSUME NEW r \in Requests, Fail(r) PROVE IInv'
    BY <2>4, FailStep
  <2>5. ASSUME NEW r \in Requests, Fund(r) PROVE IInv'
    BY <2>5, FundStep
  <2>6. ASSUME NEW r \in Requests, Refuse(r) \/ Die(r) PROVE IInv'
    BY <2>6, GiveUpStep
  <2>7. ASSUME NEW b \in Callbacks, NEW r \in Requests, NEW to \in States, ReadForCallback(b, r, to)
        PROVE  IInv'
    BY <2>7, ReadStep
  <2>8. ASSUME NEW b \in Callbacks, ApplyCallback(b) PROVE IInv'
    BY <2>8, ApplyStep
  <2>9. ASSUME NEW u \in Users, Stake(u) \/ Unstake(u) \/ PlaceRestriction(u) PROVE IInv'
    BY <2>9, StutterStep DEF Stake, Unstake, PlaceRestriction
  <2>10. CASE UNCHANGED vars
    BY <2>10, StutterStep DEF vars, row
  <2> QED
    BY <2>1, <2>2, <2>3, <2>4, <2>5, <2>6, <2>7, <2>8, <2>9, <2>10 DEF Next
<1> QED
  BY <1>1, <1>2, PTL DEF Spec

\* A key funds at most one payment, however many deliveries of its request
\* overlap: every funded row carries its key as reference (payments.ts,
\* "so a retry returns the original rather than charging twice").
THEOREM KeysFundOnce == Spec => []KeyFundsOnce
<1>1. IInv => KeyFundsOnce
  <2> SUFFICES ASSUME IInv, NEW q \in Requests, NEW r \in Requests,
                      funded[q], funded[r], keyOf[q] = keyOf[r]
               PROVE  q = r
    BY DEF KeyFundsOnce
  <2>1. reference[q] = keyOf[q] /\ reference[r] = keyOf[r] /\ payment[q] # None
    BY DEF IInv, FundedRows
  <2>2. keyOf[q] # None
    BY <2>1, StatesAreNotNone DEF IInv, RequestsHaveKeys
  <2> QED
    BY <2>1, <2>2 DEF IInv, ReferencesDiffer
<1> QED
  BY <1>1, Invariance, PTL

\* Whatever the rail has done there is a row under the key to reconcile it
\* against, and a funded row is backed by the rail, wherever requests die.
THEOREM RailStaysReconcilable == Spec => []RailAndRowsAgree
<1>1. IInv => RailAndRowsAgree
  BY DEF IInv
<1> QED
  BY <1>1, Invariance, PTL

\* A payment records at most one ending, and only after it was funded, however
\* stale the read a callback acts on (0022_treasury_guards.sql).
THEOREM PaymentsEndOnce == Spec => []EndsOnce
<1>1. IInv => EndsOnce
  <2> SUFFICES ASSUME IInv, NEW r \in Requests
               PROVE  /\ Cardinality(Range(trail[r]) \cap TerminalStates) <= 1
                      /\ payment[r] \in {"settled", "paid", "returned"} => funded[r]
    BY DEF EndsOnce
  <2>1. Range(trail[r]) \cap TerminalStates \subseteq {payment[r]}
    BY DEF IInv, TrailsEndInTheState
  <2>2. IsFiniteSet({payment[r]}) /\ Cardinality({payment[r]}) = 1
    BY FS_Singleton
  <2>3. Cardinality(Range(trail[r]) \cap TerminalStates) <= 1
    BY <2>1, <2>2, FS_Subset
  <2>4. payment[r] \in Landed => funded[r]
    BY StatesAreNotNone DEF IInv, FundedRows, Landed, States, Transitions
  <2> QED
    BY <2>3, <2>4 DEF Landed
<1> QED
  BY <1>1, Invariance, PTL

\* The balances and restrictions have their types.
Balanced ==
  /\ wallet \in [Users -> Nat]
  /\ stakes \in [Users -> Nat]
  /\ custody \in Int
  /\ restricted \subseteq Users

\* No posting takes a wallet or a stake below zero.
LEMMA BalancesStep ==
  ASSUME IInv, Balanced, [Next]_vars
  PROVE  Balanced'
<1> USE DEF Balanced
<1>1. ASSUME NEW r \in Requests, Fund(r) PROVE Balanced'
  <2>1. keyOf[r] \in Keys
    BY <1>1 DEF Fund, IInv, RequestsHaveKeys
  <2>2. User(keyOf[r]) \in Users /\ Amount(keyOf[r]) \in Nat
    BY <2>1, IntentAssumption DEF User, Amount
  <2> DEFINE u == User(keyOf[r])
             n == Amount(keyOf[r])
  <2>3. CASE DirectionOf(r) = "deposit"
    <3>1. wallet' = [wallet EXCEPT ![u] = @ + n] /\ custody' = custody + n /\ UNCHANGED <<stakes, restricted>>
      BY <1>1, <2>3 DEF Fund, PostDeposit, Credit
    <3> QED
      BY <2>2, <3>1
  <2>4. CASE DirectionOf(r) # "deposit"
    <3>1. /\ wallet[u] >= n
          /\ wallet' = [wallet EXCEPT ![u] = @ - n]
          /\ custody' = custody - n
          /\ UNCHANGED <<stakes, restricted>>
      BY <1>1, <2>4 DEF Fund, PostWithdrawal, Covers
    <3>2. wallet[u] \in Nat /\ wallet[u] - n \in Nat
      BY <2>2, <3>1
    <3> QED
      BY <2>2, <3>1, <3>2
  <2> QED
    BY <2>3, <2>4
<1>2. ASSUME NEW u \in Users, Stake(u) PROVE Balanced'
  BY <1>2 DEF Stake
<1>3. ASSUME NEW u \in Users, Unstake(u) PROVE Balanced'
  BY <1>3 DEF Unstake
<1>4. ASSUME NEW u \in Users, PlaceRestriction(u) PROVE Balanced'
  BY <1>4 DEF PlaceRestriction, ledger
<1>5. ASSUME UNCHANGED <<ledger, restricted>> PROVE Balanced'
  BY <1>5 DEF ledger
<1>6. ASSUME NEW r \in Requests, NEW k \in Keys, Begin(r, k) PROVE Balanced'
  BY <1>5, <1>6 DEF Begin
<1>7. ASSUME NEW r \in Requests, Open(r) \/ CallRail(r) \/ Fail(r) \/ Refuse(r) \/ Die(r) PROVE Balanced'
  BY <1>5, <1>7 DEF Open, CallRail, Fail, Refuse, Die
<1>8. ASSUME NEW b \in Callbacks, NEW r \in Requests, NEW to \in States, ReadForCallback(b, r, to) PROVE Balanced'
  BY <1>5, <1>8 DEF ReadForCallback
<1>9. ASSUME NEW b \in Callbacks, ApplyCallback(b) PROVE Balanced'
  BY <1>5, <1>9 DEF ApplyCallback
<1>10. CASE UNCHANGED vars
  BY <1>5, <1>10 DEF vars, ledger
<1> QED
  BY <1>1, <1>2, <1>3, <1>4, <1>6, <1>7, <1>8, <1>9, <1>10 DEF Next

\* Every variable keeps its type, and no wallet is ever overdrawn, however
\* deposits, withdrawals and stakes interleave (ledger/post.ts refuseOverdrafts).
THEOREM TypeCorrect == Spec => []TypeOK
<1>1. Init => Balanced
  BY DEF Init, Balanced
<1>2. IInv /\ Balanced /\ [Next]_vars => Balanced'
  BY BalancesStep
<1>3. IInv /\ Balanced => TypeOK
  BY DEF IInv, RowsTyped, Balanced, TypeOK
<1> QED
  BY <1>1, <1>2, <1>3, Invariance, PTL DEF Spec

-----------------------------------------------------------------------------
(* Sums.  What is to be shown of every subset of a finite set is given as  *)
(* the set of those it holds for, and the fold of Functions is the         *)
(* function that every removal of an element takes the element's value     *)
(* from.                                                                   *)

\* What holds of the empty set, and of a set when it holds of the set without
\* any one of its elements, holds of every subset of a finite set.
LEMMA SetInduction ==
  ASSUME NEW S, IsFiniteSet(S), NEW Good, {} \in Good,
         \A s \in SUBSET S : s # {} /\ (\A x \in s : s \ {x} \in Good) => s \in Good
  PROVE  SUBSET S \subseteq Good
<1> DEFINE Bad == (SUBSET S) \ Good
<1> SUFFICES ASSUME Bad # {} PROVE FALSE
  OBVIOUS
<1>1. IsWellFoundedOn(StrictSubsetOrdering(S), SUBSET S)
  BY FS_StrictSubsetOrderingWellFounded, FS_FiniteSubsetsOfFinite
<1>2. PICK s \in Bad : \A u \in Bad : <<u, s>> \notin StrictSubsetOrdering(S)
  <2>1. Bad \subseteq SUBSET S
    OBVIOUS
  <2> HIDE DEF Bad
  <2> QED
    BY <1>1, <2>1, WFMin
<1>3. ASSUME NEW x \in s PROVE s \ {x} \in Good
  <2>1. s \ {x} \in SUBSET S /\ s \in SUBSET S /\ s \ {x} # s
    BY <1>2
  <2> QED
    BY <1>2, <2>1 DEF StrictSubsetOrdering
<1>4. s # {} /\ s \in SUBSET S /\ s \notin Good
  <2>1. s \in SUBSET S /\ s \notin Good
    BY <1>2
  <2> QED
    BY <2>1, Zenon
<1>5. s \in Good
  BY <1>3, <1>4
<1> QED
  BY <1>4, <1>5

SumsOver(g, f, S) ==
  /\ g \in [SUBSET S -> Int]
  /\ g[{}] = 0
  /\ \A s \in SUBSET S : \A x \in s : g[s] = f[x] + g[s \ {x}]

\* Such a function exists: the order in which elements are removed does not
\* matter.
LEMMA SumsExist ==
  ASSUME NEW S, IsFiniteSet(S), NEW f, \A x \in S : f[x] \in Int
  PROVE  \E g : SumsOver(g, f, S)
<1> DEFINE Good == {T \in SUBSET S : \E g : SumsOver(g, f, T)}
<1>1. {} \in Good
  <2> DEFINE g == [s \in SUBSET {} |-> 0]
  <2>1. SumsOver(g, f, {})
    BY DEF SumsOver
  <2> QED
    BY <2>1
<1>2. ASSUME NEW T \in SUBSET S, T # {}, \A x \in T : T \ {x} \in Good PROVE T \in Good
  <2>0. PICK x \in T : T \ {x} \in Good
    BY <1>2
  <2> DEFINE R == T \ {x}
  <2>1. PICK h : SumsOver(h, f, R)
    BY <2>0
  <2> DEFINE g == [s \in SUBSET T |-> IF x \in s THEN f[x] + h[s \ {x}] ELSE h[s]]
  <2>2. DOMAIN g = SUBSET T /\ g = [s \in SUBSET T |-> g[s]] /\ g[{}] = 0
    BY <2>1 DEF SumsOver
  <2>3. ASSUME NEW s \in SUBSET T PROVE g[s] \in Int
    BY <1>2, <2>1 DEF SumsOver
  <2>4. ASSUME NEW s \in SUBSET T, NEW y \in s PROVE g[s] = f[y] + g[s \ {y}]
    <3>0. f[x] \in Int /\ f[y] \in Int
      OBVIOUS
    <3>1. CASE x \notin s
      BY <3>1, <2>1 DEF SumsOver
    <3>2. CASE y = x
      BY <3>2
    <3>3. CASE x \in s /\ y # x
      <4>1. g[s] = f[x] + h[s \ {x}] /\ g[s \ {y}] = f[x] + h[(s \ {y}) \ {x}]
        BY <3>3
      <4>2. (s \ {y}) \ {x} = (s \ {x}) \ {y} /\ s \ {x} \in SUBSET R /\ y \in s \ {x}
        BY <3>3
      <4>3. h[s \ {x}] = f[y] + h[(s \ {x}) \ {y}] /\ h[(s \ {x}) \ {y}] \in Int
        BY <2>1, <4>2 DEF SumsOver
      <4>4. g[s \ {y}] = f[x] + h[(s \ {x}) \ {y}]
        BY <4>1, <4>2
      <4> HIDE DEF g, R
      <4> QED
        BY <3>0, <4>1, <4>3, <4>4
    <3> QED
      BY <3>1, <3>2, <3>3
  <2> HIDE DEF g
  <2>5. SumsOver(g, f, T)
    BY <2>2, <2>3, <2>4 DEF SumsOver
  <2> QED
    BY <2>5
<1>3. SUBSET S \subseteq Good
  <2> HIDE DEF Good
  <2> QED
    BY <1>1, <1>2, SetInduction
<1> QED
  BY <1>3

\* The fold is the value of that function.
LEMMA SumIsTheSum ==
  ASSUME NEW S, IsFiniteSet(S), NEW f, NEW g, SumsOver(g, f, S)
  PROVE  SumFunctionOnSet(f, S) = g[S]
<1> DEFINE Pick(s) == CHOOSE x \in s : TRUE
           Body(i) == [s \in SUBSET S |-> IF s = {} THEN 0 ELSE f[Pick(s)] + i[s \ {Pick(s)}]]
<1>1. g = Body(g)
  <2>1. ASSUME NEW s \in SUBSET S, s # {} PROVE Pick(s) \in s
    BY <2>1
  <2>2. \A s \in SUBSET S : g[s] = Body(g)[s]
    BY <2>1 DEF SumsOver
  <2>3. DOMAIN g = SUBSET S /\ g = [s \in SUBSET S |-> g[s]]
    BY DEF SumsOver
  <2> QED
    BY <2>2, <2>3
<1>2. ASSUME NEW h, h = Body(h) PROVE h = g
  <2> DEFINE Good == {s \in SUBSET S : h[s] = g[s]}
  <2>1. {} \in Good
    BY <1>1, <1>2
  <2>2. ASSUME NEW s \in SUBSET S, s # {}, \A x \in s : s \ {x} \in Good PROVE s \in Good
    <3>1. h[s \ {Pick(s)}] = g[s \ {Pick(s)}]
      BY <2>2
    <3>2. h[s] = f[Pick(s)] + h[s \ {Pick(s)}] /\ g[s] = f[Pick(s)] + g[s \ {Pick(s)}]
      BY <1>1, <1>2, <2>2
    <3> QED
      BY <3>1, <3>2
  <2>3. SUBSET S \subseteq Good
    <3> HIDE DEF Good
    <3> QED
      BY <2>1, <2>2, SetInduction
  <2>4. h = [s \in SUBSET S |-> h[s]] /\ g = [s \in SUBSET S |-> g[s]]
    BY <1>1, <1>2
  <2> QED
    BY <2>3, <2>4
<1>3. (CHOOSE i : i = Body(i)) = g
  BY <1>1, <1>2
<1>4. SumFunctionOnSet(f, S) = (CHOOSE i : i = Body(i))[S]
  BY Zenon DEF SumFunctionOnSet, FoldFunctionOnSet, MapThenFoldSet
<1> QED
  BY <1>3, <1>4


\* Taking one element out of a sum.
LEMMA SumRemove ==
  ASSUME NEW S, IsFiniteSet(S), NEW f, \A x \in S : f[x] \in Int, NEW x \in S
  PROVE  /\ SumFunctionOnSet(f, S \ {x}) \in Int
         /\ SumFunctionOnSet(f, S) = f[x] + SumFunctionOnSet(f, S \ {x})
<1>1. PICK g : SumsOver(g, f, S)
  BY SumsExist
<1> DEFINE R == S \ {x}
           h == [s \in SUBSET R |-> g[s]]
<1>2. SumsOver(h, f, R)
  BY <1>1 DEF SumsOver
<1>3. IsFiniteSet(R)
  BY FS_Subset
<1>4. SumFunctionOnSet(f, R) = h[R]
  BY <1>2, <1>3, SumIsTheSum
<1>5. SumFunctionOnSet(f, S) = g[S]
  BY <1>1, SumIsTheSum
<1> QED
  BY <1>1, <1>4, <1>5 DEF SumsOver

\* An empty sum is zero.
LEMMA SumEmpty == ASSUME NEW f PROVE SumFunctionOnSet(f, {}) = 0
<1> DEFINE g == [s \in SUBSET {} |-> 0]
<1>1. SumsOver(g, f, {})
  BY DEF SumsOver
<1> QED
  BY <1>1, SumIsTheSum, FS_EmptySet

\* Sums of whole numbers are whole.
LEMMA SumInt ==
  ASSUME NEW S, IsFiniteSet(S), NEW f, \A x \in S : f[x] \in Int
  PROVE  SumFunctionOnSet(f, S) \in Int
<1>1. CASE S = {}
  BY <1>1, SumEmpty
<1>2. CASE S # {}
  <2>1. PICK x \in S : TRUE
    BY <1>2
  <2>2. /\ SumFunctionOnSet(f, S \ {x}) \in Int
        /\ SumFunctionOnSet(f, S) = f[x] + SumFunctionOnSet(f, S \ {x})
    BY <2>1, SumRemove
  <2>3. f[x] \in Int
    BY <2>1
  <2> QED
    BY <2>2, <2>3
<1> QED
  BY <1>1, <1>2

\* A sum of zeros.
LEMMA SumOfZeros ==
  ASSUME NEW S, IsFiniteSet(S), NEW f, \A x \in S : f[x] = 0
  PROVE  SumFunctionOnSet(f, S) = 0
<1> DEFINE b == [s \in SUBSET S |-> 0]
<1>1. SumsOver(b, f, S)
  BY DEF SumsOver
<1> QED
  BY <1>1, SumIsTheSum

\* Sums of functions that agree are equal.
LEMMA SumAgree ==
  ASSUME NEW S, IsFiniteSet(S), NEW f, NEW g, \A x \in S : f[x] \in Int /\ g[x] = f[x]
  PROVE  SumFunctionOnSet(g, S) = SumFunctionOnSet(f, S)
<1>1. PICK h : SumsOver(h, f, S)
  BY SumsExist
<1>2. SumsOver(h, g, S)
  BY <1>1 DEF SumsOver
<1> QED
  BY <1>1, <1>2, SumIsTheSum

\* Changing one value changes the sum by as much.
LEMMA SumChange ==
  ASSUME NEW S, IsFiniteSet(S), NEW f \in [S -> Int], NEW g \in [S -> Int], NEW x \in S,
         \A y \in S \ {x} : g[y] = f[y]
  PROVE  /\ SumFunction(f) \in Int
         /\ SumFunction(g) = SumFunction(f) + (g[x] - f[x])
<1> DEFINE R == S \ {x}
<1>1. SumFunction(f) = SumFunctionOnSet(f, S) /\ SumFunction(g) = SumFunctionOnSet(g, S)
  BY DEF SumFunction
<1>2. SumFunctionOnSet(f, R) \in Int /\ SumFunctionOnSet(f, S) = f[x] + SumFunctionOnSet(f, R)
  BY SumRemove
<1>3. SumFunctionOnSet(g, S) = g[x] + SumFunctionOnSet(g, R)
  BY SumRemove
<1>4. IsFiniteSet(R)
  BY FS_Subset
<1>5. \A y \in R : f[y] \in Int /\ g[y] = f[y]
  OBVIOUS
<1> HIDE DEF R
<1>6. SumFunctionOnSet(g, R) = SumFunctionOnSet(f, R)
  BY <1>4, <1>5, SumAgree
<1>7. f[x] \in Int /\ g[x] \in Int
  OBVIOUS
<1> QED
  BY <1>1, <1>2, <1>3, <1>6, <1>7

-----------------------------------------------------------------------------
(* Custody.                                                                *)

\* The amount of a request, and the sum of those of some of them.
AmountAt == [r \in Requests |-> Amount(keyOf[r])]

\* What is funded in a direction is a finite set of whole amounts.
LEMMA FundedAmounts ==
  ASSUME IInv, NEW direction
  PROVE  LET S == FundedRequests(direction)
         IN  /\ IsFiniteSet(S)
             /\ \A r \in S : AmountAt[r] \in Int
             /\ TotalAmount(S) = SumFunctionOnSet(AmountAt, S)
             /\ TotalAmount(S) \in Int
<1> DEFINE S == FundedRequests(direction)
           f == [r \in S |-> Amount(keyOf[r])]
<1>1. IsFiniteSet(S) /\ S \subseteq Requests
  <2>1. S \subseteq Requests
    BY DEF FundedRequests
  <2> QED
    BY <2>1, SizeAssumption, FS_Subset
<1>2. \A r \in S : f[r] \in Int /\ AmountAt[r] = f[r]
  <2> SUFFICES ASSUME NEW r \in S PROVE f[r] \in Int /\ AmountAt[r] = f[r]
    OBVIOUS
  <2>1. r \in Requests /\ keyOf[r] \in Keys
    BY DEF FundedRequests, IInv, FundedRows, RequestsHaveKeys
  <2> QED
    BY <2>1, IntentAssumption DEF Amount, AmountAt
<1>3. TotalAmount(S) = SumFunctionOnSet(f, S)
  BY DEF TotalAmount, SumFunction
<1> HIDE DEF S, f
<1>4. SumFunctionOnSet(AmountAt, S) = SumFunctionOnSet(f, S) /\ SumFunctionOnSet(f, S) \in Int
  BY <1>1, <1>2, SumAgree, SumInt
<1> QED
  BY <1>1, <1>2, <1>3, <1>4 DEF S

\* What posts nothing and funds nothing keeps custody as it is.
LEMMA CustodyStays ==
  ASSUME CustodyMatchesPayments, UNCHANGED <<ledger, funded>>,
         \A r \in Requests : funded[r] => keyOf'[r] = keyOf[r]
  PROVE  CustodyMatchesPayments'
<1>1. ASSUME NEW direction
      PROVE  /\ FundedRequests(direction)' = FundedRequests(direction)
             /\ TotalAmount(FundedRequests(direction))' = TotalAmount(FundedRequests(direction))
  <2>1. FundedRequests(direction)' = FundedRequests(direction)
    BY DEF FundedRequests, DirectionOf
  <2>2. \A r \in FundedRequests(direction) : keyOf'[r] = keyOf[r]
    BY DEF FundedRequests
  <2> QED
    BY <2>1, <2>2 DEF TotalAmount
<1> QED
  BY <1>1 DEF CustodyMatchesPayments, ledger

\* Moving between a wallet and a contest's escrow leaves what users hold.
LEMMA StakesKeepCustody ==
  ASSUME IInv, Balanced, CustodyMatchesPayments, NEW u \in Users, Stake(u) \/ Unstake(u)
  PROVE  CustodyMatchesPayments'
<1>1. /\ wallet' \in [Users -> Int] /\ stakes' \in [Users -> Int]
      /\ \A v \in Users \ {u} : wallet'[v] = wallet[v] /\ stakes'[v] = stakes[v]
      /\ wallet'[u] - wallet[u] = -(stakes'[u] - stakes[u])
  BY DEF Stake, Unstake, Balanced
<1>2. UNCHANGED <<custody, funded, keyOf>>
  BY DEF Stake, Unstake, row
<1>3. \A direction : /\ FundedRequests(direction)' = FundedRequests(direction)
                     /\ TotalAmount(FundedRequests(direction))' = TotalAmount(FundedRequests(direction))
  BY <1>2 DEF FundedRequests, DirectionOf, TotalAmount
<1>4. wallet \in [Users -> Int] /\ stakes \in [Users -> Int] /\ wallet[u] \in Int /\ stakes[u] \in Int
  BY DEF Balanced
<1>5. /\ SumFunction(wallet) \in Int
      /\ SumFunction(wallet') = SumFunction(wallet) + (wallet'[u] - wallet[u])
  BY <1>1, <1>4, SumChange, SizeAssumption
<1>6. /\ SumFunction(stakes) \in Int
      /\ SumFunction(stakes') = SumFunction(stakes) + (stakes'[u] - stakes[u])
  BY <1>1, <1>4, SumChange, SizeAssumption
<1>7. SumFunction(wallet') + SumFunction(stakes') = SumFunction(wallet) + SumFunction(stakes)
  <2>1. wallet'[u] \in Int /\ stakes'[u] \in Int
    BY <1>1
  <2> QED
    BY <1>1, <1>4, <1>5, <1>6, <2>1
<1> QED
  BY <1>2, <1>3, <1>7 DEF CustodyMatchesPayments

\* Funding moves custody, the wallet and the sum of the funded payments by
\* the same amount.
LEMMA FundKeepsCustody ==
  ASSUME IInv, Balanced, CustodyMatchesPayments, NEW r \in Requests, Fund(r)
  PROVE  CustodyMatchesPayments'
<1>0. PICK way \in Directions : way = DirectionOf(r)
  BY AnsweredRow DEF Fund
<1> DEFINE k == keyOf[r]
           n == Amount(k)
           u == User(k)
           d == IF way = "deposit" THEN n ELSE -n
<1>1. k \in Keys /\ ~funded[r]
  BY AnsweredRow DEF Fund
<1>2. n \in Nat /\ u \in Users
  BY <1>1, IntentAssumption DEF Amount, User
<1>3. /\ wallet' = [wallet EXCEPT ![u] = wallet[u] + d] /\ custody' = custody + d
      /\ funded' = [funded EXCEPT ![r] = TRUE] /\ UNCHANGED <<keyOf, stakes>>
  BY <1>0, <1>2 DEF Fund, PostDeposit, PostWithdrawal, Credit, Balanced
<1> HIDE DEF k, n, u
<1>4. /\ FundedRequests(way)' = FundedRequests(way) \cup {r} /\ r \notin FundedRequests(way)
      /\ \A direction : direction # way => FundedRequests(direction)' = FundedRequests(direction)
  BY <1>0, <1>1, <1>3 DEF FundedRequests, DirectionOf, IInv, RowsTyped
<1>5. \A S : TotalAmount(S)' = TotalAmount(S)
  BY <1>3 DEF TotalAmount
<1>6. /\ TotalAmount(FundedRequests(way)) \in Int
      /\ TotalAmount(FundedRequests(way))' = TotalAmount(FundedRequests(way)) + n
  <2> DEFINE S == FundedRequests(way)
             T == S \cup {r}
             f == [q \in T |-> Amount(keyOf[q])]
  <2>1. IsFiniteSet(S) /\ TotalAmount(S) \in Int /\ TotalAmount(S) = SumFunctionOnSet(AmountAt, S)
        /\ \A q \in S : AmountAt[q] \in Int
    BY FundedAmounts
  <2>2. S \subseteq Requests /\ AmountAt[r] = n /\ \A q \in T : AmountAt[q] = f[q]
    BY DEF AmountAt, FundedRequests, n, k
  <2>3. TotalAmount(T) = SumFunctionOnSet(f, T)
    BY DEF TotalAmount, SumFunction
  <2>4. TotalAmount(S)' = TotalAmount(T)
    BY <1>4, <1>5
  <2>5. T \ {r} = S /\ r \in T
    BY <1>4
  <2> HIDE DEF S, f
  <2>6. IsFiniteSet(T)
    BY <2>1, FS_AddElement
  <2>7. \A q \in T : AmountAt[q] \in Int
    BY <1>2, <2>1, <2>2
  <2> HIDE DEF T
  <2>8. SumFunctionOnSet(AmountAt, T) = AmountAt[r] + SumFunctionOnSet(AmountAt, S)
    BY <2>5, <2>6, <2>7, SumRemove
  <2>9. SumFunctionOnSet(f, T) = SumFunctionOnSet(AmountAt, T)
    BY <2>2, <2>6, <2>7, SumAgree
  <2>10. TotalAmount(S)' = TotalAmount(S) + n
    BY <1>2, <2>1, <2>2, <2>3, <2>4, <2>8, <2>9
  <2> QED
    BY <2>1, <2>10 DEF S
<1>7. \A direction : direction # way =>
        /\ TotalAmount(FundedRequests(direction)) \in Int
        /\ TotalAmount(FundedRequests(direction))' = TotalAmount(FundedRequests(direction))
  <2>1. ASSUME NEW direction, direction # way
        PROVE  TotalAmount(FundedRequests(direction))' = TotalAmount(FundedRequests(direction))
    BY <1>3, <1>4, <2>1 DEF TotalAmount
  <2> QED
    BY <2>1, FundedAmounts
<1>8. wallet \in [Users -> Int] /\ wallet[u] \in Int /\ d \in Int /\ custody \in Int
  BY <1>2 DEF Balanced
<1>9. SumFunction(wallet) \in Int /\ SumFunction(wallet') = SumFunction(wallet) + d
  <2> HIDE DEF d
  <2>1. /\ wallet' \in [Users -> Int] /\ wallet'[u] = wallet[u] + d
        /\ \A v \in Users \ {u} : wallet'[v] = wallet[v]
    BY <1>2, <1>3, <1>8
  <2>2. /\ SumFunction(wallet) \in Int
        /\ SumFunction(wallet') = SumFunction(wallet) + (wallet'[u] - wallet[u])
    BY <1>2, <1>8, <2>1, SumChange, SizeAssumption
  <2> QED
    BY <1>8, <2>1, <2>2
<1>10. SumFunction(stakes) \in Int
  BY <1>2, SumChange, SizeAssumption DEF Balanced
<1>11. custody' = SumFunction(wallet') + SumFunction(stakes')
  <2>1. custody = SumFunction(wallet) + SumFunction(stakes)
    BY DEF CustodyMatchesPayments
  <2> HIDE DEF d
  <2> QED
    BY <1>3, <1>8, <1>9, <1>10, <2>1
<1>12. custody' = TotalAmount(FundedRequests("deposit"))' - TotalAmount(FundedRequests("withdrawal"))'
  <2>1. custody = TotalAmount(FundedRequests("deposit")) - TotalAmount(FundedRequests("withdrawal"))
    BY DEF CustodyMatchesPayments
  <2>2. /\ TotalAmount(FundedRequests("deposit")) \in Int
        /\ TotalAmount(FundedRequests("withdrawal")) \in Int
    BY FundedAmounts
  <2>3. CASE way = "deposit"
    <3>1. /\ TotalAmount(FundedRequests("deposit"))' = TotalAmount(FundedRequests("deposit")) + n
          /\ TotalAmount(FundedRequests("withdrawal"))' = TotalAmount(FundedRequests("withdrawal"))
      BY <1>6, <1>7, <2>3
    <3> QED
      BY <1>2, <1>3, <2>1, <2>2, <2>3, <3>1
  <2>4. CASE way = "withdrawal"
    <3>1. /\ TotalAmount(FundedRequests("deposit"))' = TotalAmount(FundedRequests("deposit"))
          /\ TotalAmount(FundedRequests("withdrawal"))' = TotalAmount(FundedRequests("withdrawal")) + n
      BY <1>6, <1>7, <2>4
    <3>2. custody' = custody - n
      BY <1>2, <1>3, <1>8, <2>4
    <3> QED
      BY <1>2, <2>1, <2>2, <3>1, <3>2
  <2> QED
    BY <1>0, <2>3, <2>4 DEF Directions
<1> QED
  BY <1>11, <1>12 DEF CustodyMatchesPayments

\* Custody is what the funded payments say and what users hold, however often
\* a deposit is retried and wherever a request dies between the rail and the
\* ledger (reconcile.ts I8; payments.ts, deposit and requestWithdrawal).
THEOREM CustodyCorrect == Spec => []CustodyMatchesPayments
<1>1. Init => Balanced
  BY DEF Init, Balanced
<1>2. IInv /\ Balanced /\ [Next]_vars => Balanced'
  BY BalancesStep
<1>3. Init => CustodyMatchesPayments
  <2> SUFFICES ASSUME Init PROVE CustodyMatchesPayments
    OBVIOUS
  <2>1. \A direction : FundedRequests(direction) = {}
    BY DEF Init, FundedRequests
  <2>2. TotalAmount({}) = 0
    BY SumEmpty DEF TotalAmount, SumFunction
  <2>3. SumFunction(wallet) = 0 /\ SumFunction(stakes) = 0
    <3>1. /\ DOMAIN wallet = Users /\ \A u \in Users : wallet[u] = 0
          /\ DOMAIN stakes = Users /\ \A u \in Users : stakes[u] = 0
      BY DEF Init
    <3> QED
      BY <3>1, SizeAssumption, SumOfZeros DEF SumFunction
  <2>4. custody = 0
    BY DEF Init
  <2> QED
    BY <2>1, <2>2, <2>3, <2>4 DEF CustodyMatchesPayments
<1>4. IInv /\ Balanced /\ CustodyMatchesPayments /\ [Next]_vars => CustodyMatchesPayments'
  <2> SUFFICES ASSUME IInv, Balanced, CustodyMatchesPayments, [Next]_vars
               PROVE  CustodyMatchesPayments'
    OBVIOUS
  <2>1. ASSUME UNCHANGED <<ledger, funded, keyOf>> PROVE CustodyMatchesPayments'
    BY <2>1, CustodyStays
  <2>2. ASSUME NEW r \in Requests, NEW k \in Keys, Begin(r, k) PROVE CustodyMatchesPayments'
    <3>1. /\ ~funded[r] /\ UNCHANGED <<ledger, funded>>
          /\ \A q \in Requests \ {r} : keyOf'[q] = keyOf[q]
      BY <2>2 DEF Begin, row, IInv, RowsTyped, RowsFollowSteps
    <3> QED
      BY <3>1, CustodyStays
  <2>3. ASSUME NEW r \in Requests, Open(r) \/ CallRail(r) \/ Fail(r) \/ Refuse(r) \/ Die(r)
        PROVE  CustodyMatchesPayments'
    BY <2>1, <2>3 DEF Open, CallRail, Fail, Refuse, Die, row
  <2>4. ASSUME NEW r \in Requests, Fund(r) PROVE CustodyMatchesPayments'
    BY <2>4, FundKeepsCustody
  <2>5. ASSUME NEW b \in Callbacks, NEW r \in Requests, NEW to \in States, ReadForCallback(b, r, to)
        PROVE  CustodyMatchesPayments'
    BY <2>1, <2>5 DEF ReadForCallback, row
  <2>6. ASSUME NEW b \in Callbacks, ApplyCallback(b) PROVE CustodyMatchesPayments'
    BY <2>1, <2>6 DEF ApplyCallback
  <2>7. ASSUME NEW u \in Users, Stake(u) \/ Unstake(u) PROVE CustodyMatchesPayments'
    BY <2>7, StakesKeepCustody
  <2>8. ASSUME NEW u \in Users, PlaceRestriction(u) PROVE CustodyMatchesPayments'
    BY <2>1, <2>8 DEF PlaceRestriction, row
  <2>9. CASE UNCHANGED vars
    BY <2>1, <2>9 DEF vars, ledger
  <2> QED
    BY <2>2, <2>3, <2>4, <2>5, <2>6, <2>7, <2>8, <2>9 DEF Next
<1> QED
  BY <1>1, <1>2, <1>3, <1>4, Invariance, PTL DEF Spec

=============================================================================
