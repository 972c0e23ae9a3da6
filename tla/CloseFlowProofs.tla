-------------------------- MODULE CloseFlowProofs --------------------------
(***************************************************************************)
(* Theorems about CloseFlow for any organizers' requests, any number of    *)
(* previews and any number of lost calls and expired reservations.         *)
(*                                                                         *)
(* What a request works with once it has passed the comparison with the    *)
(* standings is a placed preview, and final standings are never scored     *)
(* over; so the payouts a request holds are still Purse's when it is at    *)
(* last performed, and an answer that the close is done is true for ever.  *)
(***************************************************************************)
EXTENDS CloseFlow, TLAPS

\* A preview that may be shown to an organizer.
Placed(preview) ==
  /\ preview.at \in Previews
  /\ scores = "final"
  /\ preview.payouts # "running" /\ preview.payouts # None
  /\ preview.payouts = "empty" => contest = "voided"

HoldsPreview(r) ==
  \/ pc[r] \in {"freeze", "get", "recorded", "close", "wait", "finish"}
  \/ call[r] # None

ShownIsPlaced ==
  /\ frozen # None => Placed(frozen)
  /\ \A r \in Requests : HoldsPreview(r) => Placed(held[r])

\* A preview under way has its time.
PreviewsAreTimed ==
  \A r \in Requests : pc[r] \in {"read_back", "push", "preview"} => held[r].at \in Previews

\* Purse pays what its scores imply, which then stand.
SettledOnScores ==
  /\ contest = "settled" => paid = scores
  /\ event # "none" => contest = "settled"

\* Whoever was told of a close was told the truth.
ClosesAreDone ==
  contest # "settled" =>
    /\ status # "settled"
    /\ performed = {}
    /\ \A r \in Requests : pc[r] \notin {"recorded", "finish"} /\ call[r] # "closed"
    /\ \A at \in Previews : stored[at] # "closed"

NoneStale == \A r \in Requests : call[r] # "preview_hash_mismatch"

IInv ==
  /\ TypeOK
  /\ ShownIsPlaced
  /\ PreviewsAreTimed
  /\ SettledOnScores
  /\ ClosesAreDone
  /\ NoneStale

-----------------------------------------------------------------------------
USE NoneAssumption, BoundsAssumption DEF Payouts, Outcomes

\* The invariant holds at the start.
LEMMA InitIInv == Init => IInv
BY DEF Init, IInv, TypeOK, ShownIsPlaced, PreviewsAreTimed, SettledOnScores, ClosesAreDone, NoneStale, HoldsPreview,
       Previews, Terminal

\* The invariant implies what the runs check.
LEMMA IInvImplies == IInv => TypeOK /\ SettledAsConfirmed /\ FrozenIsFinal
BY DEF IInv, TypeOK, ShownIsPlaced, PreviewsAreTimed, SettledOnScores, ClosesAreDone, NoneStale, HoldsPreview, Placed,
       SettledAsConfirmed, FrozenIsFinal

\* Every step keeps the invariant.
LEMMA StepIInv == IInv /\ [Next]_vars => IInv'
<1> SUFFICES ASSUME IInv, [Next]_vars PROVE IInv'
  OBVIOUS
<1> USE DEF IInv, TypeOK, ShownIsPlaced, PreviewsAreTimed, SettledOnScores, ClosesAreDone, NoneStale, HoldsPreview, Placed,
            Previews, Terminal, sideout, http, purse
<1>1. ASSUME NEW r \in Requests, StartPreview(r) PROVE IInv'
  BY <1>1 DEF StartPreview, Free, Goes
<1>2. ASSUME NEW r \in Requests, NEW payouts \in Payouts, StartConfirm(r, payouts) PROVE IInv'
  BY <1>2 DEF StartConfirm, Free, Goes
<1>3. ASSUME NEW r \in Requests, NEW to \in {"awaiting_settlement", "cancelled"}, Transition(r, to) PROVE IInv'
  BY <1>3 DEF Transition, Goes
<1>4. ASSUME NEW r \in Requests, ReadBack(r) PROVE IInv'
  BY <1>4 DEF ReadBack, Goes
<1>5. ASSUME NEW r \in Requests, PushFinalStandings(r) PROVE IInv'
  BY <1>5 DEF PushFinalStandings, Submitted, AcceptingScores, Goes, Ends, Fails
<1>6. ASSUME NEW r \in Requests, ReadPreview(r) PROVE IInv'
  <2>1. PayoutsNow \in Payouts /\ (scores = "final" => PayoutsNow # "running")
        /\ (PayoutsNow = "empty" => contest = "voided")
    BY DEF PayoutsNow
  <2>2. CASE Diverged
    BY <1>6, <2>2 DEF ReadPreview, Ends
  <2>3. CASE ~Diverged
    <3>1. /\ held' = [held EXCEPT ![r] = [at |-> held[r].at, payouts |-> PayoutsNow]]
          /\ pc' = [pc EXCEPT ![r] = "freeze"]
          /\ scores = "final"
          /\ UNCHANGED <<status, frozen, previews, purse, http, mishaps>>
      BY <1>6, <2>3 DEF ReadPreview, Goes, Diverged
    <3>2. held[r].at \in Previews
      BY <1>6 DEF ReadPreview
    <3> HIDE DEF PayoutsNow
    <3> QED
      BY <2>1, <3>1, <3>2
  <2> QED
    BY <2>2, <2>3
<1>7. ASSUME NEW r \in Requests, Freeze(r) PROVE IInv'
  BY <1>7 DEF Freeze, Ends
<1>8. ASSUME NEW r \in Requests, GetContest(r) PROVE IInv'
  BY <1>8 DEF GetContest, Goes
<1>9. ASSUME NEW r \in Requests, ReadRecorded(r) PROVE IInv'
  BY <1>9 DEF ReadRecorded, MatchesRecorded, Goes
<1>10. ASSUME NEW r \in Requests, SendClose(r) PROVE IInv'
  BY <1>10 DEF SendClose, Goes
<1>11. ASSUME NEW r \in Requests, Claim(r) PROVE IInv'
  <2>1. Key(r) \in Previews /\ Placed(held[r])
    BY <1>11 DEF Claim, Key
  <2>2. CASE stored[Key(r)] # None /\ Answered(r, stored[Key(r)]) /\ call' = [call EXCEPT ![r] = None]
             /\ UNCHANGED reserved
    BY <1>11, <2>1, <2>2 DEF Claim, Answered, Waits
  <2>3. CASE Answered(r, "idempotency_key_in_progress") /\ call' = [call EXCEPT ![r] = None]
             /\ UNCHANGED reserved
    BY <1>11, <2>3 DEF Claim, Answered, Waits
  <2>4. CASE reserved' = [reserved EXCEPT ![Key(r)] = r] /\ call' = [call EXCEPT ![r] = "claimed"]
             /\ UNCHANGED <<pc, frozen>>
    BY <1>11, <2>4 DEF Claim
  <2> QED
    BY <1>11, <2>2, <2>3, <2>4 DEF Claim
<1>12. ASSUME NEW r \in Requests, PerformClose(r) PROVE IInv'
  <2>1. Key(r) \in Previews /\ Placed(held[r])
    BY <1>12 DEF PerformClose, Key
  <2>2. CloseOutcome(r) \in Outcomes /\ CloseOutcome(r) # "preview_hash_mismatch"
        /\ (CloseOutcome(r) = "closed" =>
              IF Key(r) \in performed THEN contest = "settled" ELSE contest = "awaiting_settlement")
    BY <2>1 DEF CloseOutcome
  <2>3. CASE CloseOutcome(r) = "closed" /\ Key(r) \notin performed
    <3>1. /\ call' = [call EXCEPT ![r] = "closed"]
          /\ contest' = "settled" /\ paid' = scores /\ event' = "queued"
          /\ performed' = performed \cup {Key(r)}
          /\ UNCHANGED <<status, frozen, previews, pc, held, scores, reserved, stored, mishaps>>
      BY <1>12, <2>3 DEF PerformClose, SettleWith
    <3>2. contest = "awaiting_settlement" /\ call[r] # None
      BY <1>12, <2>2, <2>3 DEF PerformClose
    <3> QED
      BY <2>1, <3>1, <3>2
  <2>4. CASE ~(CloseOutcome(r) = "closed" /\ Key(r) \notin performed)
    <3>1. PICK outcome \in Outcomes : outcome = CloseOutcome(r)
      BY <2>2
    <3>2. /\ call' = [call EXCEPT ![r] = outcome]
          /\ UNCHANGED <<status, frozen, previews, pc, held, contest, scores, paid, performed, event>>
          /\ UNCHANGED <<reserved, stored, mishaps>>
      BY <1>12, <2>4, <3>1 DEF PerformClose
    <3>3. outcome # "preview_hash_mismatch" /\ (outcome = "closed" => contest = "settled")
      BY <2>1, <2>2, <2>4, <3>1
    <3>4. call[r] # None
      BY <1>12 DEF PerformClose
    <3> QED
      BY <2>1, <3>2, <3>3, <3>4
  <2> QED
    BY <2>3, <2>4
<1>13. ASSUME NEW r \in Requests, StoreAnswer(r) PROVE IInv'
  BY <1>13 DEF StoreAnswer, Answered, Waits, Key
<1>14. ASSUME NEW r \in Requests, HandlerDies(r) PROVE IInv'
  BY <1>14 DEF HandlerDies
<1>15. ASSUME NEW r \in Requests, TimeOut(r) PROVE IInv'
  BY <1>15 DEF TimeOut, Fails, Ends
<1>16. ASSUME NEW r \in Requests, FinishClose(r) PROVE IInv'
  BY <1>16 DEF FinishClose, SettledFrom, Ends
<1>17. ASSUME NEW r \in Requests, Mirror(r) PROVE IInv'
  <2>1. CASE pc' = [pc EXCEPT ![r] = "void"] /\ UNCHANGED mishaps
    BY <1>17, <2>1 DEF Mirror
  <2>2. CASE pc' = [pc EXCEPT ![r] = "idle"] /\ mishaps' \in 0..MaxMishaps
    BY <1>17, <2>2 DEF Mirror
  <2> QED
    BY <1>17, <2>1, <2>2 DEF Mirror, Goes, Fails, Ends
<1>18. ASSUME NEW r \in Requests, VoidForCancelled(r) PROVE IInv'
  <2>1. pc' = [pc EXCEPT ![r] = "idle"] /\ mishaps' \in 0..MaxMishaps
    BY <1>18 DEF VoidForCancelled, Ends, Fails
  <2>2. contest' = contest \/ (AcceptingScores /\ contest' = "voided")
    BY <1>18 DEF VoidForCancelled
  <2> QED
    BY <1>18, <2>1, <2>2 DEF VoidForCancelled, AcceptingScores
<1>19. ASSUME NEW at \in Previews, ExpireReservation(at) PROVE IInv'
  BY <1>19 DEF ExpireReservation
<1>20. CASE ReceiveSettled
  BY <1>20 DEF ReceiveSettled, SettledFrom
<1>21. CASE ConsoleFinish
  BY <1>21 DEF ConsoleFinish
<1>22. CASE ConsoleClose
  BY <1>22 DEF ConsoleClose, SettleWith
<1>23. CASE ConsoleVoid
  BY <1>23 DEF ConsoleVoid, AcceptingScores
<1>24. CASE UNCHANGED vars
  BY <1>24 DEF vars
<1> QED
  BY <1>1, <1>2, <1>3, <1>4, <1>5, <1>6, <1>7, <1>8, <1>9, <1>10, <1>11, <1>12, <1>13, <1>14, <1>15, <1>16, <1>17, <1>18, <1>19, <1>20, <1>21, <1>22, <1>23, <1>24 DEF Next, Continue, Handle

\* A settled tournament is settled on what was confirmed and paid.
THEOREM SettledCorrect == Spec => [](TypeOK /\ SettledAsConfirmed /\ FrozenIsFinal)
<1>1. Init => IInv
  BY InitIInv
<1>2. IInv /\ [Next]_vars => IInv'
  BY StepIInv
<1>3. IInv => TypeOK /\ SettledAsConfirmed /\ FrozenIsFinal
  BY IInvImplies
<1> QED
  BY <1>1, <1>2, <1>3, PTL DEF Spec

-----------------------------------------------------------------------------
(* All answers under one key.                                              *)

\* What a handler answered is what any handler of the key would answer now.
Stands(at, answer) ==
  /\ answer = "closed" <=> at \in performed
  /\ answer = "already_settled" => contest = "settled"
  /\ answer = "invalid_transition" => contest = "voided"
  /\ answer # "preview_hash_mismatch"

AnswersStand ==
  /\ \A r \in Requests : call[r] \in Outcomes => Stands(Key(r), call[r])
  /\ \A at \in Previews : stored[at] # None => Stands(at, stored[at])

ScoresEndPlay == scores = "final" => contest # "in_progress"

KInv == AnswersStand /\ ScoresEndPlay

\* The answers stand at the start: there are none.
LEMMA InitKInv == Init => KInv
BY DEF Init, KInv, AnswersStand, ScoresEndPlay, Previews

\* Every step lets the answers stand.
LEMMA StepKInv == IInv /\ KInv /\ [Next]_vars => KInv'
<1> SUFFICES ASSUME IInv, KInv, [Next]_vars PROVE KInv'
  OBVIOUS
<1> USE DEF IInv, TypeOK, ShownIsPlaced, HoldsPreview, Placed, ClosesAreDone, KInv, AnswersStand, ScoresEndPlay,
            Stands, Key, Previews, Terminal, sideout, http, purse
<1>1. ASSUME NEW r \in Requests, StartPreview(r) PROVE KInv'
  BY <1>1 DEF StartPreview, Free
<1>2. ASSUME NEW r \in Requests, NEW payouts \in Payouts, StartConfirm(r, payouts) PROVE KInv'
  BY <1>2 DEF StartConfirm, Free
<1>3. ASSUME NEW r \in Requests, NEW to \in {"awaiting_settlement", "cancelled"}, Transition(r, to) PROVE KInv'
  BY <1>3 DEF Transition
<1>4. ASSUME NEW r \in Requests, ReadBack(r) PROVE KInv'
  BY <1>4 DEF ReadBack
<1>5. ASSUME NEW r \in Requests, PushFinalStandings(r) PROVE KInv'
  BY <1>5 DEF PushFinalStandings, Submitted, AcceptingScores
<1>6. ASSUME NEW r \in Requests, ReadPreview(r) PROVE KInv'
  <2>1. \A q \in Requests : held'[q].at = held[q].at
    BY <1>6 DEF ReadPreview
  <2> QED
    BY <1>6, <2>1 DEF ReadPreview
<1>7. ASSUME NEW r \in Requests, Freeze(r) PROVE KInv'
  BY <1>7 DEF Freeze
<1>8. ASSUME NEW r \in Requests, GetContest(r) PROVE KInv'
  BY <1>8 DEF GetContest
<1>9. ASSUME NEW r \in Requests, ReadRecorded(r) PROVE KInv'
  BY <1>9 DEF ReadRecorded
<1>10. ASSUME NEW r \in Requests, SendClose(r) PROVE KInv'
  BY <1>10 DEF SendClose
<1>11. ASSUME NEW r \in Requests, Claim(r) PROVE KInv'
  BY <1>11 DEF Claim
<1>12. ASSUME NEW r \in Requests, PerformClose(r) PROVE KInv'
  <2>1. Key(r) \in Previews /\ Placed(held[r]) /\ call[r] = "claimed"
    BY <1>12 DEF PerformClose
  <2>2. PICK outcome \in Outcomes : outcome = CloseOutcome(r)
    BY DEF CloseOutcome
  <2>3. CASE outcome = "closed" /\ Key(r) \notin performed
    <3>1. /\ call' = [call EXCEPT ![r] = "closed"]
          /\ contest' = "settled" /\ performed' = performed \cup {Key(r)}
          /\ UNCHANGED <<held, scores, stored>>
      BY <1>12, <2>2, <2>3 DEF PerformClose, SettleWith
    <3>2. contest = "awaiting_settlement"
      BY <2>2, <2>3 DEF CloseOutcome
    <3> QED
      BY <2>1, <3>1, <3>2
  <2>4. CASE ~(outcome = "closed" /\ Key(r) \notin performed)
    <3>1. /\ call' = [call EXCEPT ![r] = outcome]
          /\ UNCHANGED <<held, contest, scores, performed, stored>>
      BY <1>12, <2>2, <2>4 DEF PerformClose
    <3>2. Stands(Key(r), outcome)
      BY <2>1, <2>2, <2>4 DEF CloseOutcome
    <3> QED
      BY <2>1, <3>1, <3>2
  <2> QED
    BY <2>3, <2>4
<1>13. ASSUME NEW r \in Requests, StoreAnswer(r) PROVE KInv'
  BY <1>13 DEF StoreAnswer
<1>14. ASSUME NEW r \in Requests, HandlerDies(r) PROVE KInv'
  BY <1>14 DEF HandlerDies
<1>15. ASSUME NEW r \in Requests, TimeOut(r) PROVE KInv'
  BY <1>15 DEF TimeOut
<1>16. ASSUME NEW r \in Requests, FinishClose(r) PROVE KInv'
  BY <1>16 DEF FinishClose
<1>17. ASSUME NEW r \in Requests, Mirror(r) PROVE KInv'
  BY <1>17 DEF Mirror
<1>18. ASSUME NEW r \in Requests, VoidForCancelled(r) PROVE KInv'
  BY <1>18 DEF VoidForCancelled, AcceptingScores
<1>19. ASSUME NEW at \in Previews, ExpireReservation(at) PROVE KInv'
  BY <1>19 DEF ExpireReservation
<1>20. CASE ReceiveSettled
  BY <1>20 DEF ReceiveSettled
<1>21. CASE ConsoleFinish
  BY <1>21 DEF ConsoleFinish
<1>22. CASE ConsoleClose
  BY <1>22 DEF ConsoleClose, SettleWith
<1>23. CASE ConsoleVoid
  BY <1>23 DEF ConsoleVoid, AcceptingScores
<1>24. CASE UNCHANGED vars
  BY <1>24 DEF vars
<1> QED
  BY <1>1, <1>2, <1>3, <1>4, <1>5, <1>6, <1>7, <1>8, <1>9, <1>10, <1>11, <1>12, <1>13, <1>14, <1>15, <1>16, <1>17, <1>18, <1>19, <1>20, <1>21, <1>22, <1>23, <1>24 DEF Next, Continue, Handle

\* However reservations expire and handlers die, the answers under one close
\* key agree: no handler of a performed close denies it.
THEOREM KeysAnswerAlike == Spec => []KeyAnswersAlike
<1>1. Init => IInv /\ KInv
  BY InitIInv, InitKInv
<1>2. IInv /\ KInv /\ [Next]_vars => IInv' /\ KInv'
  BY StepIInv, StepKInv
<1>3. IInv /\ KInv => KeyAnswersAlike
  <2> SUFFICES ASSUME IInv, KInv, NEW r \in Requests, call[r] \in Outcomes
               PROVE  /\ Key(r) \in performed => call[r] = "closed"
                      /\ stored[Key(r)] # None => stored[Key(r)] = call[r]
    BY DEF KeyAnswersAlike
  <2>1. Key(r) \in Previews
    BY DEF IInv, ShownIsPlaced, HoldsPreview, Placed, Key
  <2>2. Stands(Key(r), call[r]) /\ (stored[Key(r)] # None => Stands(Key(r), stored[Key(r)]))
    BY <2>1 DEF KInv, AnswersStand
  <2>3. stored[Key(r)] \in Outcomes \cup {None}
    BY <2>1 DEF IInv, TypeOK
  <2>4. performed # {} => contest = "settled"
    BY DEF IInv, ClosesAreDone
  <2> QED
    BY <2>2, <2>3, <2>4 DEF Stands
<1> QED
  BY <1>1, <1>2, <1>3, PTL DEF Spec

=============================================================================
