----------------------------- MODULE CloseFlow -----------------------------
(***************************************************************************)
(* Closing a Sideout tournament through Purse: the frozen preview, the     *)
(* confirmation that carries its hash, and everything that may move the    *)
(* tournament or its contest meanwhile (sideout server/purse/close.ts,     *)
(* scores.ts pushFinalStandings, contests.ts mirrorTournament, webhooks.ts *)
(* applyContestState), together with the part of Purse they call: one      *)
(* contest and the Idempotency-Key middleware its close goes through       *)
(* (purse http/idempotency.ts).                                            *)
(*                                                                         *)
(* A request of an organizer is a process with one action per awaited call *)
(* or transaction.  Payouts are abstracted to what they are computed from: *)
(* the running scores of the matches, the pushed final standings, or an    *)
(* escrow that a void has emptied.  Every match is scored and confirmed    *)
(* when a close starts (the blockers are ScorePush's subject), the contest *)
(* has been started, and its entrants are fixed.                           *)
(***************************************************************************)
EXTENDS Naturals

CONSTANTS
  Requests,      \* requests of organizers that may overlap
  MaxPreviews,   \* bound: previews ever started
  MaxMishaps,    \* bound: lost calls, lost answers, expired reservations
  None           \* absence of a value (null)

ASSUME BoundsAssumption == MaxPreviews \in Nat /\ MaxMishaps \in Nat

Payouts == {"running", "final", "empty"}
Outcomes == {"closed", "already_settled", "preview_hash_mismatch", "invalid_transition"}
Previews == 1..MaxPreviews

ASSUME NoneAssumption == None \notin Payouts \cup Outcomes \cup {"sent", "claimed"} \cup Requests

VARIABLES
  status,       \* tournaments.status, from live on
  frozen,       \* tournaments.purse_close_preview: its payouts and when it was previewed
  previews,     \* previews started so far: the clock behind previewedAt
  pc,           \* what each organizer's request does next
  held,         \* the preview a request works with
  contest,      \* Purse: state of the tournament's contest
  scores,       \* Purse: what the entrants' current scores are
  paid,         \* Purse: the payouts the contest was settled with
  call,         \* Purse: the close handler a request started, with its outcome
  reserved,     \* Purse: idempotency_reservations, the request holding each close key
  stored,       \* Purse: the answer stored for each close key
  performed,    \* Purse: close keys whose request has committed
  event,        \* the contest.settled event
  mishaps

sideout == <<status, frozen, previews, pc, held>>
http == <<call, reserved, stored>>
purse == <<contest, scores, paid, performed, event>>
vars == <<sideout, purse, http, mishaps>>

-----------------------------------------------------------------------------
(* Purse's contest.                                                        *)

\* previewSettlement: the recorded payouts of a settled contest, otherwise
\* what its escrow and scores imply now.
PayoutsNow ==
  CASE contest = "settled" -> paid
    [] contest = "voided"  -> "empty"
    [] OTHER               -> scores

AcceptingScores == contest \in {"in_progress", "awaiting_settlement"}

\* A settlement commits with its contest.settled event.
SettleWith(payouts) ==
  /\ contest' = "settled"
  /\ paid' = payouts
  /\ event' = "queued"

\* Purse's console moves the contest on its own: an operator declares it
\* finished, closes it on a preview of the present scores, or voids it.
ConsoleFinish ==
  /\ contest = "in_progress"
  /\ contest' = "awaiting_settlement"
  /\ UNCHANGED <<sideout, http, scores, paid, performed, event, mishaps>>

ConsoleClose ==
  /\ contest = "awaiting_settlement"
  /\ SettleWith(scores)
  /\ UNCHANGED <<sideout, http, scores, performed, mishaps>>

ConsoleVoid ==
  /\ AcceptingScores
  /\ contest' = "voided"
  /\ UNCHANGED <<sideout, http, scores, paid, performed, event, mishaps>>

-----------------------------------------------------------------------------
(* The tournament.                                                         *)

Terminal == {"settled", "cancelled"}

\* transitionTournament to settled, on the row as it is under its lock.
SettledFrom(current) == IF current = "awaiting_settlement" THEN "settled" ELSE current

\* A request ends; whatever it was refused or lost is told to the organizer.
Ends(r) == pc' = [pc EXCEPT ![r] = "idle"]

\* A request may start in a place whose last one has ended, at Purse too.
Free(r) == pc[r] = "idle" /\ call[r] = None

Goes(r, step) == pc' = [pc EXCEPT ![r] = step]

\* A call of a request to Purse that never got there or lost its answer.
Fails(r) ==
  /\ mishaps < MaxMishaps
  /\ mishaps' = mishaps + 1
  /\ Ends(r)

\* The organizer ends play or cancels; the mirror follows the commit.
Transition(r, to) ==
  /\ pc[r] = "idle"
  /\ to = "awaiting_settlement" => status = "live"
  /\ to = "cancelled" => status \notin Terminal
  /\ status' = to
  /\ Goes(r, "mirror")
  /\ UNCHANGED <<frozen, previews, held, purse, http, mishaps>>

\* Fault: the webhook only records the contest's state.
ReceiveSettledRecording ==
  /\ event = "queued"
  /\ event' = "recorded"
  /\ UNCHANGED <<sideout, contest, scores, paid, performed, http, mishaps>>

\* The contest.settled webhook: recorded once, and applied to the tournament
\* only while that awaits its settlement.
ReceiveSettled ==
  /\ event = "queued"
  /\ event' = "recorded"
  /\ status' = SettledFrom(status)
  /\ UNCHANGED <<frozen, previews, pc, held, contest, scores, paid, performed, http, mishaps>>

-----------------------------------------------------------------------------
(* Step 1 of the close: previewClose.                                      *)

StartPreview(r) ==
  /\ Free(r)
  /\ status = "awaiting_settlement"
  /\ previews < MaxPreviews
  /\ previews' = previews + 1
  /\ held' = [held EXCEPT ![r] = [at |-> previews + 1, payouts |-> None]]
  /\ Goes(r, "read_back")
  /\ UNCHANGED <<status, frozen, purse, http, mishaps>>

\* The contest and its entrants are read back; a contest that takes no scores
\* any more is previewed as it is.
ReadBack(r) ==
  /\ pc[r] = "read_back"
  /\ Goes(r, IF AcceptingScores THEN "push" ELSE "preview")
  /\ UNCHANGED <<status, frozen, previews, held, purse, http, mishaps>>

\* submitScores under the tournament's final-standings key: performed once,
\* and complete results move the contest to awaiting_settlement.
Submitted ==
  \/ /\ scores = "final"
     /\ UNCHANGED <<contest, scores>>
  \/ /\ scores = "running"
     /\ AcceptingScores
     /\ scores' = "final"
     /\ contest' = "awaiting_settlement"

PushFinalStandings(r) ==
  /\ pc[r] = "push"
  /\ \/ /\ Submitted
        /\ \/ Goes(r, "preview") /\ UNCHANGED mishaps
           \/ Fails(r)
     \/ /\ scores = "running" /\ ~AcceptingScores
        /\ Ends(r)
        /\ UNCHANGED <<contest, scores, mishaps>>
  /\ UNCHANGED <<status, frozen, previews, held, paid, performed, event, http>>

\* Purse's preview is compared with the standings: every entrant must carry
\* the placed score in a finished attempt.
Diverged == scores # "final"

ReadPreview(r) ==
  /\ pc[r] = "preview"
  /\ IF Diverged
     THEN Ends(r) /\ UNCHANGED held
     ELSE /\ held' = [held EXCEPT ![r] = [at |-> held[r].at, payouts |-> PayoutsNow]]
          /\ Goes(r, "freeze")
  /\ UNCHANGED <<status, frozen, previews, purse, http, mishaps>>

\* The preview is frozen on the tournament, whatever it has become meanwhile.
Freeze(r) ==
  /\ pc[r] = "freeze"
  /\ frozen' = held[r]
  /\ Ends(r)
  /\ UNCHANGED <<status, previews, held, purse, http, mishaps>>

-----------------------------------------------------------------------------
(* Step 2 of the close: closeTournament.                                   *)

\* The organizer confirms the payouts a preview showed: they must be the
\* frozen ones, and the tournament awaits settlement or has settled already.
StartConfirm(r, payouts) ==
  /\ Free(r)
  /\ frozen # None
  /\ frozen.payouts = payouts
  /\ status \in {"awaiting_settlement", "settled"}
  /\ held' = [held EXCEPT ![r] = frozen]
  /\ Goes(r, "get")
  /\ UNCHANGED <<status, frozen, previews, purse, http, mishaps>>

GetContest(r) ==
  /\ pc[r] = "get"
  /\ Goes(r, IF contest = "settled" THEN "recorded" ELSE "close")
  /\ UNCHANGED <<status, frozen, previews, held, purse, http, mishaps>>

\* A contest that is already settled is read back, and must have paid what
\* the organizer confirmed.
MatchesRecorded(r) == paid = held[r].payouts

ReadRecorded(r) ==
  /\ pc[r] = "recorded"
  /\ Goes(r, IF MatchesRecorded(r) THEN "finish" ELSE "idle")
  /\ UNCHANGED <<status, frozen, previews, held, purse, http, mishaps>>

SendClose(r) ==
  /\ pc[r] = "close"
  /\ Goes(r, "wait")
  /\ call' = [call EXCEPT ![r] = "sent"]
  /\ UNCHANGED <<status, frozen, previews, held, purse, reserved, stored, mishaps>>

\* closeKey: the frozen preview is the request, so its time names the key.
Key(r) == held[r].at

\* What the answer to a close makes of the request that sent it, if it still
\* waits: a close done goes on to settle the tournament, a refusal is told to
\* the organizer, and one for a stale hash clears the frozen preview too.
Waits(r) == pc[r] = "wait"

Answered(r, answer) ==
  /\ pc' = IF ~Waits(r) THEN pc
           ELSE [pc EXCEPT ![r] = IF answer = "closed" THEN "finish" ELSE "idle"]
  /\ frozen' = IF Waits(r) /\ answer = "preview_hash_mismatch" THEN None ELSE frozen

\* The middleware: a stored answer is replayed; a key nobody holds is
\* reserved; a key in progress is waited for, and refused after a while.
Claim(r) ==
  /\ call[r] = "sent"
  /\ \/ /\ stored[Key(r)] # None
        /\ Answered(r, stored[Key(r)])
        /\ call' = [call EXCEPT ![r] = None]
        /\ UNCHANGED reserved
     \/ /\ stored[Key(r)] = None
        /\ reserved[Key(r)] = None
        /\ reserved' = [reserved EXCEPT ![Key(r)] = r]
        /\ call' = [call EXCEPT ![r] = "claimed"]
        /\ UNCHANGED <<pc, frozen>>
     \/ /\ stored[Key(r)] = None
        /\ reserved[Key(r)] # None
        /\ Answered(r, "idempotency_key_in_progress")
        /\ call' = [call EXCEPT ![r] = None]
        /\ UNCHANGED reserved
  /\ UNCHANGED <<status, previews, held, purse, stored, mishaps>>

\* Fault: the record of the key is not consulted.
CloseOutcomeUnkeyed(r) ==
  CASE contest = "settled" -> "already_settled"
    [] contest = "awaiting_settlement" -> "closed"
    [] OTHER -> "invalid_transition"

\* closeContest under the contest's lock and the key's advisory lock: a key
\* that has committed is answered from its record, a settled contest is not
\* settled again, and the presented hash must be the recomputed one.
CloseOutcome(r) ==
  CASE Key(r) \in performed -> "closed"
    [] Key(r) \notin performed /\ contest = "settled" -> "already_settled"
    [] Key(r) \notin performed /\ contest = "awaiting_settlement" ->
         IF held[r].payouts = scores THEN "closed" ELSE "preview_hash_mismatch"
    [] OTHER -> "invalid_transition"

PerformClose(r) ==
  /\ call[r] = "claimed"
  /\ call' = [call EXCEPT ![r] = CloseOutcome(r)]
  /\ IF CloseOutcome(r) = "closed" /\ Key(r) \notin performed
     THEN SettleWith(scores) /\ performed' = performed \cup {Key(r)}
     ELSE UNCHANGED <<contest, paid, event, performed>>
  /\ UNCHANGED <<sideout, scores, reserved, stored, mishaps>>

\* The outcome is stored under the key, unless another handler's is, and
\* answered.
StoreAnswer(r) ==
  /\ call[r] \in Outcomes
  /\ stored' = [stored EXCEPT ![Key(r)] = IF @ = None THEN call[r] ELSE @]
  /\ Answered(r, call[r])
  /\ call' = [call EXCEPT ![r] = None]
  /\ UNCHANGED <<status, previews, held, purse, reserved, mishaps>>

\* A reservation outlives its minute while its handler is still at work, or
\* after it died.
ExpireReservation(at) ==
  /\ reserved[at] # None
  /\ mishaps < MaxMishaps
  /\ mishaps' = mishaps + 1
  /\ reserved' = [reserved EXCEPT ![at] = None]
  /\ UNCHANGED <<sideout, purse, call, stored>>

\* The handler dies, before or after it committed, and its answer is lost.
HandlerDies(r) ==
  /\ call[r] # None
  /\ mishaps < MaxMishaps
  /\ mishaps' = mishaps + 1
  /\ call' = [call EXCEPT ![r] = None]
  /\ pc' = IF pc[r] = "wait" THEN [pc EXCEPT ![r] = "idle"] ELSE pc
  /\ UNCHANGED <<status, frozen, previews, held, purse, reserved, stored>>

\* Fault: a close whose answer is lost is taken as done.
TimeOutAsDone(r) ==
  /\ pc[r] = "wait"
  /\ mishaps < MaxMishaps
  /\ mishaps' = mishaps + 1
  /\ Goes(r, "finish")
  /\ UNCHANGED <<status, frozen, previews, held, purse, http>>

\* The client gives up on a close that Purse is still working on.
TimeOut(r) ==
  /\ pc[r] = "wait"
  /\ Fails(r)
  /\ UNCHANGED <<status, frozen, previews, held, purse, http>>

\* The last transaction of the close, on the tournament under its lock.
FinishClose(r) ==
  /\ pc[r] = "finish"
  /\ status' = SettledFrom(status)
  /\ Ends(r)
  /\ UNCHANGED <<frozen, previews, held, purse, http, mishaps>>

-----------------------------------------------------------------------------
(* The mirror of a transition of the tournament, and its contest voided.    *)

\* Fault: a contest that awaits its settlement is left to be settled.
MirrorRunningOnly(r) ==
  /\ pc[r] = "mirror"
  /\ \/ /\ Goes(r, IF status = "cancelled" /\ contest = "in_progress" THEN "void" ELSE "idle")
        /\ UNCHANGED mishaps
     \/ Fails(r)
  /\ UNCHANGED <<status, frozen, previews, held, purse, http>>

\* mirrorTournament reads the tournament and its contest; one that still runs
\* is voided for a cancelled tournament.  A failure of Purse is recorded and
\* the request ends.
Mirror(r) ==
  /\ pc[r] = "mirror"
  /\ \/ /\ Goes(r, IF status = "cancelled" /\ AcceptingScores THEN "void" ELSE "idle")
        /\ UNCHANGED mishaps
     \/ Fails(r)
  /\ UNCHANGED <<status, frozen, previews, held, purse, http>>

VoidForCancelled(r) ==
  /\ pc[r] = "void"
  /\ \/ /\ contest' = IF AcceptingScores THEN "voided" ELSE contest
        /\ \/ Ends(r) /\ UNCHANGED mishaps
           \/ Fails(r)
     \/ Fails(r) /\ UNCHANGED contest
  /\ UNCHANGED <<status, frozen, previews, held, scores, paid, performed, event, http>>

-----------------------------------------------------------------------------
Init ==
  /\ status = "live"
  /\ frozen = None
  /\ previews = 0
  /\ pc = [r \in Requests |-> "idle"]
  /\ held = [r \in Requests |-> [at |-> 0, payouts |-> None]]
  /\ contest = "in_progress"
  /\ scores = "running"
  /\ paid = None
  /\ call = [r \in Requests |-> None]
  /\ reserved = [at \in Previews |-> None]
  /\ stored = [at \in Previews |-> None]
  /\ performed = {}
  /\ event = "none"
  /\ mishaps = 0

\* What a request does once it has been started.
Continue(r) ==
  \/ ReadBack(r) \/ PushFinalStandings(r) \/ ReadPreview(r) \/ Freeze(r)
  \/ GetContest(r) \/ ReadRecorded(r) \/ SendClose(r) \/ FinishClose(r)
  \/ Mirror(r) \/ VoidForCancelled(r)

Handle(r) == Claim(r) \/ PerformClose(r) \/ StoreAnswer(r)

Next ==
  \/ \E r \in Requests :
       \/ \E to \in {"awaiting_settlement", "cancelled"} : Transition(r, to)
       \/ \E payouts \in Payouts : StartConfirm(r, payouts)
       \/ StartPreview(r)
       \/ Continue(r) \/ Handle(r)
       \/ HandlerDies(r) \/ TimeOut(r)
  \/ \E at \in Previews : ExpireReservation(at)
  \/ ReceiveSettled
  \/ ConsoleFinish \/ ConsoleClose \/ ConsoleVoid

Spec == Init /\ [][Next]_vars

\* A request that was started is carried on, Purse's handlers run, and
\* Purse's dispatcher delivers its event; nobody is obliged to start anything.
Fairness ==
  /\ \A r \in Requests : WF_vars(Continue(r)) /\ WF_vars(Handle(r))
  /\ WF_vars(ReceiveSettled)

FairSpec == Spec /\ Fairness

-----------------------------------------------------------------------------
(* Properties.                                                             *)

\* Every variable has its type.
TypeOK ==
  /\ status \in {"live", "awaiting_settlement"} \cup Terminal
  /\ frozen \in [at : 0..MaxPreviews, payouts : Payouts] \cup {None}
  /\ previews \in 0..MaxPreviews
  /\ pc \in [Requests -> {"idle", "read_back", "push", "preview", "freeze", "get", "recorded",
                          "close", "wait", "finish", "mirror", "void"}]
  /\ held \in [Requests -> [at : 0..MaxPreviews, payouts : Payouts \cup {None}]]
  /\ contest \in {"in_progress", "awaiting_settlement", "settled", "voided"}
  /\ scores \in {"running", "final"}
  /\ paid \in {"running", "final", None}
  /\ call \in [Requests -> {"sent", "claimed", None} \cup Outcomes]
  /\ reserved \in [Previews -> Requests \cup {None}]
  /\ stored \in [Previews -> Outcomes \cup {None}]
  /\ performed \subseteq Previews
  /\ event \in {"none", "queued", "recorded"}
  /\ mishaps \in 0..MaxMishaps

\* Only final standings are ever frozen, and their payouts then stand until
\* Purse settles or voids the contest: no close is refused as stale.
FrozenIsFinal ==
  /\ frozen # None =>
       /\ scores = "final"
       /\ frozen.payouts # "running"
       /\ frozen.payouts = "empty" => contest = "voided"
  /\ \A r \in Requests : call[r] # "preview_hash_mismatch"

\* A settled tournament has a settled contest, a preview it still holds is
\* what was paid (the rewards page reads settled amounts off it), and a request
\* is on its way to settle it only with the payouts its organizer confirmed:
\* also when the console closed the contest, an answer was lost or replayed,
\* or a slow preview was frozen after the close.
SettledAsConfirmed ==
  /\ status = "settled" => contest = "settled"
  /\ (status = "settled" /\ frozen # None) => frozen.payouts = paid
  /\ \A r \in Requests : pc[r] = "finish" => (contest = "settled" /\ held[r].payouts = paid)

\* All handlers that ever answer under one close key answer alike, although
\* reservations expire under a handler at work: a close that was done is never
\* denied by another handler of its key, and no answer contradicts a stored one.
KeyAnswersAlike ==
  \A r \in Requests :
    call[r] \in Outcomes =>
      /\ Key(r) \in performed => call[r] = "closed"
      /\ stored[Key(r)] # None => stored[Key(r)] = call[r]

\* A tournament whose final standings Purse has paid is settled in the end,
\* unless the organizer cancels it, although the answer to the close may be
\* lost at any point.
PaidIsSettled == (paid = "final") ~> (status \in Terminal)

\* The mirror of contests.ts: the contest of a cancelled tournament ends voided,
\* every stake refunded, or was settled before, whatever overlapped with the
\* cancellation.  A mirror that failed is not promised here: nothing runs it
\* again once the tournament is cancelled.
CancelledIsRefunded ==
  (status = "cancelled") ~> (contest \in {"voided", "settled"} \/ mishaps > 0)

=============================================================================
