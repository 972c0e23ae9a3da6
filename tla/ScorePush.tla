------------------------------ MODULE ScorePush ------------------------------
(***************************************************************************)
(* Sideout pushes agreed matches to Purse                                  *)
(* (apps/sideout/src/server/purse/scores.ts).                              *)
(*                                                                         *)
(* A push reads the match's consensus, reads the teams' wins, sends the    *)
(* batch, records that Purse accepted it, sends it again and records that  *)
(* Purse replayed it.  No lock is held between these steps, a request or   *)
(* its answer may be lost at each send, and the automatic push and the     *)
(* organizer's retries may run at the same time.  Purse answers under an   *)
(* idempotency key in two layers: the HTTP layer stores responses, the     *)
(* service stores the batches it performed, and a crash may separate them. *)
(*                                                                         *)
(* A pusher that dies is one whose answer was lost: it leaves the same     *)
(* state behind.                                                           *)
(***************************************************************************)
EXTENDS Integers, FiniteSets, FiniteSetsExt

CONSTANTS
  None,
  Teams,
  Matches,
  TeamsOf,       \* [m] the two teams of the match
  KnownEntrants, \* the teams whose entries are recorded before the first push
  Pushers,       \* how many pushes may overlap
  MaxKey         \* bounds the idempotency keys minted

ASSUME MatchesAssumption == IsFiniteSet(Matches)

ASSUME TeamsOfAssumption ==
  /\ TeamsOf \in [Matches -> SUBSET Teams]
  /\ \A m \in Matches : Cardinality(TeamsOf[m]) = 2

ASSUME KnownEntrantsAssumption == KnownEntrants \subseteq Teams

ASSUME MaxKeyAssumption == MaxKey \in Nat

Keys == 1 .. MaxKey

VARIABLES
  consensus,     \* [m] state of match_consensus; "open" before agreement
  winner,        \* [m] winning team of a complete match, None before
  key,           \* [m] idempotency_key of the consensus, 0 before it is minted
  issued,        \* [m] every key the consensus has had
  unpushed,      \* matches whose automatic push has not started
  vacuous,       \* matches confirmed because nobody in them holds an entry
  entered,       \* teams whose players Sideout has recorded as Purse entrants
  push,          \* [p] the push a pusher is running
  stored,        \* [k] Purse, HTTP layer: request and answer under the key
  performed,     \* [k] Purse, service: the batch performed under the key
  score,         \* [t] Purse: the counting score of the team's players
  fresh          \* pushers about to send a batch that was read since Purse last performed one;
                 \* for the properties

sideout == <<consensus, winner, key, issued, unpushed, vacuous, entered>>
purse == <<stored, performed, score>>
vars == <<sideout, push, purse, fresh>>

NextKey == Cardinality(UNION {issued[m] : m \in Matches}) + 1

-----------------------------------------------------------------------------
(* Consensus states (domain/consensus.ts).                                 *)

Retryable == {"agreed", "pushed_to_purse"}
Pushable == {"agreed"}

Transitions == [agreed |-> {"pushed_to_purse"}, pushed_to_purse |-> {"confirmed"}, confirmed |-> {}]

\* Fault: a retry, too, starts from an agreed match only.
OnlyAgreed(state, retry) == state \in Pushable

MayPush(state, retry) == state \in (IF retry THEN Retryable ELSE Pushable)

-----------------------------------------------------------------------------
(* What is sent.                                                           *)

\* Fault: only wins that wait for their push count.
WinsAwaitingPush(t) == Cardinality({m \in Matches : winner[m] = t /\ consensus[m] = "agreed"})

\* winsByTeam, runningScore
Wins(t) == Cardinality({m \in Matches : winner[m] = t})

\* Fault: every completed match counts, not only the won ones.
BatchOfPlayed(m) ==
  [t \in TeamsOf[m] \cap entered |-> Cardinality({n \in Matches : winner[n] # None /\ t \in TeamsOf[n]})]

\* matchScoreBatch: the teams of the match that hold entries, with their wins.
MatchScoreBatch(m) == [t \in TeamsOf[m] \cap entered |-> Wins(t)]

EmptyBatch == [t \in {} |-> 0]

\* The service performs a batch: each team's score is superseded.
Perform(k, batch) ==
  /\ performed' = [performed EXCEPT ![k] = batch]
  /\ score' = [t \in Teams |-> IF t \in DOMAIN batch THEN batch[t] ELSE score[t]]

Outcomes == {"held", "conflict", "reused"}

ASSUME NoneAssumption ==
  /\ None \notin Teams
  /\ \A S \in SUBSET Teams :
       None \notin [S -> Nat] /\ None \notin [batch : [S -> Nat], outcome : Outcomes]

\* Purse answers a request under k.  A stored response is returned as it is,
\* marked replayed; otherwise the service performs the batch, replays it or
\* refuses the key, and its response is stored unless the process dies first.
\* The answer: held, conflict (the service's refusal) or reused (HTTP's).
PurseAnswers(k, batch, outcome, replayed, kept) ==
  IF stored[k] # None
  THEN /\ replayed = (stored[k].batch = batch)
       /\ outcome = IF stored[k].batch = batch THEN stored[k].outcome ELSE "reused"
       /\ UNCHANGED purse
  ELSE /\ ~replayed
       /\ outcome = IF performed[k] = None \/ performed[k] = batch THEN "held" ELSE "conflict"
       /\ stored' = IF kept THEN [stored EXCEPT ![k] = [batch |-> batch, outcome |-> outcome]]
                            ELSE stored
       /\ IF performed[k] = None THEN Perform(k, batch) ELSE UNCHANGED <<performed, score>>

-----------------------------------------------------------------------------
(* The tournament around the pushes.                                       *)

\* A consensus still open, on a match that is not forfeited.
MayAgree(m) == consensus[m] = "open" /\ winner[m] = None

\* enterAgreed: the match is final, its winner is set, its key is minted.
\* The automatic push follows the commit.
EnterAgreed(m) ==
  /\ MayAgree(m)
  /\ NextKey \in Keys
  /\ consensus' = [consensus EXCEPT ![m] = "agreed"]
  /\ \E t \in TeamsOf[m] : winner' = [winner EXCEPT ![m] = t]
  /\ key' = [key EXCEPT ![m] = NextKey]
  /\ issued' = [issued EXCEPT ![m] = @ \cup {NextKey}]
  /\ unpushed' = unpushed \cup {m}
  /\ UNCHANGED <<vacuous, entered, push, purse, fresh>>

\* forfeitMatch: the match is complete and its winner counts, with no push.
Forfeit(m) ==
  /\ MayAgree(m)
  /\ \E t \in TeamsOf[m] : winner' = [winner EXCEPT ![m] = t]
  /\ UNCHANGED <<consensus, key, issued, unpushed, vacuous, entered, push, purse, fresh>>

\* recordEntries: a read-back or a webhook shows a team's players as entered.
RecordEntries(t) ==
  /\ t \notin entered
  /\ entered' = entered \cup {t}
  /\ UNCHANGED <<consensus, winner, key, issued, unpushed, vacuous, push, purse, fresh>>

-----------------------------------------------------------------------------
(* The push.                                                               *)

Idle == [pc |-> "idle", match |-> None, retry |-> FALSE, seen |-> "open",
         key |-> 0, batch |-> EmptyBatch]

End(p) == push' = [push EXCEPT ![p] = Idle]

\* loadForPush and the gate, on the consensus as it is now.
StartPush(p, m, retry) ==
  /\ push[p].pc = "idle"
  /\ MayPush(consensus[m], retry)
  /\ ~retry => m \in unpushed
  /\ unpushed' = IF retry THEN unpushed ELSE unpushed \ {m}
  /\ push' = [push EXCEPT ![p] = [Idle EXCEPT !.pc = "batch", !.match = m, !.retry = retry,
                                              !.seen = consensus[m], !.key = key[m]]]
  /\ UNCHANGED <<consensus, winner, key, issued, vacuous, entered, purse, fresh>>

\* The batch is read from the rows as they are by now.
ReadBatch(p) ==
  /\ push[p].pc = "batch"
  /\ MatchScoreBatch(push[p].match) # EmptyBatch
  /\ push' = [push EXCEPT ![p].pc = "first", ![p].batch = MatchScoreBatch(push[p].match)]
  /\ fresh' = fresh \cup {p}
  /\ UNCHANGED <<sideout, purse>>

\* Nobody in the match holds an entry: both moves in one transaction.
NothingToPush(p) ==
  /\ push[p].pc = "batch"
  /\ MatchScoreBatch(push[p].match) = EmptyBatch
  /\ consensus' = [consensus EXCEPT ![push[p].match] = "confirmed"]
  /\ vacuous' = vacuous \cup {push[p].match}
  /\ End(p)
  /\ UNCHANGED <<winner, key, issued, unpushed, entered, purse, fresh>>

\* p's request has ended: Purse performed its batch, which overtakes every
\* batch read before, or p has nothing more to send for the first time.
Overtakes(p) ==
  fresh' = IF performed' # performed THEN {} ELSE {q \in fresh : q # p \/ push'[q].pc = "rotate"}

\* The first send was answered.  Only an organizer's retry of a match it saw
\* agreed may rotate a key that was used for another batch; every other
\* refusal is recorded and ends the push.
First(p, kept) ==
  /\ push[p].pc \in {"first", "again"}
  /\ \E outcome \in Outcomes, replayed \in BOOLEAN :
       /\ PurseAnswers(push[p].key, push[p].batch, outcome, replayed, kept)
       /\ CASE outcome = "held" ->
                 push' = [push EXCEPT ![p].pc = IF push[p].seen = "agreed" THEN "accepted" ELSE "second"]
            [] outcome = "reused" /\ push[p].pc = "first" /\ push[p].retry /\ push[p].seen = "agreed" ->
                 push' = [push EXCEPT ![p].pc = "rotate"]
            [] OTHER -> End(p)
  /\ Overtakes(p)
  /\ UNCHANGED sideout

\* rotateKey
RotateKey(p) ==
  /\ push[p].pc = "rotate"
  /\ NextKey \in Keys
  /\ key' = [key EXCEPT ![push[p].match] = NextKey]
  /\ issued' = [issued EXCEPT ![push[p].match] = @ \cup {NextKey}]
  /\ push' = [push EXCEPT ![p].pc = "reload", ![p].key = NextKey]
  /\ UNCHANGED <<consensus, winner, unpushed, vacuous, entered, purse, fresh>>

\* The consensus is loaded again, not judged again.
Reload(p) ==
  /\ push[p].pc = "reload"
  /\ push' = [push EXCEPT ![p].pc = "again", ![p].seen = consensus[push[p].match]]
  /\ UNCHANGED <<sideout, purse, fresh>>

\* The state the row is given.
NewState(to) == to

\* moveConsensus: the edge is judged on the state the push saw; the row is
\* updated by its id alone.
MoveConsensus(p, to) ==
  /\ to \in Transitions[push[p].seen]
  /\ consensus' = [consensus EXCEPT ![push[p].match] = NewState(to)]

MovePushed(p) ==
  /\ push[p].pc = "accepted"
  /\ MoveConsensus(p, "pushed_to_purse")
  /\ push' = [push EXCEPT ![p].pc = "second", ![p].seen = "pushed_to_purse"]
  /\ UNCHANGED <<winner, key, issued, unpushed, vacuous, entered, purse, fresh>>

\* The second send: only a replay of the batch confirms.  Both answers name
\* the rows of one performed batch, for they were given under one key.
Second(p, kept) ==
  /\ push[p].pc = "second"
  /\ \E outcome \in Outcomes, replayed \in BOOLEAN :
       /\ PurseAnswers(push[p].key, push[p].batch, outcome, replayed, kept)
       /\ IF outcome = "held" /\ replayed
          THEN push' = [push EXCEPT ![p].pc = "replayed"]
          ELSE End(p)
  /\ Overtakes(p)
  /\ UNCHANGED sideout

MoveConfirmed(p) ==
  /\ push[p].pc = "replayed"
  /\ MoveConsensus(p, "confirmed")
  /\ End(p)
  /\ UNCHANGED <<winner, key, issued, unpushed, vacuous, entered, purse, fresh>>

\* The move is refused on what the push saw, and the push throws.
MoveRefused(p) ==
  /\ push[p].pc = "replayed"
  /\ "confirmed" \notin Transitions[push[p].seen]
  /\ End(p)
  /\ UNCHANGED <<sideout, purse, fresh>>

\* Fault: a failure is recorded and the push goes on.
CarriesOn(p) == IF push[p].seen = "agreed" THEN [push[p] EXCEPT !.pc = "accepted"] ELSE Idle

\* recordPushFailure: the consensus keeps its state and the push ends.
AfterFailure(p) == Idle

\* A request is lost before Purse sees it, or its answer on the way back.
Lost(p) ==
  /\ push[p].pc \in {"first", "again", "second"}
  /\ \/ UNCHANGED purse
     \/ \E outcome \in Outcomes, replayed, kept \in BOOLEAN :
          PurseAnswers(push[p].key, push[p].batch, outcome, replayed, kept)
  /\ push' = [push EXCEPT ![p] = AfterFailure(p)]
  /\ Overtakes(p)
  /\ UNCHANGED sideout

Init ==
  /\ consensus = [m \in Matches |-> "open"]
  /\ winner = [m \in Matches |-> None]
  /\ key = [m \in Matches |-> 0]
  /\ issued = [m \in Matches |-> {}]
  /\ unpushed = {}
  /\ vacuous = {}
  /\ entered = KnownEntrants
  /\ push = [p \in Pushers |-> Idle]
  /\ stored = [k \in Keys |-> None]
  /\ performed = [k \in Keys |-> None]
  /\ score = [t \in Teams |-> 0]
  /\ fresh = {}

Local(p) ==
  \/ ReadBatch(p) \/ NothingToPush(p) \/ RotateKey(p) \/ Reload(p)
  \/ MovePushed(p) \/ MoveConfirmed(p) \/ MoveRefused(p)

\* One step of a running push.
Step(p) == Local(p) \/ Lost(p) \/ \E kept \in BOOLEAN : First(p, kept) \/ Second(p, kept)

Retry(m) == \E p \in Pushers : StartPush(p, m, TRUE)

Next ==
  \/ \E m \in Matches : EnterAgreed(m) \/ Forfeit(m) \/ Retry(m)
  \/ \E t \in Teams : RecordEntries(t)
  \/ \E p \in Pushers, m \in Matches : StartPush(p, m, FALSE)
  \/ \E p \in Pushers : Step(p)

Spec == Init /\ [][Next]_vars

\* A running push takes its next step, for every request ends with an answer
\* or at its timeout; the organizer retries m for as long as
\* it blocks the close; and a request of m that is sent again and again is,
\* again and again, answered and its answer stored.
FairTo(m) ==
  /\ SF_vars(Retry(m))
  /\ \A p \in Pushers :
       /\ WF_vars(Step(p))
       /\ SF_vars(push[p].match = m /\ First(p, TRUE))
       /\ SF_vars(push[p].match = m /\ Second(p, TRUE))

FairSpec == Spec /\ \A m \in Matches : FairTo(m)

-----------------------------------------------------------------------------
(* Properties.                                                             *)

Batch(b) == DOMAIN b \subseteq Teams /\ \A t \in DOMAIN b : b[t] \in Nat

\* Every variable has its type.
TypeOK ==
  /\ consensus \in [Matches -> {"open"} \cup DOMAIN Transitions]
  /\ winner \in [Matches -> Teams \cup {None}]
  /\ key \in [Matches -> Keys \cup {0}]
  /\ issued \in [Matches -> SUBSET Keys]
  /\ entered \subseteq Teams
  /\ vacuous \cup unpushed \subseteq Matches
  /\ score \in [Teams -> Nat]
  /\ fresh \subseteq Pushers
  /\ \A k \in Keys : /\ stored[k] # None => Batch(stored[k].batch)
                     /\ performed[k] # None => Batch(performed[k])

\* A consensus says what Purse holds: pushed_to_purse, that a batch of the
\* match was performed; confirmed, that an accepted answer is stored under
\* one of its keys and would be replayed.  Through lost answers, crashes of
\* Purse between the batch and its response, rotated keys and overlapping
\* pushes (server/purse/scores.ts, "the read-back that proves the batch is
\* durably held").
ConsensusIsBacked ==
  \A m \in Matches \ vacuous :
    /\ consensus[m] \in {"pushed_to_purse", "confirmed"} =>
         \E k \in issued[m] : performed[k] # None
    /\ consensus[m] = "confirmed" =>
         \E k \in issued[m] : stored[k] # None /\ stored[k].outcome = "held"

\* Purse never holds more wins for a team than Sideout does, however old the
\* batch that arrives.
ScoreNeverAhead == \A t \in Teams : score[t] <= Wins(t)

\* A team's running score in Purse advances (domain/purse-score.ts: the next
\* agreed match simply advances it), with one exception: the first send of a
\* push that another one overtook after it read its batch.  No replay, no
\* second send, no retry, no rotated key and no crash of Purse takes it back.
OnlyTheOvertakenGoBack ==
  [][(\E t \in Teams : score'[t] < score[t]) =>
       \E p \in Pushers \ fresh : push[p].pc \in {"first", "again"} /\ push'[p] # push[p]]_vars

\* Purse performed a batch of the match that is not the one a push would send
\* now: a team has won since, or its players were recorded as entrants.
BatchHasChanged(m) ==
  \E k \in issued[m] : performed[k] # None /\ performed[k] # MatchScoreBatch(m)

\* An agreed match is confirmed in the end: the organizer's retries get it
\* there through every loss and every crash of Purse (server/purse/scores.ts,
\* "for the organizer's retry, which runs the same steps under the same
\* key").  The one thing that may stop them is a batch that has changed.
EventuallyConfirmed(m) ==
  consensus[m] = "agreed" ~> (consensus[m] = "confirmed" \/ BatchHasChanged(m))

=============================================================================
