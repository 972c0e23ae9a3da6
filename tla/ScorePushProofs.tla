--------------------------- MODULE ScorePushProofs ---------------------------
(***************************************************************************)
(* Theorems about ScorePush for every set of teams, matches and pushers    *)
(* and any number of keys.                                                 *)
(*                                                                         *)
(* What Purse performed and what it stored under a key never changes, so   *)
(* what a push learned from an answer is still true when it moves the      *)
(* consensus, however many other pushes came in between; and wins are      *)
(* never taken back, so no batch is ever ahead of Sideout.  A batch read   *)
(* after the last one Purse performed covers what Purse holds, so only a   *)
(* push that was overtaken can take a score back.                          *)
(***************************************************************************)
EXTENDS ScorePush, FiniteSetTheorems, TLAPS

Batches == UNION {[S -> Nat] : S \in SUBSET Teams}
Answers == [batch : Batches, outcome : Outcomes]

PushSteps == {"idle", "batch", "first", "rotate", "reload", "again", "accepted", "second", "replayed"}
ConsensusStates == {"open"} \cup DOMAIN Transitions

Pushes == [pc : PushSteps, match : Matches \cup {None}, retry : BOOLEAN, seen : ConsensusStates,
           key : Keys \cup {0}, batch : Batches]

Typed ==
  /\ consensus \in [Matches -> ConsensusStates]
  /\ winner \in [Matches -> Teams \cup {None}]
  /\ key \in [Matches -> Keys \cup {0}]
  /\ issued \in [Matches -> SUBSET Keys]
  /\ unpushed \subseteq Matches /\ vacuous \subseteq Matches /\ entered \subseteq Teams
  /\ push \in [Pushers -> Pushes]
  /\ stored \in [Keys -> Answers \cup {None}]
  /\ performed \in [Keys -> Batches \cup {None}]
  /\ score \in [Teams -> Nat]

\* A consensus that may be pushed, or had a key, has one.
KeysAreIssued ==
  \A m \in Matches : consensus[m] # "open" \/ issued[m] # {} => key[m] \in issued[m]

Held(k) == stored[k] # None /\ stored[k].outcome = "held"

\* Purse stores that it holds a batch only when it does.
StoredIsPerformed == \A k \in Keys : Held(k) => performed[k] # None

\* What a running push has learned about its key is so.
Knows(p) ==
  push[p].pc # "idle" =>
    /\ push[p].match \in Matches
    /\ push[p].key \in issued[push[p].match]
    /\ push[p].pc \in {"accepted", "second"} => performed[push[p].key] # None
    /\ push[p].pc = "replayed" => Held(push[p].key)

PushesKnow == \A p \in Pushers : Knows(p)

Behind(batch) == \A t \in DOMAIN batch : batch[t] <= Wins(t)

\* A batch on its way is not ahead of the wins.
BatchesAreWins == \A p \in Pushers : Behind(push[p].batch)

IInv ==
  /\ Typed
  /\ KeysAreIssued
  /\ StoredIsPerformed
  /\ PushesKnow
  /\ BatchesAreWins
  /\ ConsensusIsBacked
  /\ ScoreNeverAhead

-----------------------------------------------------------------------------
(* Lemmas.                                                                 *)

\* None is neither a batch nor an answer.
LEMMA NoneIsNone == None \notin Teams /\ None \notin Batches /\ None \notin Answers
<1>1. None \notin Batches
  BY NoneAssumption DEF Batches
<1>2. ASSUME NEW a \in Answers PROVE a # None
  <2>1. PICK S \in SUBSET Teams : a.batch \in [S -> Nat]
    BY DEF Answers, Batches
  <2>2. a \in [batch : [S -> Nat], outcome : Outcomes]
    BY <2>1 DEF Answers
  <2> QED
    BY <2>2, NoneAssumption
<1> QED
  BY <1>1, <1>2, NoneAssumption

\* Wins are counted over finitely many matches.
LEMMA WinsAreFinite ==
  ASSUME NEW t
  PROVE  Wins(t) \in Nat /\ IsFiniteSet({m \in Matches : winner[m] = t})
<1>1. IsFiniteSet({m \in Matches : winner[m] = t})
  BY MatchesAssumption, FS_Subset
<1> QED
  BY <1>1, FS_CardinalityType DEF Wins

\* Deciding one more match takes no win back.
LEMMA WinsGrow ==
  ASSUME NEW t \in Teams, winner \in [Matches -> Teams \cup {None}],
         NEW m \in Matches, NEW w \in Teams,
         winner[m] = None, winner' = [winner EXCEPT ![m] = w]
  PROVE  Wins(t) \in Nat /\ Wins(t)' \in Nat /\ Wins(t) <= Wins(t)'
<1> DEFINE won == {n \in Matches : winner[n] = t}
           wonNow == {n \in Matches : winner'[n] = t}
<1>1. won \subseteq wonNow
  BY NoneIsNone
<1>2. IsFiniteSet(wonNow)
  BY MatchesAssumption, FS_Subset
<1>3. /\ Cardinality(won) \in Nat /\ Cardinality(wonNow) \in Nat
      /\ Cardinality(won) <= Cardinality(wonNow)
  BY <1>1, <1>2, FS_Subset, FS_CardinalityType
<1> QED
  BY <1>3 DEF Wins

\* A batch is a function from some teams to counts.
LEMMA BatchesAreFunctions ==
  ASSUME NEW b \in Batches
  PROVE  DOMAIN b \subseteq Teams /\ \A t \in DOMAIN b : b[t] \in Nat
BY DEF Batches

\* The batch of a match counts the wins.
LEMMA MatchBatch ==
  ASSUME Typed, NEW m \in Matches
  PROVE  MatchScoreBatch(m) \in Batches /\ Behind(MatchScoreBatch(m))
<1> DEFINE S == TeamsOf[m] \cap entered
<1>1. S \in SUBSET Teams
  BY TeamsOfAssumption
<1>2. \A t \in S : Wins(t) \in Nat
  BY WinsAreFinite
<1>3. MatchScoreBatch(m) \in [S -> Nat]
  BY <1>2 DEF MatchScoreBatch
<1>4. \A t \in S : MatchScoreBatch(m)[t] = Wins(t) /\ DOMAIN MatchScoreBatch(m) = S
  BY DEF MatchScoreBatch
<1>5. Behind(MatchScoreBatch(m))
  BY <1>2, <1>4 DEF Behind, MatchScoreBatch
<1> QED
  BY <1>1, <1>3, <1>5 DEF Batches

\* A pusher that is idle sends nothing.
LEMMA IdlePush == Idle \in Pushes /\ Behind(Idle.batch) /\ Idle.pc = "idle"
<1>1. EmptyBatch \in [{} -> Nat] /\ DOMAIN EmptyBatch = {}
  BY DEF EmptyBatch
<1>2. EmptyBatch \in Batches
  BY <1>1 DEF Batches
<1> QED
  BY <1>1, <1>2 DEF Idle, Pushes, PushSteps, ConsensusStates, Behind

\* What an answer of Purse does: nothing it performed or stored is changed, a
\* held batch was performed, and a replay comes from what is stored.
LEMMA Answered ==
  ASSUME IInv, NEW k \in Keys, NEW batch \in Batches, Behind(batch),
         NEW outcome \in Outcomes, NEW replayed \in BOOLEAN, NEW kept \in BOOLEAN,
         PurseAnswers(k, batch, outcome, replayed, kept), UNCHANGED winner
  PROVE  /\ stored' \in [Keys -> Answers \cup {None}]
         /\ performed' \in [Keys -> Batches \cup {None}]
         /\ score' \in [Teams -> Nat]
         /\ \A j \in Keys : stored[j] # None => stored'[j] = stored[j]
         /\ \A j \in Keys : performed[j] # None => performed'[j] = performed[j]
         /\ outcome = "held" => performed'[k] # None
         /\ outcome = "held" /\ replayed => Held(k)'
         /\ StoredIsPerformed' /\ ScoreNeverAhead'
<1> USE DEF PurseAnswers, purse
<1>1. /\ stored \in [Keys -> Answers \cup {None}] /\ performed \in [Keys -> Batches \cup {None}]
      /\ score \in [Teams -> Nat]
      /\ StoredIsPerformed /\ ScoreNeverAhead
  BY DEF IInv, Typed
<1>2. batch # None
  BY NoneIsNone
<1>3. CASE stored[k] # None
  <2>1. UNCHANGED <<stored, performed, score>>
    BY <1>3
  <2>2. outcome = "held" => Held(k)
    BY <1>3 DEF Held, Outcomes
  <2>3. outcome = "held" => performed[k] # None
    BY <1>1, <2>2 DEF StoredIsPerformed
  <2>4. StoredIsPerformed' /\ ScoreNeverAhead'
    BY <1>1, <2>1 DEF StoredIsPerformed, ScoreNeverAhead, Held, Wins
  <2> HIDE DEF PurseAnswers
  <2> QED
    BY <1>1, <2>1, <2>2, <2>3, <2>4 DEF Held
<1>4. CASE stored[k] = None
  <2> DEFINE answer == [batch |-> batch, outcome |-> outcome]
  <2>1. answer \in Answers /\ answer # None
    BY NoneIsNone DEF Answers
  <2>2. /\ ~replayed
        /\ outcome = IF performed[k] = None \/ performed[k] = batch THEN "held" ELSE "conflict"
        /\ stored' = IF kept THEN [stored EXCEPT ![k] = answer] ELSE stored
        /\ IF performed[k] = None THEN Perform(k, batch) ELSE UNCHANGED <<performed, score>>
    BY <1>4
  <2> HIDE DEF PurseAnswers, answer
  <2>3. /\ stored' \in [Keys -> Answers \cup {None}]
        /\ \A j \in Keys \ {k} : stored'[j] = stored[j]
        /\ stored'[k] = answer \/ stored'[k] = None
    BY <1>1, <1>4, <2>1, <2>2
  <2>4. /\ performed' \in [Keys -> Batches \cup {None}]
        /\ \A j \in Keys : performed[j] # None => performed'[j] = performed[j]
        /\ performed'[k] # None
    BY <1>1, <1>2, <2>2 DEF Perform
  <2>5. StoredIsPerformed'
    BY <1>1, <2>3, <2>4 DEF StoredIsPerformed, Held
  <2>6. score' \in [Teams -> Nat] /\ \A t \in Teams : score'[t] <= Wins(t)
    <3>1. CASE performed[k] = None
      <4>1. score' = [t \in Teams |-> IF t \in DOMAIN batch THEN batch[t] ELSE score[t]]
        BY <2>2, <3>1 DEF Perform
      <4> QED
        BY <1>1, <4>1, BatchesAreFunctions DEF Behind, ScoreNeverAhead
    <3>2. CASE performed[k] # None
      BY <1>1, <2>2, <3>2 DEF ScoreNeverAhead
    <3> QED
      BY <3>1, <3>2
  <2>7. ScoreNeverAhead'
    BY <2>6 DEF ScoreNeverAhead, Wins
  <2> QED
    BY <1>4, <2>2, <2>3, <2>4, <2>5, <2>6, <2>7
<1> QED
  BY <1>3, <1>4

\* What a push knows and what backs a consensus: wins are as they were, no key
\* is taken back, and what Purse performed or stored stays.
Lasting ==
  /\ winner' = winner
  /\ \A m \in Matches : issued[m] \subseteq issued'[m]
  /\ \A k \in Keys : stored[k] # None => stored'[k] = stored[k]
  /\ \A k \in Keys : performed[k] # None => performed'[k] = performed[k]

\* The other pushes keep what they know.
LEMMA PushesLast ==
  ASSUME IInv, Lasting, NEW p \in Pushers,
         \A q \in Pushers \ {p} : push'[q] = push[q],
         Knows(p)', Behind(push[p].batch)'
  PROVE  PushesKnow' /\ BatchesAreWins'
<1>1. ASSUME NEW q \in Pushers \ {p} PROVE Knows(q)' /\ Behind(push[q].batch)'
  <2>1. push'[q] = push[q] /\ Knows(q) /\ Behind(push[q].batch)
    BY DEF IInv, PushesKnow, BatchesAreWins
  <2>2. Behind(push[q].batch)'
    BY <2>1 DEF Behind, Lasting, Wins
  <2>3. push[q].match \in Matches => issued[push[q].match] \subseteq Keys
    BY DEF IInv, Typed
  <2> QED
    BY <2>1, <2>2, <2>3 DEF Knows, Held, Lasting
<1> QED
  BY <1>1 DEF PushesKnow, BatchesAreWins

\* What backs a consensus that does not move keeps backing it.
Backed(m) ==
  /\ consensus[m] \in {"pushed_to_purse", "confirmed"} => \E k \in issued[m] : performed[k] # None
  /\ consensus[m] = "confirmed" => \E k \in issued[m] : Held(k)

\* Backed in one state, backed in the next.
LEMMA BackingLasts ==
  ASSUME IInv, Lasting
  PROVE  \A m \in Matches \ vacuous : consensus'[m] = consensus[m] => Backed(m)'
<1> SUFFICES ASSUME NEW m \in Matches \ vacuous, consensus'[m] = consensus[m]
             PROVE  Backed(m)'
  OBVIOUS
<1>1. Backed(m) /\ issued[m] \subseteq Keys
  BY DEF IInv, Typed, ConsensusIsBacked, Backed, Held
<1>2. \A k \in issued[m] : /\ k \in issued'[m]
                           /\ performed[k] # None => performed'[k] # None
                           /\ Held(k) => Held(k)'
  BY <1>1 DEF Lasting, Held
<1> QED
  BY <1>1, <1>2 DEF Backed

\* What is known of a push on its way.
LEMMA Running ==
  ASSUME IInv, NEW p \in Pushers, push[p].pc # "idle"
  PROVE  /\ push[p] \in Pushes /\ push[p].match \in Matches
         /\ push[p].key \in issued[push[p].match] /\ issued[push[p].match] \subseteq Keys
         /\ push[p].key \in Keys
         /\ push[p].batch \in Batches /\ Behind(push[p].batch)
         /\ push[p].seen \in ConsensusStates
<1>1. push[p] \in Pushes /\ Knows(p) /\ Behind(push[p].batch)
  BY DEF IInv, Typed, PushesKnow, BatchesAreWins
<1>2. push[p].match \in Matches /\ push[p].key \in issued[push[p].match]
  BY <1>1 DEF Knows
<1>3. issued[push[p].match] \subseteq Keys
  BY <1>2 DEF IInv, Typed
<1> QED
  BY <1>1, <1>2, <1>3 DEF Pushes

-----------------------------------------------------------------------------
(* Every step keeps the invariant.                                         *)

\* A match is decided, agreed with a new key or forfeited.
LEMMA DecideStep ==
  ASSUME IInv, NEW m \in Matches, EnterAgreed(m) \/ Forfeit(m)
  PROVE  IInv'
<1>1. /\ winner[m] = None /\ consensus[m] = "open"
      /\ UNCHANGED <<vacuous, entered, push, purse>>
  BY DEF EnterAgreed, Forfeit, MayAgree
<1>2. PICK w \in Teams : winner' = [winner EXCEPT ![m] = w]
  BY TeamsOfAssumption DEF EnterAgreed, Forfeit
<1>3. \/ /\ consensus' = [consensus EXCEPT ![m] = "agreed"]
         /\ key' = [key EXCEPT ![m] = NextKey]
         /\ issued' = [issued EXCEPT ![m] = issued[m] \cup {NextKey}]
         /\ NextKey \in Keys
         /\ unpushed' = unpushed \cup {m}
      \/ UNCHANGED <<consensus, key, issued, unpushed>>
  BY DEF EnterAgreed, Forfeit, IInv, Typed
<1> HIDE DEF NextKey
<1>4. Typed'
  <2>1. winner' \in [Matches -> Teams \cup {None}]
    BY <1>2 DEF IInv, Typed
  <2>2. /\ consensus' \in [Matches -> ConsensusStates] /\ key' \in [Matches -> Keys \cup {0}]
        /\ issued' \in [Matches -> SUBSET Keys] /\ unpushed' \subseteq Matches
    BY <1>3 DEF IInv, Typed, ConsensusStates, Transitions
  <2> QED
    BY <1>1, <2>1, <2>2 DEF IInv, Typed, purse
<1>5. KeysAreIssued'
  BY <1>3 DEF IInv, Typed, KeysAreIssued
<1>6. \A n \in Matches : issued[n] \subseteq issued'[n]
  BY <1>3 DEF IInv, Typed
<1>7. StoredIsPerformed'
  BY <1>1 DEF IInv, StoredIsPerformed, Held, purse
<1>8. PushesKnow'
  BY <1>1, <1>6 DEF IInv, PushesKnow, Knows, Held, purse
<1>9. \A t \in Teams : Wins(t) \in Nat /\ Wins(t)' \in Nat /\ Wins(t) <= Wins(t)'
  BY <1>1, <1>2, WinsGrow DEF IInv, Typed
<1>10. BatchesAreWins'
  <2> SUFFICES ASSUME NEW p \in Pushers, NEW t \in DOMAIN push[p].batch
               PROVE  push[p].batch[t] <= Wins(t)'
    BY <1>1 DEF BatchesAreWins, Behind
  <2>1. push[p].batch \in Batches /\ push[p].batch[t] <= Wins(t)
    BY DEF IInv, Typed, Pushes, BatchesAreWins, Behind
  <2>2. t \in Teams /\ push[p].batch[t] \in Nat
    BY <2>1, BatchesAreFunctions
  <2> QED
    BY <1>9, <2>1, <2>2
<1>11. ScoreNeverAhead'
  <2>1. \A t \in Teams : score[t] \in Nat /\ score[t] <= Wins(t)
    BY DEF IInv, Typed, ScoreNeverAhead
  <2>2. \A t \in Teams : score'[t] <= Wins(t)'
    BY <1>1, <1>9, <2>1 DEF purse
  <2> QED
    BY <2>2 DEF ScoreNeverAhead
<1>12. ConsensusIsBacked'
  BY <1>1, <1>3, <1>6 DEF IInv, Typed, ConsensusIsBacked, purse
<1> QED
  BY <1>4, <1>5, <1>7, <1>8, <1>10, <1>11, <1>12 DEF IInv

\* Steps that leave alone what the invariant speaks of.
LEMMA StutterStep ==
  ASSUME IInv, UNCHANGED <<consensus, winner, key, issued, vacuous, push, purse>>,
         unpushed' \subseteq Matches, entered' \subseteq Teams
  PROVE  IInv'
<1> USE DEF purse
<1>1. Typed'
  BY DEF IInv, Typed
<1>2. KeysAreIssued' /\ StoredIsPerformed' /\ PushesKnow'
  BY DEF IInv, KeysAreIssued, StoredIsPerformed, PushesKnow, Knows, Held
<1>3. BatchesAreWins' /\ ConsensusIsBacked' /\ ScoreNeverAhead'
  BY DEF IInv, BatchesAreWins, ConsensusIsBacked, ScoreNeverAhead, Behind, Wins
<1> QED
  BY <1>1, <1>2, <1>3 DEF IInv

\* What Purse keeps between two states, whether it answered or rested.
PurseKeeps ==
  /\ stored' \in [Keys -> Answers \cup {None}]
  /\ performed' \in [Keys -> Batches \cup {None}]
  /\ score' \in [Teams -> Nat]
  /\ StoredIsPerformed' /\ ScoreNeverAhead'
  /\ Lasting

\* A Purse that is not asked keeps everything.
LEMMA PurseRests ==
  ASSUME IInv, UNCHANGED <<winner, purse>>, \A m \in Matches : issued[m] \subseteq issued'[m]
  PROVE  PurseKeeps
BY DEF IInv, Typed, StoredIsPerformed, Held, ScoreNeverAhead, Wins, Lasting, PurseKeeps, purse

\* A push goes on and no consensus moves.
LEMMA PushGoesOn ==
  ASSUME IInv, NEW p \in Pushers, PurseKeeps,
         UNCHANGED <<consensus, key, issued, vacuous, entered>>, unpushed' \subseteq Matches,
         push' = [push EXCEPT ![p] = push'[p]], push'[p] \in Pushes,
         Knows(p)', Behind(push[p].batch)'
  PROVE  IInv'
<1>1. push' \in [Pushers -> Pushes] /\ \A q \in Pushers \ {p} : push'[q] = push[q]
  BY DEF IInv, Typed
<1>2. Typed'
  BY <1>1 DEF IInv, Typed, PurseKeeps, Lasting
<1>3. KeysAreIssued'
  BY DEF IInv, KeysAreIssued
<1>4. PushesKnow' /\ BatchesAreWins'
  BY <1>1, PushesLast DEF PurseKeeps
<1>5. ConsensusIsBacked'
  <2>1. \A m \in Matches \ vacuous : Backed(m)'
    BY BackingLasts DEF PurseKeeps
  <2> QED
    BY <2>1 DEF ConsensusIsBacked, Backed, Held
<1> QED
  BY <1>2, <1>3, <1>4, <1>5 DEF IInv, PurseKeeps

\* A push starts with the key of the consensus it read.
LEMMA StartStep ==
  ASSUME IInv, NEW p \in Pushers, NEW m \in Matches, NEW retry \in BOOLEAN, StartPush(p, m, retry)
  PROVE  IInv'
<1> DEFINE x == [Idle EXCEPT !.pc = "batch", !.match = m, !.retry = retry,
                             !.seen = consensus[m], !.key = key[m]]
<1>1. /\ push' = [push EXCEPT ![p] = x] /\ MayPush(consensus[m], retry)
      /\ unpushed' = IF retry THEN unpushed ELSE unpushed \ {m}
      /\ UNCHANGED <<consensus, winner, key, issued, vacuous, entered, purse>>
  BY DEF StartPush
<1>2. push'[p] = x
  BY <1>1 DEF IInv, Typed
<1>3. x \in Pushes /\ Behind(x.batch) /\ x.pc = "batch" /\ x.match = m /\ x.key = key[m]
  <2>1. consensus[m] \in ConsensusStates /\ key[m] \in Keys \cup {0}
    BY DEF IInv, Typed
  <2> QED
    BY <2>1, IdlePush DEF Idle, Pushes, PushSteps
<1> HIDE DEF x
<1>4. key[m] \in issued[m]
  BY <1>1 DEF IInv, KeysAreIssued, MayPush, Retryable, Pushable
<1>5. Knows(p)'
  BY <1>1, <1>2, <1>3, <1>4 DEF Knows
<1>6. Behind(push[p].batch)'
  BY <1>1, <1>2, <1>3 DEF Behind, Wins
<1>7. PurseKeeps
  BY <1>1, PurseRests
<1>8. unpushed' \subseteq Matches
  BY <1>1 DEF IInv, Typed
<1> QED
  BY <1>1, <1>2, <1>3, <1>5, <1>6, <1>7, <1>8, PushGoesOn

\* A push reads its batch, which counts the wins of now.
LEMMA ReadBatchStep ==
  ASSUME IInv, NEW p \in Pushers, ReadBatch(p)
  PROVE  IInv'
<1> DEFINE x == [push[p] EXCEPT !.pc = "first", !.batch = MatchScoreBatch(push[p].match)]
<1>1. push[p].pc = "batch" /\ UNCHANGED <<sideout, purse>> /\ push' = [push EXCEPT ![p] = x]
  BY DEF ReadBatch, IInv, Typed
<1>2. push[p] \in Pushes /\ push[p].match \in Matches /\ push[p].key \in issued[push[p].match]
  BY <1>1, Running
<1>3. MatchScoreBatch(push[p].match) \in Batches /\ Behind(MatchScoreBatch(push[p].match))
  BY <1>2, MatchBatch DEF IInv
<1>4. /\ x \in Pushes /\ Behind(x.batch) /\ x.pc = "first"
      /\ x.match = push[p].match /\ x.key = push[p].key
  BY <1>2, <1>3 DEF Pushes, PushSteps
<1> HIDE DEF x
<1>5. push'[p] = x
  BY <1>1 DEF IInv, Typed
<1>6. Knows(p)'
  BY <1>1, <1>2, <1>4, <1>5 DEF Knows, sideout
<1>7. Behind(push[p].batch)'
  BY <1>1, <1>4, <1>5 DEF Behind, Wins, sideout
<1>8. PurseKeeps /\ unpushed' \subseteq Matches
  BY <1>1, PurseRests DEF sideout, IInv, Typed
<1> QED
  BY <1>1, <1>4, <1>5, <1>6, <1>7, <1>8, PushGoesOn DEF sideout

\* A push loads its consensus again.
LEMMA ReloadStep ==
  ASSUME IInv, NEW p \in Pushers, Reload(p)
  PROVE  IInv'
<1> DEFINE x == [push[p] EXCEPT !.pc = "again", !.seen = consensus[push[p].match]]
<1>1. push[p].pc = "reload" /\ UNCHANGED <<sideout, purse>> /\ push' = [push EXCEPT ![p] = x]
  BY DEF Reload, IInv, Typed
<1>2. /\ push[p] \in Pushes /\ push[p].match \in Matches /\ push[p].key \in issued[push[p].match]
      /\ Behind(push[p].batch)
  BY <1>1, Running
<1>3. consensus[push[p].match] \in ConsensusStates
  BY <1>2 DEF IInv, Typed
<1>4. /\ x \in Pushes /\ Behind(x.batch) /\ x.pc = "again"
      /\ x.match = push[p].match /\ x.key = push[p].key
  BY <1>2, <1>3 DEF Pushes, PushSteps
<1> HIDE DEF x
<1>5. push'[p] = x
  BY <1>1 DEF IInv, Typed
<1>6. Knows(p)'
  BY <1>1, <1>2, <1>4, <1>5 DEF Knows, sideout
<1>7. Behind(push[p].batch)'
  BY <1>1, <1>4, <1>5 DEF Behind, Wins, sideout
<1>8. PurseKeeps /\ unpushed' \subseteq Matches
  BY <1>1, PurseRests DEF sideout, IInv, Typed
<1> QED
  BY <1>1, <1>4, <1>5, <1>6, <1>7, <1>8, PushGoesOn DEF sideout

\* A push that ends forgets everything.
LEMMA EndKnows ==
  ASSUME IInv, NEW p \in Pushers, End(p), winner' = winner
  PROVE  /\ push' = [push EXCEPT ![p] = push'[p]] /\ push'[p] \in Pushes
         /\ Knows(p)' /\ Behind(push[p].batch)'
<1>1. push'[p] = Idle /\ push' = [push EXCEPT ![p] = Idle]
  BY DEF End, IInv, Typed
<1>2. Idle.pc = "idle" /\ Idle \in Pushes /\ Behind(Idle.batch)
  BY IdlePush
<1>3. Behind(push[p].batch)'
  BY <1>1, <1>2 DEF Behind, Wins, Idle, EmptyBatch
<1> QED
  BY <1>1, <1>2, <1>3 DEF Knows

\* A push that is refused its move ends.
LEMMA MoveRefusedStep ==
  ASSUME IInv, NEW p \in Pushers, MoveRefused(p)
  PROVE  IInv'
<1>1. End(p) /\ UNCHANGED <<sideout, purse>>
  BY DEF MoveRefused
<1>2. PurseKeeps /\ unpushed' \subseteq Matches
  BY <1>1, PurseRests DEF sideout, IInv, Typed
<1> QED
  BY <1>1, <1>2, EndKnows, PushGoesOn DEF sideout

\* A request in flight is answered, or lost on its way back.
LEMMA AnswerKeeps ==
  ASSUME IInv, NEW p \in Pushers, push[p].pc # "idle", UNCHANGED sideout,
         NEW outcome \in Outcomes, NEW replayed \in BOOLEAN, NEW kept \in BOOLEAN,
         PurseAnswers(push[p].key, push[p].batch, outcome, replayed, kept)
  PROVE  /\ PurseKeeps
         /\ outcome = "held" => performed'[push[p].key] # None
         /\ outcome = "held" /\ replayed =>
              stored'[push[p].key] # None /\ stored'[push[p].key].outcome = "held"
<1>1. push[p].key \in Keys /\ push[p].batch \in Batches /\ Behind(push[p].batch)
  BY Running
<1>2. UNCHANGED <<winner, issued>>
  BY DEF sideout
<1> QED
  BY <1>1, <1>2, Answered DEF PurseKeeps, Lasting, Held

\* The next step of a push keeps its match, its key and its batch.
LEMMA PcMoves ==
  ASSUME IInv, NEW p \in Pushers, push[p].pc # "idle", UNCHANGED <<winner, issued>>,
         NEW pc \in PushSteps, push' = [push EXCEPT ![p].pc = pc],
         pc \in {"accepted", "second"} => performed'[push[p].key] # None,
         pc = "replayed" => stored'[push[p].key] # None /\ stored'[push[p].key].outcome = "held"
  PROVE  /\ push' = [push EXCEPT ![p] = push'[p]] /\ push'[p] \in Pushes
         /\ Knows(p)' /\ Behind(push[p].batch)'
<1> DEFINE x == [push[p] EXCEPT !.pc = pc]
<1>1. push' = [push EXCEPT ![p] = x] /\ push'[p] = x
  BY DEF IInv, Typed
<1>2. /\ push[p] \in Pushes /\ push[p].match \in Matches /\ push[p].key \in issued[push[p].match]
      /\ Behind(push[p].batch)
  BY Running
<1>3. x \in Pushes /\ x.pc = pc /\ x.match = push[p].match /\ x.key = push[p].key
      /\ x.batch = push[p].batch
  BY <1>2 DEF Pushes
<1> HIDE DEF x
<1>4. Knows(p)'
  BY <1>1, <1>2, <1>3 DEF Knows, Held
<1>5. Behind(push[p].batch)'
  BY <1>1, <1>2, <1>3 DEF Behind, Wins
<1> QED
  BY <1>1, <1>3, <1>4, <1>5

\* The first send is answered, and the push knows the batch was performed.
LEMMA FirstStep ==
  ASSUME IInv, NEW p \in Pushers, NEW kept \in BOOLEAN, First(p, kept)
  PROVE  IInv'
<1>1. push[p].pc \in {"first", "again"} /\ UNCHANGED sideout
  BY DEF First
<1>2. PICK outcome \in Outcomes, replayed \in BOOLEAN :
        /\ PurseAnswers(push[p].key, push[p].batch, outcome, replayed, kept)
        /\ \/ /\ outcome = "held"
              /\ \/ push' = [push EXCEPT ![p].pc = "accepted"]
                 \/ push' = [push EXCEPT ![p].pc = "second"]
           \/ push' = [push EXCEPT ![p].pc = "rotate"]
           \/ End(p)
  BY DEF First
<1>3. PurseKeeps /\ (outcome = "held" => performed'[push[p].key] # None)
  BY <1>1, <1>2, AnswerKeeps
<1>4. UNCHANGED <<winner, issued>> /\ unpushed' \subseteq Matches
  BY <1>1 DEF sideout, IInv, Typed
<1>5. /\ push' = [push EXCEPT ![p] = push'[p]] /\ push'[p] \in Pushes
      /\ Knows(p)' /\ Behind(push[p].batch)'
  <2>1. CASE outcome = "held" /\ push' = [push EXCEPT ![p].pc = "accepted"]
    BY <1>1, <1>3, <1>4, <2>1, PcMoves DEF PushSteps
  <2>2. CASE outcome = "held" /\ push' = [push EXCEPT ![p].pc = "second"]
    BY <1>1, <1>3, <1>4, <2>2, PcMoves DEF PushSteps
  <2>3. CASE push' = [push EXCEPT ![p].pc = "rotate"]
    BY <1>1, <1>4, <2>3, PcMoves DEF PushSteps
  <2>4. CASE End(p)
    BY <1>4, <2>4, EndKnows
  <2> QED
    BY <1>2, <2>1, <2>2, <2>3, <2>4
<1> QED
  BY <1>1, <1>3, <1>4, <1>5, PushGoesOn DEF sideout

\* The second send is answered, and a replay shows what is stored.
LEMMA SecondStep ==
  ASSUME IInv, NEW p \in Pushers, NEW kept \in BOOLEAN, Second(p, kept)
  PROVE  IInv'
<1>1. push[p].pc = "second" /\ UNCHANGED sideout
  BY DEF Second
<1>2. PICK outcome \in Outcomes, replayed \in BOOLEAN :
        /\ PurseAnswers(push[p].key, push[p].batch, outcome, replayed, kept)
        /\ \/ outcome = "held" /\ replayed /\ push' = [push EXCEPT ![p].pc = "replayed"]
           \/ End(p)
  BY DEF Second
<1>3. /\ PurseKeeps
      /\ outcome = "held" /\ replayed =>
           stored'[push[p].key] # None /\ stored'[push[p].key].outcome = "held"
  BY <1>1, <1>2, AnswerKeeps
<1>4. UNCHANGED <<winner, issued>> /\ unpushed' \subseteq Matches
  BY <1>1 DEF sideout, IInv, Typed
<1>5. /\ push' = [push EXCEPT ![p] = push'[p]] /\ push'[p] \in Pushes
      /\ Knows(p)' /\ Behind(push[p].batch)'
  <2>1. CASE outcome = "held" /\ replayed /\ push' = [push EXCEPT ![p].pc = "replayed"]
    BY <1>1, <1>3, <1>4, <2>1, PcMoves DEF PushSteps
  <2>2. CASE End(p)
    BY <1>4, <2>2, EndKnows
  <2> QED
    BY <1>2, <2>1, <2>2
<1> QED
  BY <1>1, <1>3, <1>4, <1>5, PushGoesOn DEF sideout

\* A request or its answer is lost, and the push ends.
LEMMA LostStep ==
  ASSUME IInv, NEW p \in Pushers, Lost(p)
  PROVE  IInv'
<1>1. push[p].pc # "idle" /\ UNCHANGED sideout /\ End(p)
  BY DEF Lost, AfterFailure, End
<1>2. PurseKeeps
  <2>1. CASE UNCHANGED purse
    BY <1>1, <2>1, PurseRests DEF sideout
  <2>2. CASE \E outcome \in Outcomes, replayed, kept \in BOOLEAN :
               PurseAnswers(push[p].key, push[p].batch, outcome, replayed, kept)
    BY <1>1, <2>2, AnswerKeeps
  <2> QED
    BY <2>1, <2>2 DEF Lost
<1>3. UNCHANGED <<winner, issued>> /\ unpushed' \subseteq Matches
  BY <1>1 DEF sideout, IInv, Typed
<1> QED
  BY <1>1, <1>2, <1>3, EndKnows, PushGoesOn DEF sideout

\* A key that was used for another batch is replaced.
LEMMA RotateKeyStep ==
  ASSUME IInv, NEW p \in Pushers, RotateKey(p)
  PROVE  IInv'
<1> DEFINE m == push[p].match
           x == [push[p] EXCEPT !.pc = "reload", !.key = NextKey]
<1>1. /\ push[p].pc = "rotate" /\ NextKey \in Keys
      /\ key' = [key EXCEPT ![m] = NextKey]
      /\ issued' = [issued EXCEPT ![m] = issued[m] \cup {NextKey}]
      /\ push' = [push EXCEPT ![p] = x]
      /\ UNCHANGED <<consensus, winner, unpushed, vacuous, entered, purse>>
  BY DEF RotateKey, IInv, Typed
<1>2. push[p] \in Pushes /\ m \in Matches /\ Behind(push[p].batch)
  BY <1>1, Running
<1> HIDE DEF NextKey
<1>3. /\ x \in Pushes /\ x.pc = "reload" /\ x.match = m /\ x.key = NextKey
      /\ x.batch = push[p].batch
  BY <1>1, <1>2 DEF Pushes, PushSteps
<1> HIDE DEF x, m
<1>4. /\ push'[p] = x /\ push' \in [Pushers -> Pushes]
      /\ \A q \in Pushers \ {p} : push'[q] = push[q]
  BY <1>1, <1>3 DEF IInv, Typed
<1>5. /\ NextKey \in issued'[m] /\ \A n \in Matches : issued[n] \subseteq issued'[n]
      /\ issued' \in [Matches -> SUBSET Keys] /\ key' \in [Matches -> Keys \cup {0}]
      /\ key'[m] = NextKey /\ \A n \in Matches \ {m} : key'[n] = key[n]
  BY <1>1, <1>2 DEF IInv, Typed
<1>6. PurseKeeps
  BY <1>1, <1>5, PurseRests
<1>7. Typed'
  BY <1>1, <1>4, <1>5 DEF IInv, Typed, purse
<1>8. KeysAreIssued'
  <2>1. \A n \in Matches \ {m} : issued'[n] = issued[n]
    BY <1>1 DEF IInv, Typed
  <2> QED
    BY <1>1, <1>5, <2>1 DEF IInv, KeysAreIssued
<1>9. Knows(p)'
  BY <1>2, <1>3, <1>4, <1>5 DEF Knows
<1>10. Behind(push[p].batch)'
  BY <1>1, <1>2, <1>3, <1>4 DEF Behind, Wins
<1>11. PushesKnow' /\ BatchesAreWins'
  BY <1>4, <1>6, <1>9, <1>10, PushesLast DEF PurseKeeps
<1>12. ConsensusIsBacked'
  <2>1. \A n \in Matches \ vacuous : Backed(n)'
    BY <1>1, <1>6, BackingLasts DEF PurseKeeps
  <2> QED
    BY <1>1, <2>1 DEF ConsensusIsBacked, Backed, Held
<1> QED
  BY <1>6, <1>7, <1>8, <1>11, <1>12 DEF IInv, PurseKeeps

\* A consensus moves to a state that is backed, or is confirmed for want of
\* entrants, and its push goes on or ends.
LEMMA ConsensusMoves ==
  ASSUME IInv, NEW p \in Pushers, push[p].pc # "idle",
         NEW to \in ConsensusStates \ {"open"},
         consensus' = [consensus EXCEPT ![push[p].match] = to],
         UNCHANGED <<winner, key, issued, unpushed, entered, purse>>,
         \/ vacuous' = vacuous \cup {push[p].match}
         \/ /\ vacuous' = vacuous
            /\ performed[push[p].key] # None
            /\ to = "confirmed" => Held(push[p].key),
         push' = [push EXCEPT ![p] = push'[p]], push'[p] \in Pushes,
         Knows(p)', Behind(push[p].batch)'
  PROVE  IInv'
<1>1. PICK m \in Matches : m = push[p].match /\ push[p].key \in issued[m]
  BY Running
<1>2. /\ consensus' = [consensus EXCEPT ![m] = to]
      /\ \/ vacuous' = vacuous \cup {m}
         \/ vacuous' = vacuous /\ performed[push[p].key] # None
            /\ (to = "confirmed" => Held(push[p].key))
  BY <1>1
<1>3. PurseKeeps
  BY PurseRests
<1>4. push' \in [Pushers -> Pushes] /\ \A q \in Pushers \ {p} : push'[q] = push[q]
  BY DEF IInv, Typed
<1>5. /\ consensus' \in [Matches -> ConsensusStates] /\ consensus'[m] = to
      /\ \A n \in Matches \ {m} : consensus'[n] = consensus[n]
  <2>1. consensus \in [Matches -> ConsensusStates]
    BY DEF IInv, Typed
  <2> QED
    BY <1>2, <2>1
<1>6. vacuous' \subseteq Matches
  BY <1>2 DEF IInv, Typed
<1>7. Typed'
  BY <1>4, <1>5, <1>6 DEF IInv, Typed, purse
<1>8. PushesKnow' /\ BatchesAreWins'
  BY <1>3, <1>4, PushesLast DEF PurseKeeps
<1>9. ConsensusIsBacked'
  <2>1. \A n \in Matches \ vacuous : n # m => Backed(n)'
    BY <1>3, <1>5, BackingLasts DEF PurseKeeps
  <2>2. m \in vacuous' \/ Backed(m)'
    BY <1>1, <1>2, <1>5 DEF Backed, Held, purse
  <2>3. \A n \in Matches \ vacuous' : Backed(n)'
    BY <1>2, <2>1, <2>2
  <2> QED
    BY <2>3 DEF ConsensusIsBacked, Backed, Held
<1>10. KeysAreIssued'
  BY <1>1, <1>5 DEF IInv, KeysAreIssued
<1> QED
  BY <1>3, <1>7, <1>8, <1>9, <1>10 DEF IInv, PurseKeeps

\* A match without entrants is confirmed with nothing behind it.
LEMMA NothingToPushStep ==
  ASSUME IInv, NEW p \in Pushers, NothingToPush(p)
  PROVE  IInv'
<1>1. /\ push[p].pc # "idle" /\ End(p)
      /\ consensus' = [consensus EXCEPT ![push[p].match] = "confirmed"]
      /\ vacuous' = vacuous \cup {push[p].match}
      /\ UNCHANGED <<winner, key, issued, unpushed, entered, purse>>
  BY DEF NothingToPush
<1>2. "confirmed" \in ConsensusStates \ {"open"}
  BY DEF ConsensusStates, Transitions
<1> QED
  BY <1>1, <1>2, EndKnows, ConsensusMoves

\* Purse accepted the batch, and has performed it.
LEMMA MovePushedStep ==
  ASSUME IInv, NEW p \in Pushers, MovePushed(p)
  PROVE  IInv'
<1> DEFINE x == [push[p] EXCEPT !.pc = "second", !.seen = "pushed_to_purse"]
<1>1. /\ push[p].pc = "accepted"
      /\ consensus' = [consensus EXCEPT ![push[p].match] = "pushed_to_purse"]
      /\ push' = [push EXCEPT ![p] = x]
      /\ UNCHANGED <<winner, key, issued, unpushed, vacuous, entered, purse>>
  BY DEF MovePushed, MoveConsensus, NewState, IInv, Typed
<1>2. performed[push[p].key] # None
  BY <1>1 DEF IInv, PushesKnow, Knows
<1>3. "pushed_to_purse" \in ConsensusStates \ {"open"}
  BY DEF ConsensusStates, Transitions
<1>4. /\ push[p] \in Pushes /\ push[p].match \in Matches /\ push[p].key \in issued[push[p].match]
      /\ Behind(push[p].batch)
  BY <1>1, Running
<1>5. /\ x \in Pushes /\ x.pc = "second" /\ x.match = push[p].match /\ x.key = push[p].key
      /\ x.batch = push[p].batch
  BY <1>3, <1>4 DEF Pushes, PushSteps
<1> HIDE DEF x
<1>6. push'[p] = x
  BY <1>1 DEF IInv, Typed
<1>7. Knows(p)'
  BY <1>1, <1>2, <1>4, <1>5, <1>6 DEF Knows, purse
<1>8. Behind(push[p].batch)'
  BY <1>1, <1>4, <1>5, <1>6 DEF Behind, Wins
<1> QED
  BY <1>1, <1>2, <1>3, <1>5, <1>6, <1>7, <1>8, ConsensusMoves

\* Purse replayed what it has stored.
LEMMA MoveConfirmedStep ==
  ASSUME IInv, NEW p \in Pushers, MoveConfirmed(p)
  PROVE  IInv'
<1>1. /\ push[p].pc = "replayed" /\ End(p)
      /\ consensus' = [consensus EXCEPT ![push[p].match] = "confirmed"]
      /\ UNCHANGED <<winner, key, issued, unpushed, vacuous, entered, purse>>
  BY DEF MoveConfirmed, MoveConsensus, NewState
<1>2. Held(push[p].key)
  BY <1>1 DEF IInv, PushesKnow, Knows
<1>3. performed[push[p].key] # None
  BY <1>1, <1>2, Running DEF IInv, StoredIsPerformed
<1>4. "confirmed" \in ConsensusStates \ {"open"}
  BY DEF ConsensusStates, Transitions
<1> QED
  BY <1>1, <1>2, <1>3, <1>4, EndKnows, ConsensusMoves

-----------------------------------------------------------------------------
(* Theorems.                                                               *)

\* The invariant holds in every state that can be reached.
THEOREM Invariance == Spec => []IInv
<1>1. Init => IInv
  <2> SUFFICES ASSUME Init PROVE IInv
    OBVIOUS
  <2> USE DEF Init
  <2>1. Typed
    BY IdlePush, KnownEntrantsAssumption DEF Typed, ConsensusStates
  <2>2. KeysAreIssued /\ StoredIsPerformed /\ ConsensusIsBacked
    BY DEF KeysAreIssued, StoredIsPerformed, Held, ConsensusIsBacked
  <2>3. PushesKnow
    BY IdlePush DEF PushesKnow, Knows
  <2>4. BatchesAreWins
    BY DEF BatchesAreWins, Behind, Idle, EmptyBatch
  <2>5. ScoreNeverAhead
    BY WinsAreFinite DEF ScoreNeverAhead
  <2> QED
    BY <2>1, <2>2, <2>3, <2>4, <2>5 DEF IInv
<1>2. IInv /\ [Next]_vars => IInv'
  <2> SUFFICES ASSUME IInv, [Next]_vars PROVE IInv'
    OBVIOUS
  <2>1. ASSUME NEW m \in Matches, EnterAgreed(m) \/ Forfeit(m) PROVE IInv'
    BY <2>1, DecideStep
  <2>2. ASSUME NEW p \in Pushers, NEW m \in Matches, NEW retry \in BOOLEAN, StartPush(p, m, retry)
        PROVE  IInv'
    BY <2>2, StartStep
  <2>3. ASSUME NEW t \in Teams, RecordEntries(t) PROVE IInv'
    BY <2>3, StutterStep DEF RecordEntries, IInv, Typed
  <2>4. ASSUME NEW p \in Pushers, Local(p) PROVE IInv'
    BY <2>4, ReadBatchStep, NothingToPushStep, RotateKeyStep, ReloadStep, MovePushedStep,
       MoveConfirmedStep, MoveRefusedStep DEF Local
  <2>5. ASSUME NEW p \in Pushers, Lost(p) PROVE IInv'
    BY <2>5, LostStep
  <2>6. ASSUME NEW p \in Pushers, NEW kept \in BOOLEAN, First(p, kept) \/ Second(p, kept)
        PROVE  IInv'
    BY <2>6, FirstStep, SecondStep
  <2>7. CASE UNCHANGED vars
    BY <2>7, StutterStep DEF vars, sideout, IInv, Typed
  <2>8. CASE Next
    <3>1. ASSUME NEW m \in Matches, Retry(m) PROVE IInv'
      BY <2>2, <3>1 DEF Retry
    <3>2. ASSUME NEW p \in Pushers, Step(p) PROVE IInv'
      BY <2>4, <2>5, <2>6, <3>2 DEF Step
    <3> QED
      BY <2>1, <2>2, <2>3, <2>8, <3>1, <3>2 DEF Next
  <2> QED
    BY <2>7, <2>8
<1> QED
  BY <1>1, <1>2, PTL DEF Spec

\* A consensus pushed to Purse is backed by a batch Purse performed, and a
\* confirmed one by an answer it would replay, through lost answers, rotated
\* keys and any number of overlapping pushes (pushMatchScores).
THEOREM BackingCorrect == Spec => []ConsensusIsBacked
<1>1. IInv => ConsensusIsBacked
  BY DEF IInv
<1> QED
  BY <1>1, Invariance, PTL

\* Purse never holds more wins for a team than Sideout does (matchScoreBatch
\* and the supersession of scores).
THEOREM ScoresAreWon == Spec => []ScoreNeverAhead
<1>1. IInv => ScoreNeverAhead
  BY DEF IInv
<1> QED
  BY <1>1, Invariance, PTL

-----------------------------------------------------------------------------
(* Scores that go back.                                                    *)

Covers(batch, scores) == \A t \in DOMAIN batch : scores[t] <= batch[t]

\* A push that was not overtaken has yet to be answered with a batch that is
\* not behind what Purse holds.
Carries(p) ==
  /\ push[p].pc \in {"first", "rotate", "reload", "again"}
  /\ Covers(push[p].batch, score)

FreshCarries == fresh \subseteq Pushers /\ \A p \in fresh : Carries(p)

\* If a score goes back, it is the first send of an overtaken push.
OvertakenOrAhead ==
  (\E t \in Teams : score'[t] < score[t]) =>
    \E p \in Pushers \ fresh : push[p].pc \in {"first", "again"} /\ push'[p] # push[p]

\* Scores at rest do not go back.
LEMMA RestingScores ==
  ASSUME IInv, score' = score
  PROVE  OvertakenOrAhead
<1>1. score \in [Teams -> Nat]
  BY DEF IInv, Typed
<1> QED
  BY <1>1 DEF OvertakenOrAhead

\* A batch that covers the scores takes none of them back.
LEMMA CoveringAdvances ==
  ASSUME IInv, NEW k \in Keys, NEW batch \in Batches, Covers(batch, score), Perform(k, batch)
  PROVE  \A t \in Teams : ~(score'[t] < score[t])
<1>1. score \in [Teams -> Nat] /\ DOMAIN batch \subseteq Teams /\ \A t \in DOMAIN batch : batch[t] \in Nat
  BY BatchesAreFunctions DEF IInv, Typed
<1>2. score' = [t \in Teams |-> IF t \in DOMAIN batch THEN batch[t] ELSE score[t]]
  BY DEF Perform
<1>3. \A t \in Teams : score'[t] = IF t \in DOMAIN batch THEN batch[t] ELSE score[t]
  BY <1>2
<1> QED
  BY <1>1, <1>3 DEF Covers

\* Purse is not asked, and the push that moves is fresh only with a batch
\* that covers the scores.
LEMMA QuietStep ==
  ASSUME IInv, FreshCarries, NEW p \in Pushers, score' = score,
         \A q \in Pushers \ {p} : push'[q] = push[q],
         fresh' \subseteq fresh \cup {p}, p \in fresh' => Carries(p)'
  PROVE  FreshCarries' /\ OvertakenOrAhead
<1>1. ASSUME NEW q \in fresh', q # p PROVE Carries(q)'
  BY <1>1 DEF FreshCarries, Carries, Covers
<1>2. fresh' \subseteq Pushers
  BY DEF FreshCarries
<1> QED
  BY <1>1, <1>2, RestingScores DEF FreshCarries

\* Around the pushes no score and no batch moves.
LEMMA OutsideThePush ==
  ASSUME IInv, FreshCarries, UNCHANGED <<push, score, fresh>>
  PROVE  FreshCarries' /\ OvertakenOrAhead
BY RestingScores DEF FreshCarries, Carries, Covers

\* A push reads the wins of now, and Purse never holds more (ReadBatch).
LEMMA ReadingCovers ==
  ASSUME IInv, FreshCarries, NEW p \in Pushers, ReadBatch(p)
  PROVE  FreshCarries' /\ OvertakenOrAhead
<1> DEFINE x == [push[p] EXCEPT !.pc = "first", !.batch = MatchScoreBatch(push[p].match)]
<1>1. /\ push[p].pc = "batch" /\ score' = score /\ fresh' = fresh \cup {p}
      /\ push' = [push EXCEPT ![p] = x]
  BY DEF ReadBatch, purse, IInv, Typed
<1>2. push[p] \in Pushes /\ push[p].match \in Matches
  BY <1>1, Running
<1>3. x.pc = "first" /\ x.batch = MatchScoreBatch(push[p].match)
  BY <1>2 DEF Pushes
<1> HIDE DEF x
<1>4. push'[p] = x /\ \A q \in Pushers \ {p} : push'[q] = push[q]
  BY <1>1 DEF IInv, Typed
<1>5. \A t \in TeamsOf[push[p].match] \cap entered : score[t] <= Wins(t)
  BY <1>2, TeamsOfAssumption DEF IInv, ScoreNeverAhead
<1>6. Covers(MatchScoreBatch(push[p].match), score)
  BY <1>5 DEF Covers, MatchScoreBatch
<1>7. Carries(p)'
  BY <1>1, <1>3, <1>4, <1>6 DEF Carries, Covers
<1> QED
  BY <1>1, <1>4, <1>7, QuietStep

\* The other steps that ask nothing of Purse: a fresh push keeps its batch
\* under another key, and no other push is fresh.
LEMMA LocalCarries ==
  ASSUME IInv, FreshCarries, NEW p \in Pushers, Local(p)
  PROVE  FreshCarries' /\ OvertakenOrAhead
<1>1. CASE ReadBatch(p)
  BY <1>1, ReadingCovers
<1>2. CASE NothingToPush(p) \/ MovePushed(p) \/ MoveConfirmed(p) \/ MoveRefused(p)
  <2>1. push[p].pc \in {"batch", "accepted", "replayed"} /\ UNCHANGED <<score, fresh>>
    BY <1>2 DEF NothingToPush, MovePushed, MoveConfirmed, MoveRefused, purse
  <2>2. \A q \in Pushers \ {p} : push'[q] = push[q]
    BY <1>2 DEF NothingToPush, MovePushed, MoveConfirmed, MoveRefused, End, IInv, Typed
  <2>3. p \notin fresh
    BY <2>1 DEF FreshCarries, Carries
  <2> QED
    BY <2>1, <2>2, <2>3, QuietStep
<1>3. ASSUME NEW x, push' = [push EXCEPT ![p] = x], x.batch = push[p].batch,
             x.pc \in {"reload", "again"}, UNCHANGED <<purse, fresh>>
      PROVE  FreshCarries' /\ OvertakenOrAhead
  <2>1. push'[p] = x /\ \A q \in Pushers \ {p} : push'[q] = push[q]
    BY <1>3 DEF IInv, Typed
  <2>2. p \in fresh' => Carries(p)'
    BY <1>3, <2>1 DEF FreshCarries, Carries, Covers, purse
  <2> QED
    BY <1>3, <2>1, <2>2, QuietStep DEF purse
<1>4. CASE RotateKey(p)
  <2> DEFINE x == [push[p] EXCEPT !.pc = "reload", !.key = NextKey]
  <2>1. push[p].pc # "idle" /\ push' = [push EXCEPT ![p] = x] /\ UNCHANGED <<purse, fresh>>
    BY <1>4 DEF RotateKey, IInv, Typed
  <2>2. x.batch = push[p].batch /\ x.pc = "reload"
    BY <2>1, Running DEF Pushes
  <2> HIDE DEF x
  <2> QED
    BY <1>3, <2>1, <2>2
<1>5. CASE Reload(p)
  <2> DEFINE x == [push[p] EXCEPT !.pc = "again", !.seen = consensus[push[p].match]]
  <2>1. push[p].pc # "idle" /\ push' = [push EXCEPT ![p] = x] /\ UNCHANGED <<purse, fresh>>
    BY <1>5 DEF Reload, IInv, Typed
  <2>2. x.batch = push[p].batch /\ x.pc = "again"
    BY <2>1, Running DEF Pushes
  <2> HIDE DEF x
  <2> QED
    BY <1>3, <2>1, <2>2
<1> QED
  BY <1>1, <1>2, <1>4, <1>5 DEF Local

\* A send, answered or not.  A batch that is performed covers the scores or
\* was overtaken, and it is no second send: that one's batch was performed.
LEMMA SendCarries ==
  ASSUME IInv, FreshCarries, NEW p \in Pushers, push[p].pc \in {"first", "again", "second"},
         \/ UNCHANGED purse
         \/ \E outcome, replayed, kept :
              PurseAnswers(push[p].key, push[p].batch, outcome, replayed, kept),
         NEW x, push' = [push EXCEPT ![p] = x], x.pc # push[p].pc,
         x.pc = "rotate" => x.batch = push[p].batch,
         Overtakes(p)
  PROVE  FreshCarries' /\ OvertakenOrAhead
<1>1. push[p].key \in Keys /\ push[p].batch \in Batches /\ push[p].batch # None
  BY Running, NoneIsNone
<1>2. push'[p] = x /\ push'[p] # push[p] /\ \A q \in Pushers \ {p} : push'[q] = push[q]
  BY DEF IInv, Typed
<1>3. \/ UNCHANGED <<performed, score>>
      \/ performed[push[p].key] = None /\ Perform(push[p].key, push[p].batch)
  BY DEF PurseAnswers, purse
<1>4. CASE performed' = performed
  <2>1. score' = score
    BY <1>1, <1>3, <1>4 DEF Perform, IInv, Typed
  <2>2. fresh' = {q \in fresh : q # p \/ push'[q].pc = "rotate"}
    BY <1>4 DEF Overtakes
  <2>3. p \in fresh' => Carries(p)'
    BY <1>2, <2>1, <2>2 DEF FreshCarries, Carries, Covers
  <2> QED
    BY <1>2, <2>1, <2>2, <2>3, QuietStep
<1>5. CASE performed' # performed
  <2>1. performed[push[p].key] = None /\ Perform(push[p].key, push[p].batch)
    BY <1>3, <1>5
  <2>2. fresh' = {}
    BY <1>5 DEF Overtakes
  <2>3. push[p].pc \in {"first", "again"}
    BY <2>1 DEF IInv, PushesKnow, Knows
  <2>4. p \in fresh => \A t \in Teams : ~(score'[t] < score[t])
    BY <1>1, <2>1, CoveringAdvances DEF FreshCarries, Carries
  <2>5. OvertakenOrAhead
    BY <1>2, <2>3, <2>4 DEF OvertakenOrAhead
  <2> QED
    BY <2>2, <2>5 DEF FreshCarries
<1> QED
  BY <1>4, <1>5

\* The sends of a push, each answered or lost on either way.
LEMMA SendStepCarries ==
  ASSUME IInv, FreshCarries, NEW p \in Pushers,
         Lost(p) \/ \E kept \in BOOLEAN : First(p, kept) \/ Second(p, kept)
  PROVE  FreshCarries' /\ OvertakenOrAhead
<1>1. /\ push[p].pc \in {"first", "again", "second"} /\ Overtakes(p)
      /\ \/ UNCHANGED purse
         \/ \E outcome, replayed, kept :
              PurseAnswers(push[p].key, push[p].batch, outcome, replayed, kept)
  BY DEF Lost, First, Second
<1>2. Idle.pc = "idle"
  BY DEF Idle
<1>3. CASE End(p)
  BY <1>1, <1>2, <1>3, SendCarries DEF End
<1>4. ASSUME NEW pc \in {"accepted", "second", "rotate", "replayed"}, pc # push[p].pc,
             push' = [push EXCEPT ![p].pc = pc]
      PROVE  FreshCarries' /\ OvertakenOrAhead
  <2> DEFINE x == [push[p] EXCEPT !.pc = pc]
  <2>1. push[p] \in Pushes
    BY <1>1, Running
  <2>2. x.pc = pc /\ x.batch = push[p].batch
    BY <2>1 DEF Pushes
  <2>3. push' = [push EXCEPT ![p] = x]
    BY <1>4 DEF IInv, Typed
  <2> HIDE DEF x
  <2> QED
    BY <1>1, <1>4, <2>2, <2>3, SendCarries
<1>5. CASE Lost(p)
  BY <1>3, <1>5 DEF Lost, AfterFailure, End
<1>6. CASE \E kept \in BOOLEAN : First(p, kept)
  <2>1. /\ push[p].pc \in {"first", "again"}
        /\ \/ push' = [push EXCEPT ![p].pc = "accepted"]
           \/ push' = [push EXCEPT ![p].pc = "second"]
           \/ push' = [push EXCEPT ![p].pc = "rotate"]
           \/ End(p)
    BY <1>6 DEF First
  <2> QED
    BY <1>3, <1>4, <2>1
<1>7. CASE \E kept \in BOOLEAN : Second(p, kept)
  <2>1. push[p].pc = "second" /\ (push' = [push EXCEPT ![p].pc = "replayed"] \/ End(p))
    BY <1>7 DEF Second
  <2> QED
    BY <1>3, <1>4, <2>1
<1> QED
  BY <1>5, <1>6, <1>7

\* No step takes a score back but the first send of an overtaken push, and a
\* push that was not overtaken carries a batch that covers the scores.
LEMMA FreshStep ==
  ASSUME IInv, FreshCarries, [Next]_vars
  PROVE  FreshCarries' /\ OvertakenOrAhead
<1>1. ASSUME NEW p \in Pushers, NEW m \in Matches, NEW retry \in BOOLEAN, StartPush(p, m, retry)
      PROVE  FreshCarries' /\ OvertakenOrAhead
  <2>1. push[p].pc = "idle" /\ UNCHANGED <<score, fresh>>
    BY <1>1 DEF StartPush, purse
  <2>2. \A q \in Pushers \ {p} : push'[q] = push[q]
    BY <1>1 DEF StartPush, IInv, Typed
  <2>3. p \notin fresh
    BY <2>1 DEF FreshCarries, Carries
  <2> QED
    BY <2>1, <2>2, <2>3, QuietStep
<1>2. ASSUME NEW m \in Matches, EnterAgreed(m) \/ Forfeit(m)
      PROVE  FreshCarries' /\ OvertakenOrAhead
  BY <1>2, OutsideThePush DEF EnterAgreed, Forfeit, purse
<1>3. ASSUME NEW t \in Teams, RecordEntries(t)
      PROVE  FreshCarries' /\ OvertakenOrAhead
  BY <1>3, OutsideThePush DEF RecordEntries, purse
<1>4. ASSUME NEW p \in Pushers, Step(p)
      PROVE  FreshCarries' /\ OvertakenOrAhead
  BY <1>4, LocalCarries, SendStepCarries DEF Step
<1>5. CASE UNCHANGED vars
  BY <1>5, OutsideThePush DEF vars, purse
<1>6. CASE Next
  BY <1>1, <1>2, <1>3, <1>4, <1>6 DEF Next, Retry
<1> QED
  BY <1>5, <1>6

\* A push that was not overtaken is typed and carries what covers the scores.
THEOREM FreshInvariance == Spec => []FreshCarries
<1>1. Init => FreshCarries
  BY DEF Init, FreshCarries
<1>2. IInv /\ FreshCarries /\ [Next]_vars => FreshCarries'
  BY FreshStep
<1> QED
  BY <1>1, <1>2, Invariance, PTL DEF Spec

\* However the automatic pushes and the retries of any number of matches
\* overlap, no score in Purse goes back but by the first send of a push that
\* another one overtook after it read its batch (pushMatchScores, sendBatch,
\* and the supersession of scores).
THEOREM AdvanceCorrect == Spec => OnlyTheOvertakenGoBack
<1>1. IInv /\ FreshCarries /\ [Next]_vars => [OvertakenOrAhead]_vars
  BY FreshStep
<1>2. Spec => [][OvertakenOrAhead]_vars
  BY <1>1, FreshInvariance, Invariance, PTL DEF Spec
<1> QED
  BY <1>2 DEF OnlyTheOvertakenGoBack, OvertakenOrAhead

\* Every variable has its type.
THEOREM TypeCorrect == Spec => []TypeOK
<1>1. IInv /\ FreshCarries => TypeOK
  <2> SUFFICES ASSUME IInv, FreshCarries PROVE TypeOK
    OBVIOUS
  <2>1. ASSUME NEW b \in Batches PROVE Batch(b)
    BY BatchesAreFunctions DEF Batch
  <2>2. ASSUME NEW k \in Keys, stored[k] # None PROVE Batch(stored[k].batch)
    BY <2>1, <2>2 DEF IInv, Typed, Answers
  <2>3. ASSUME NEW k \in Keys, performed[k] # None PROVE Batch(performed[k])
    BY <2>1, <2>3 DEF IInv, Typed
  <2> QED
    BY <2>2, <2>3 DEF TypeOK, IInv, Typed, ConsensusStates, FreshCarries
<1> QED
  BY <1>1, Invariance, FreshInvariance, PTL

=============================================================================
