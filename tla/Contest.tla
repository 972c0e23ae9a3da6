------------------------------ MODULE Contest ------------------------------
(***************************************************************************)
(* Purse contests: the lifecycle, the entries that hold stakes in escrow,  *)
(* the scores, and the ways the escrow is emptied (apps/purse/src/contests *)
(* over apps/purse/src/ledger).                                            *)
(*                                                                         *)
(* Every service runs in one database transaction that starts by locking   *)
(* the contest row and keeps the lock to its end (load.ts, lockContest),   *)
(* so each is one atomic action.  What happens outside the lock is kept    *)
(* apart: a request reads the clock when it arrives (Arrive) and commits   *)
(* later, an operator looks at a preview (Preview) and closes with it      *)
(* later.                                                                  *)
(***************************************************************************)
EXTENDS Settle

CONSTANTS
  Contests,       \* contest ids
  Users,          \* user ids, natural numbers: ties are ordered by userId
  Keys,           \* idempotency keys of enter and withdraw requests; bounds how many commit
  Definitions,    \* what a contest may be created with
  Reports,        \* what a score batch may say of one user: [score, finished]
  StartBalance    \* points each wallet is issued before the contests start

ASSUME UsersAssumption == Users \subseteq Nat /\ IsFiniteSet(Users)

ASSUME DefinitionsAssumption ==
  \A d \in Definitions :
    /\ d.amount \in Nat \ {0}
    /\ d.max \in Nat \/ d.max = None
    /\ d.policy \in {"auto", "operator_close"}
    /\ d.rake \in Nat /\ d.rake <= 5000
    /\ Structure(d.structure) /\ d.tieBreak \in TieBreaks

\* A score is a finite number; scores are compared and never added, so whole
\* numbers stand for them (validateSubmissions).
ASSUME ReportsAssumption ==
  \A r \in Reports : r.score \in Int \cup {None} /\ r.finished \in BOOLEAN

ASSUME BalanceAssumption == StartBalance \in Nat

ASSUME NoneAssumption ==
  /\ None \notin Keys /\ None \notin Reports /\ None \notin Definitions
  /\ \A k \in Keys : None # <<"contest-entry", k>>

VARIABLES
  state,          \* [c] lifecycle state, "absent" before it is created
  definition,     \* [c] amount, maximum, policy, rake, structure, tie-break
  lockTimePassed, \* [c] the wall clock has passed locks_at
  participant,    \* [c][u] "none", "entered" or "withdrawn"
  stake,          \* [c][u] entry_journal_entry_id: the escrow entry of the current stake
  score,          \* [c][u] the counting score, None before the first
  results,        \* [c] the recorded payouts, None before settlement
  quoted,         \* [c] the payouts of the last preview an operator fetched
  wallet,         \* [u] balance of the user's wallet
  escrow,         \* [c] balance of the contest's escrow account
  fees,           \* balance of the platform fee account
  journal,        \* the journal lines facing an escrow account
  recorded,       \* the keys with an idempotency row
  reading         \* [k] the contests whose lock time had passed when the request under k arrived

vars == <<state, definition, lockTimePassed, participant, stake, score, results,
          quoted, wallet, escrow, fees, journal, recorded, reading>>

money == <<wallet, escrow, fees, journal>>
requests == <<recorded, reading>>

-----------------------------------------------------------------------------
(* The lifecycle table and who may drive it (states.ts).                   *)

Transitions ==
  [absent              |-> {},
   draft               |-> {"open", "cancelled"},
   open                |-> {"locked", "cancelled", "voided"},
   locked              |-> {"in_progress", "cancelled", "voided"},
   in_progress         |-> {"awaiting_settlement", "cancelled", "voided"},
   awaiting_settlement |-> {"settling", "cancelled", "voided"},
   settling            |-> {"settled"},
   settled             |-> {},
   cancelled           |-> {},
   voided              |-> {}]

ContestStates ==
  {"absent", "draft", "open", "locked", "in_progress", "awaiting_settlement",
   "settling", "settled", "cancelled", "voided"}

Terminal == {"settled", "cancelled", "voided"}

PlainTargets == {"open", "locked", "in_progress", "awaiting_settlement", "cancelled"}

Actors == {"user", "system", "operator"}

AssertTransition(c, to, actor) ==
  /\ actor # "user"
  /\ to \in Transitions[state[c]]
  /\ state[c] = "awaiting_settlement" /\ definition[c].policy = "operator_close"
       => actor = "operator"

-----------------------------------------------------------------------------
(* Ledger lines.  An entry is named by its idempotency key.                *)

Kinds == {"escrow", "refund", "fee", "settle", "void"}

Line(entry, kind, c, u, amount, reverses) ==
  [entry |-> entry, kind |-> kind, contest |-> c, user |-> u,
   amount |-> amount, reverses |-> reverses]

EntryOf(k)    == <<"contest-entry", k>>
WithdrawOf(k) == <<"contest-withdraw", k>>
RakeOf(c)     == <<"rake", c>>
SettleOf(c)   == <<"settle", c>>
VoidOf(c, u)  == <<"void", c, u>>

LineOf(entry) == CHOOSE line \in journal : line.entry = entry

\* A voidable entry: an escrow entry of this contest nothing has reversed yet.
Reversible(entry, c) ==
  /\ \E line \in journal : line.entry = entry /\ line.kind = "escrow" /\ line.contest = c
  /\ \A line \in journal : line.reverses # entry

-----------------------------------------------------------------------------
(* Reads under the contest lock (load.ts, scores.ts).                      *)

\* Participants whose stake is in escrow.
Active(c) == {u \in Users : participant[c][u] = "entered"}

\* Fault: a no-show, which has no score, is never complete.
AllExpectedResultsScored(c, scores) ==
  \A u \in Active(c) : scores[u] # None /\ scores[u].finished /\ scores[u].score # None

AllExpectedResultsPresent(c, scores) ==
  \A u \in Active(c) : scores[u] # None /\ scores[u].finished

\* Entrants as the engine sees them.  Seeds and submission instants only
\* matter to the tie-break rules, which MCSettle covers.
ToEntries(c, scores) ==
  [u \in Active(c) |->
     [score |-> IF scores[u] = None THEN None ELSE scores[u].score,
      seed |-> None, submittedAt |-> None]]

RakeAmount(c) == ApplyBps(escrow[c], definition[c].rake)

\* Fault: the prizes are computed over the gross pool.
GrossPool(c) == escrow[c]

NetPool(c) == escrow[c] - RakeAmount(c)

\* The computation the preview and the close share.  Its payouts are also its
\* hash: the canonical form keeps placements, users and amounts and nothing else.
ComputeSettlement(c, scores) ==
  SettlePool(NetPool(c), ToEntries(c, scores), definition[c].structure, definition[c].tieBreak)

-----------------------------------------------------------------------------
(* Requests and idempotency keys (idempotency.ts).                         *)

\* A request under k arrives; the service reads the clock before it waits for
\* any lock.  A retry arrives the same way, whether or not k was recorded.
\* Arrivals are bounded to the times when one could still commit.
Arrive(k) ==
  /\ \E c \in Contests : state[c] = "open"
  /\ reading[k] = None
  /\ reading' = [reading EXCEPT ![k] = {c \in Contests : lockTimePassed[c]}]
  /\ UNCHANGED <<state, definition, lockTimePassed, participant, stake, score,
                 results, quoted, money, recorded>>

\* The request ends and nothing of it stays: a refusal, a rollback, or the
\* replay of a recorded key.
EndWithoutEffect(k) ==
  /\ reading[k] # None
  /\ reading' = [reading EXCEPT ![k] = None]
  /\ UNCHANGED <<state, definition, lockTimePassed, participant, stake, score,
                 results, quoted, money, recorded>>

Fresh(k) == k \notin recorded

\* The key row commits with the effects it describes.
Record(k) ==
  /\ recorded' = recorded \cup {k}
  /\ reading' = [reading EXCEPT ![k] = None]

-----------------------------------------------------------------------------
(* Creating and editing.                                                   *)

CreateContest(c, d) ==
  /\ state[c] = "absent"
  /\ state' = [state EXCEPT ![c] = "draft"]
  /\ definition' = [definition EXCEPT ![c] = d]
  /\ UNCHANGED <<lockTimePassed, participant, stake, score, results, quoted, money, requests>>

UpdateContest(c, d) ==
  /\ state[c] = "draft"
  /\ definition' = [definition EXCEPT ![c] = d]
  /\ UNCHANGED <<state, lockTimePassed, participant, stake, score, results, quoted, money, requests>>

\* locks_at passes; nothing in the service reacts to it.  It matters only
\* while the contest is open, and is modelled only then.
LockTimePasses(c) ==
  /\ state[c] = "open"
  /\ ~lockTimePassed[c]
  /\ lockTimePassed' = [lockTimePassed EXCEPT ![c] = TRUE]
  /\ UNCHANGED <<state, definition, participant, stake, score, results, quoted, money, requests>>

-----------------------------------------------------------------------------
(* Entering and withdrawing (entries.ts).                                  *)

\* Fault: an existing entry of any state may be overwritten.
MayEnterAgain(c, u) == TRUE

MayEnter(c, u) == participant[c][u] \in {"none", "withdrawn"}

\* Fault: the maximum is compared off by one.
NotFullOffByOne(c) == definition[c].max # None => Cardinality(Active(c)) <= definition[c].max

NotFull(c) == definition[c].max # None => Cardinality(Active(c)) < definition[c].max

\* Fault: the wallet is not checked.
NoOverdraftCheck(balance, amount) == TRUE

Covers(balance, amount) == balance >= amount

Enter(k, c, u) ==
  /\ Fresh(k)
  /\ reading[k] # None
  /\ state[c] = "open"
  /\ c \notin reading[k]
  /\ MayEnter(c, u)
  /\ NotFull(c)
  /\ Covers(wallet[u], definition[c].amount)
  /\ wallet' = [wallet EXCEPT ![u] = @ - definition[c].amount]
  /\ escrow' = [escrow EXCEPT ![c] = @ + definition[c].amount]
  /\ journal' = journal \cup
       {Line(EntryOf(k), "escrow", c, u, definition[c].amount, None)}
  /\ participant' = [participant EXCEPT ![c][u] = "entered"]
  /\ stake' = [stake EXCEPT ![c][u] = EntryOf(k)]
  /\ Record(k)
  /\ UNCHANGED <<state, definition, lockTimePassed, score, results, quoted, fees>>

\* Fault: a withdrawn entry may be withdrawn again.
MayWithdrawTwice(c, u) == participant[c][u] # "none"

MayWithdraw(c, u) == participant[c][u] = "entered"

Withdraw(k, c, u) ==
  /\ Fresh(k)
  /\ reading[k] # None
  /\ state[c] = "open"
  /\ c \notin reading[k]
  /\ MayWithdraw(c, u)
  /\ Covers(escrow[c], definition[c].amount)
  /\ wallet' = [wallet EXCEPT ![u] = @ + definition[c].amount]
  /\ escrow' = [escrow EXCEPT ![c] = @ - definition[c].amount]
  /\ journal' = journal \cup
       {Line(WithdrawOf(k), "refund", c, u, definition[c].amount, None)}
  /\ participant' = [participant EXCEPT ![c][u] = "withdrawn"]
  /\ Record(k)
  /\ UNCHANGED <<state, definition, lockTimePassed, stake, score, results, quoted, fees>>

-----------------------------------------------------------------------------
(* Transitions that move no money (lifecycle.ts, transition.ts).           *)

MayCancel(c) == Active(c) = {} /\ escrow[c] = 0

TransitionContest(c, to, actor) ==
  /\ to \in PlainTargets
  /\ AssertTransition(c, to, actor)
  /\ to = "cancelled" => MayCancel(c)
  /\ state' = [state EXCEPT ![c] = to]
  /\ UNCHANGED <<definition, lockTimePassed, participant, stake, score, results,
                 quoted, money, requests>>

-----------------------------------------------------------------------------
(* Settling (settlement.ts, executeSettlement).                            *)

\* Fault: payouts of one unit are left out of the settle entry.
PaidAboveOne(payouts) == {u \in DOMAIN payouts : payouts[u].payout > 1}

\* Only positive payouts become lines of the settle entry.
PaidUsers(payouts) == {u \in DOMAIN payouts : payouts[u].payout > 0}

\* A line's amount is a positive whole number (ledger/validate.ts).
ValidLines(payouts) == \A u \in PaidUsers(payouts) : payouts[u].payout \in Nat

TotalPayout(payouts) == SumFunction([u \in DOMAIN payouts |-> payouts[u].payout])

\* From awaiting_settlement through settling to settled in one transaction,
\* over the given counting scores.
ExecuteSettlement(c, scores) ==
  LET payouts == ComputeSettlement(c, scores)
      rake    == RakeAmount(c)
  IN  /\ "settled" \in Transitions["settling"]
      /\ HasRecipients(NetPool(c), ToEntries(c, scores))
      /\ ValidLines(payouts)
      /\ escrow[c] - rake - TotalPayout(payouts) = 0
      /\ Cardinality(DOMAIN payouts) = Cardinality(Active(c))
      /\ escrow' = [escrow EXCEPT ![c] = 0]
      /\ fees' = fees + rake
      /\ wallet' = [u \in Users |->
                      IF u \in PaidUsers(payouts) THEN wallet[u] + payouts[u].payout ELSE wallet[u]]
      /\ journal' = journal
           \cup {Line(RakeOf(c), "fee", c, None, rake, None) : r \in {rake} \ {0}}
           \cup {Line(SettleOf(c), "settle", c, u, payouts[u].payout, None) : u \in PaidUsers(payouts)}
      /\ results' = [results EXCEPT ![c] = payouts]
      /\ state' = [state EXCEPT ![c] = "settled"]

\* A preview is refused nowhere; only those taken while scores are accepted
\* are modelled, and that of a settled contest is the record of what was paid.
Preview(c) ==
  /\ state[c] \in {"in_progress", "awaiting_settlement"}
  /\ quoted' = [quoted EXCEPT ![c] = ComputeSettlement(c, score[c])]
  /\ UNCHANGED <<state, definition, lockTimePassed, participant, stake, score,
                 results, money, requests>>

\* Fault: the presented hash is not compared.
AnyHash(c, hash) == TRUE

HashMatches(c, hash) == hash = ComputeSettlement(c, score[c])

CloseContest(c, actor) ==
  /\ quoted[c] # None
  /\ AssertTransition(c, "settling", actor)
  /\ HashMatches(c, quoted[c])
  /\ ExecuteSettlement(c, score[c])
  /\ UNCHANGED <<definition, lockTimePassed, participant, stake, score, quoted, requests>>

-----------------------------------------------------------------------------
(* Scores (scores.ts).                                                     *)

Batches == UNION {[S -> Reports] : S \in SUBSET Users \ {{}}}

AcceptingScores == {"in_progress", "awaiting_settlement"}

\* A batch is refused whole when any user in it has a finished attempt.
MayScore(c, batch) ==
  \A u \in DOMAIN batch :
    /\ participant[c][u] = "entered"
    /\ score[c][u] # None => ~score[c][u].finished

\* The counting scores once the batch has superseded the previous ones.
Superseded(c, batch) ==
  [u \in Users |-> IF u \in DOMAIN batch THEN batch[u] ELSE score[c][u]]

\* The batch, and under the same lock the advance it causes: results complete
\* move an in_progress contest on, and an auto contest settles.
SubmitScores(c, batch) ==
  /\ state[c] \in AcceptingScores
  /\ MayScore(c, batch)
  /\ score' = [score EXCEPT ![c] = Superseded(c, batch)]
  /\ \/ /\ ~AllExpectedResultsPresent(c, Superseded(c, batch))
        /\ UNCHANGED <<state, results, money>>
     \/ /\ AllExpectedResultsPresent(c, Superseded(c, batch))
        /\ definition[c].policy = "operator_close"
        /\ state' = [state EXCEPT ![c] = "awaiting_settlement"]
        /\ UNCHANGED <<results, money>>
     \/ /\ AllExpectedResultsPresent(c, Superseded(c, batch))
        /\ definition[c].policy = "auto"
        /\ ExecuteSettlement(c, Superseded(c, batch))
  /\ UNCHANGED <<definition, lockTimePassed, participant, stake, quoted, requests>>

-----------------------------------------------------------------------------
(* Voiding (settlement.ts, voidContest).                                   *)

\* Each active participant's escrow entry is reversed, in one transaction
\* whose last step requires the escrow to be empty.  The reversal credits the
\* wallet the entry debited, which is the participant's own (StakesAreLinked).
VoidContest(c, actor) ==
  LET stakeOf == [u \in Active(c) |-> LineOf(stake[c][u])]
  IN  /\ AssertTransition(c, "voided", actor)
      /\ \A u \in Active(c) : Reversible(stake[c][u], c)
      /\ escrow[c] - SumFunction([u \in Active(c) |-> stakeOf[u].amount]) = 0
      /\ escrow' = [escrow EXCEPT ![c] = 0]
      /\ wallet' = [u \in Users |->
                      IF u \in Active(c) THEN wallet[u] + stakeOf[u].amount ELSE wallet[u]]
      /\ journal' = journal \cup
           {Line(VoidOf(c, u), "void", c, u, stakeOf[u].amount, stake[c][u]) :
              u \in Active(c)}
      /\ state' = [state EXCEPT ![c] = "voided"]
      /\ UNCHANGED <<definition, lockTimePassed, participant, stake, score, results,
                     quoted, fees, requests>>

-----------------------------------------------------------------------------
Init ==
  /\ state = [c \in Contests |-> "absent"]
  /\ definition = [c \in Contests |-> None]
  /\ lockTimePassed = [c \in Contests |-> FALSE]
  /\ participant = [c \in Contests |-> [u \in Users |-> "none"]]
  /\ stake = [c \in Contests |-> [u \in Users |-> None]]
  /\ score = [c \in Contests |-> [u \in Users |-> None]]
  /\ results = [c \in Contests |-> None]
  /\ quoted = [c \in Contests |-> None]
  /\ wallet = [u \in Users |-> StartBalance]
  /\ escrow = [c \in Contests |-> 0]
  /\ fees = 0
  /\ journal = {}
  /\ recorded = {}
  /\ reading = [k \in Keys |-> None]

Next ==
  \/ \E k \in Keys : Arrive(k) \/ EndWithoutEffect(k)
  \/ \E c \in Contests, d \in Definitions : CreateContest(c, d) \/ UpdateContest(c, d)
  \/ \E c \in Contests : LockTimePasses(c) \/ Preview(c)
  \/ \E k \in Keys, c \in Contests, u \in Users : Enter(k, c, u) \/ Withdraw(k, c, u)
  \/ \E c \in Contests, to \in ContestStates, actor \in Actors : TransitionContest(c, to, actor)
  \/ \E c \in Contests, batch \in Batches : SubmitScores(c, batch)
  \/ \E c \in Contests, actor \in Actors : CloseContest(c, actor) \/ VoidContest(c, actor)

Spec == Init /\ [][Next]_vars

-----------------------------------------------------------------------------
(* Properties.                                                             *)

\* Balances of wallets, escrows and the fee account are whole and never
\* negative (ledger I3 and NON_NEGATIVE_KINDS), and every other variable has
\* its type.
TypeOK ==
  /\ state \in [Contests -> ContestStates \ {"settling"}]
  /\ definition \in [Contests -> Definitions \cup {None}]
  /\ lockTimePassed \in [Contests -> BOOLEAN]
  /\ participant \in [Contests -> [Users -> {"none", "entered", "withdrawn"}]]
  /\ stake \in [Contests -> [Users -> {EntryOf(k) : k \in Keys} \cup {None}]]
  /\ score \in [Contests -> [Users -> Reports \cup {None}]]
  /\ DOMAIN results = Contests
  /\ wallet \in [Users -> Nat]
  /\ escrow \in [Contests -> Nat]
  /\ fees \in Nat
  /\ recorded \subseteq Keys
  /\ reading \in [Keys -> (SUBSET Contests) \cup {None}]

\* The escrow of a contest holds exactly one entry amount per active
\* participant until the contest ends, and nothing once it has ended
\* (reconcile.ts I4, and what makes I5 possible): through withdrawals,
\* re-entries, voids, cancellations and settlements with a rake.
EscrowHoldsTheStakes ==
  \A c \in Contests :
    IF state[c] \in Terminal \cup {"absent", "draft"}
    THEN escrow[c] = 0
    ELSE escrow[c] = definition[c].amount * Cardinality(Active(c))

Lines(c, kind) == {line \in journal : line.contest = c /\ line.kind = kind}
TotalOf(lines) == SumFunction([line \in lines |-> line.amount])

\* The journal of an ended contest explains where its stakes went: a settled
\* contest paid its recorded results and its fee and nothing else, and a
\* voided one reversed every stake that was not withdrawn (I5 and I9).
BooksClose ==
  \A c \in Contests :
    LET staked == TotalOf(Lines(c, "escrow")) - TotalOf(Lines(c, "refund"))
    IN  /\ state[c] = "settled" =>
             /\ TotalOf(Lines(c, "settle")) = TotalPayout(results[c])
             /\ staked = TotalOf(Lines(c, "settle")) + TotalOf(Lines(c, "fee"))
        /\ state[c] = "voided" => staked = TotalOf(Lines(c, "void"))
        /\ state[c] = "cancelled" => staked = 0

\* An active participant's link names the escrow entry of this contest, this
\* user and this entry amount, and only a void has reversed it (I7); and each
\* user has at most one unreturned stake, exactly one while active: however
\* often keys are retried, and an entry is withdrawn and made again.
StakesAreLinked ==
  \A c \in Contests, u \in Users :
    LET made == {line \in Lines(c, "escrow") : line.user = u}
        returned == {line \in Lines(c, "refund") : line.user = u}
    IN  /\ Cardinality(made) - Cardinality(returned) = IF u \in Active(c) THEN 1 ELSE 0
        /\ \A line, other \in journal :
             line.reverses # None /\ line.reverses = other.reverses => line = other
        /\ u \in Active(c) =>
             /\ \E line \in made : line.entry = stake[c][u] /\ line.amount = definition[c].amount
             /\ (\E line \in journal : line.reverses = stake[c][u]) <=> state[c] = "voided"

\* However entries, withdrawals and re-entries interleave, a contest never
\* holds more entrants than its maximum.
NeverOverfull ==
  \A c \in Contests :
    definition[c] # None => (definition[c].max # None => Cardinality(Active(c)) <= definition[c].max)

\* A contest waiting for settlement can always be settled: the engine's
\* payouts and the rake add up to the escrow, and every entrant gets a result,
\* so assertGuard never strands it between the two (transition.ts).
SettlementBalances ==
  \A c \in Contests :
    state[c] \in {"in_progress", "awaiting_settlement"} =>
      LET payouts == ComputeSettlement(c, score[c])
      IN  /\ RakeAmount(c) + TotalPayout(payouts) = escrow[c]
          /\ ValidLines(payouts)
          /\ DOMAIN payouts = Active(c)

\* Results are never complete and unnoticed: once every entrant has a
\* finished attempt the contest has left in_progress, and an auto contest has
\* settled, whichever batch completed them and however an operator moved the
\* contest meanwhile (scores.ts, maybeAdvance).
CompleteResultsAdvance ==
  \A c \in Contests :
    /\ Active(c) # {}
    /\ \A u \in Active(c) : score[c][u] # None /\ score[c][u].finished
    => /\ state[c] # "in_progress"
       /\ definition[c].policy = "auto" => state[c] # "awaiting_settlement"

\* An operator close pays exactly the payouts of a preview that was fetched,
\* although scores may be corrected between the preview and the close
\* (README, "nothing moves").
PaidAsPreviewed ==
  [][\A c \in Contests :
       state[c] = "awaiting_settlement" /\ state'[c] = "settled"
         /\ definition[c].policy = "operator_close"
       => quoted[c] # None /\ results'[c] = quoted[c]]_vars

=============================================================================
