# Sideout on Purse: TLA+ models, checks and proofs

This directory models the parts of the repository in which money, scores, brackets and
state machines have to agree under concurrency, retries and failures, checks small
instances with TLC and proves the most important results for every instance with TLAPS.

## 1. The system

The repository is a monorepo of two kinds of services.

**Purse** (`apps/purse`) is the ledger and contest service: a Hono HTTP API over Postgres.
**Tenants** (`apps/sideout`, a beach volleyball tournament app, and `apps/pingpong`, a
ladder) call Purse over HTTP with idempotency keys and receive its signed webhooks.

| component | state it keeps | operations | what makes it correct |
|---|---|---|---|
| Ledger (`purse/src/ledger`) | accounts, append-only journal entries and lines | post under an idempotency key, reverse, balances | every entry balances; wallets, escrows and fees never go below zero; an entry is reversed once; a key posts once |
| Contests (`purse/src/contests`) | contest, participants with their entry link, scores, results | create, update, enter, withdraw, transitions, scores, preview, close, void | escrow holds exactly the active stakes; a finished contest has an empty escrow and a journal that explains it; never overfull; an operator's close pays what was previewed |
| Settlement engine (`purse/src/settlement`) | none, a pure function | rank, prize vector, ties, participation floor | pays the pool exactly, by placement and as promised |
| Treasury (`purse/src/treasury`) | payments, their events, the custody account | deposit, withdraw, confirm, return | custody equals funded payments; a key funds once; a payment ends once |
| HTTP idempotency (`purse/src/http/idempotency.ts`) | stored answers, reservations with a time to live | claim, replay, release | all handlers of one key answer alike |
| Webhooks (`purse/src/webhooks`, `sideout/src/server/purse/webhooks.ts`) | deliveries with attempt and lease; received event ids | emit, claim, attempt, retry, replay; receive | one attempt of a delivery at a time; delivered means received; applied once; every delivery ends |
| Field (`sideout/src/server/{teams,registration,field,tournaments}.ts`, `donations/`) | teams, donations, capacity, tournament status | create a team, register, pay, refund, close registration, draw, go live | never overbooked; everyone live is drawn; every payment has a place or a refund due |
| Draw and standings (`sideout/src/domain/{draw,standings,final-standings}.ts`) | none, pure functions | pools, schedules, brackets, standings, lots, final standings | everyone meets everyone in a pool; brackets are fair; who advances is what the page shows |
| Scoring (`sideout/src/server/{consensus,matches,draw}.ts`) | matches, submissions, a consensus per match | submit, resolve, forfeit, draw the bracket, await settlement | results stand and stay; the bracket follows them |
| Score push (`sideout/src/server/purse/scores.ts`) | consensus state, key, attempts | push, retry, final standings | a consensus claims no more than Purse holds |
| Close (`sideout/src/server/purse/{close,contests}.ts`) | frozen preview, tournament status, contest state | preview, confirm, mirror, void | a tournament is settled with what its organizer confirmed |
| Offline outbox (`sideout/src/lib/offline`) | scorelines saved on the phone | save, replay, discard | a saved scoreline is not lost, and leaves in the end |
| Live bus, Pingpong, eligibility, operators, embed, sandbox | see section 7 | | |

How they interact: Sideout calls Purse over HTTP under idempotency keys; Purse announces
changes by webhooks written in the transaction of the change; contests and payments post
entries to one ledger, whose account rows they lock; within a service, concurrent requests
meet only in Postgres (row locks, advisory locks, unique indexes, triggers). Stripe takes the
entry donations and announces what became of them by events of its own.

What is hard here: operations that read, wait for another service and write without a lock
in between (payments, score pushes, webhook attempts, the close, the creation of a team);
retries of requests whose answer was lost; processes that die between two transactions;
events and callbacks that arrive twice, late or in another order; reservations that lapse
while they are being paid; results that are contradicted, forfeited or redrawn while others
build on them; money and places that must be conserved through all of it.

## 2. The modules

| module | models | proofs |
|---|---|---|
| `Settle` | `settlement/settle.ts` and `applyBps`, as operators | `ContestProofs` |
| `Draw`, `Standings` | `domain/draw.ts`, `standings.ts` and `final-standings.ts`, as operators; `Arrays` has the array functions they use | `MatchPlayProofs` |
| `Contest` | `contests/*` over the part of the ledger it uses | `ContestProofs` |
| `StakePot` | abstract: a pot that is paid in and paid out once | |
| `ContestPot` | the refinement mapping from `Contest` to `StakePot` | `ContestProofs` |
| `Payments` | `treasury/*`, a rail, restrictions, stakes as a second user of the wallet | `PaymentsProofs` |
| `Field` | teams, registration, donations, Stripe, the organizer up to the start | `FieldProofs` |
| `MatchPlay` | play from the drawn pools to the tournament that awaits settlement, on `Draw` and `Standings` | `MatchPlayProofs` |
| `MatchPlayFacts` | what those proofs speak of: shapes of pools, tables, cut lines and brackets, the invariant of play | `MatchPlayProofs` |
| `ScorePush` | `server/purse/scores.ts` of Sideout, and Purse's two idempotency layers | `ScorePushProofs` |
| `CloseFlow` | Sideout's close and mirror, the contest they move, Purse's idempotency middleware, the settled webhook | `CloseFlowProofs` |
| `Webhooks` | Purse's outbox and dispatcher, Sideout's receiver | `WebhooksProofs` |
| `Outbox` | the score sheet, the store on the phone, its replay, the server it talks to | `OutboxProofs` |
| `MC...` | constants, symmetry and, in `MCPure`, the inputs of the checks | |

Together `Field`, `MatchPlay`, `ScorePush` and `CloseFlow` follow a tournament from its first
team to the payout: `Field` ends live with its draw, `MatchPlay` starts there and ends
awaiting settlement, `ScorePush` runs beside it for every agreed match, and `CloseFlow`
starts when play is over or the tournament is cancelled.

Definitions whose comment begins "Fault" are not part of a model: each is the form a
definition would take with a plausible bug in it, and shows that a property notices that bug.

### Settle, Draw, Standings

`SettlePool` is `settle()`: entries are ranked (`Placement`), the pool is cut into a prize
vector (`PrizeVector`: floor per entrant, weights fitted to the slots, minimums, the
remainder to the best), tie groups share what they span (`EvenSplit`). Instants and seeds
are small numbers; amounts are integers, as bigint is.

`Draw` has the seed line (`OrderEntries`, the shuffle being any order), the snake into pools,
the circle method, the court queues, and the bracket: size, seed placement, byes moved into
their next match (`DrawnSeeds`), and start times after every feeder. `Standings` has the tie-break
chain of a pool with its head-to-head rule for ties of two, the lots for ties on a cut line
(`ResolveCutLineTies`, a lot being any order), wildcards, the seed order of the bracket, what
the public page shows, and the final standings of a bracket. Ratios are compared as the code
does, by cross-multiplication. `MCPure` has one behaviour per input.

### Contest, StakePot and ContestPot

State: the contest row (`state`, `definition`, `lockTimePassed`), participants with the
escrow entry they point at (`participant`, `stake`), scores, results, the preview an
operator holds (`quoted`), account balances, the journal lines on escrow accounts, and the
keys with a service idempotency row (`recorded`). Each action is one transaction of the code:
`CreateContest`, `UpdateContest`, `Enter`, `Withdraw`, `TransitionContest` (open, lock, start,
cancel), `SubmitScores` with the automatic advance and settlement it may end in,
`CloseContest`, `VoidContest`. The contest's row lock makes each of them atomic, but what is
read before the lock is not: `Arrive` is the arrival of an entry or a withdrawal, which reads
the clock then. Duplicates of a keyed request replay and change nothing (`Fresh`, `Record`).

`StakePot` says what all of this is for: stakes go into a pot, come out by withdrawal, and
the pot is emptied once, with results that sum to it less the rake, or refunded. `ContestPot`
maps a contest to a pot and the run `contest` checks that every step is a step of the pot
or leaves it alone (`ImplementsPot`).

Simplified: users are eligible; nothing in the code sets a participant to `disqualified`;
`settling` is entered and left within one transaction and never seen; seeds and submission
instants matter in `MCPure` only; previews are taken while scores are accepted.

### Payments

A request (`step`) checks, opens its row, calls the rail and applies the answer, and may die
(`Die`) between any two. A deposit and a withdrawal are told apart by their key's `Intent`.
Requests under one key may overlap, because only a reservation that expires keeps them
apart. A callback reads a payment (`ReadForCallback`) and writes it later (`ApplyCallback`).
The rail is external: it answers once per key, always the same. `Stake` and `Unstake` let
contests spend the balance in between.

### Field

A captain's `createTeam` reads her active team (`StartCreate`) and later writes (`CreateTeam`),
because it takes no lock. `Register` is the reservation under the tournament's lock;
`CreatePayment`, `FailDonation` and `Dies` are what may become of the payment it then opens.
`ApplyStatus` is `applyDonationStatus` with the whole of `syncTeamRegistration`: what a payment
that succeeded, failed or was refunded does to its team, and when a refund is due. Stripe
(`Pay`, `Refund`, cancellations) announces what happened by events that `Receive` takes in any
order. `Lapse` is time. The organizer closes and reopens registration, changes the capacity,
draws (`Draw` is the set of confirmed teams), starts (`GoLive`, refused by `DrawCoversField`)
or cancels.

Simplified: a team's second player, check-in, the free tournament and the dev provider are
left out; a payment Sideout does not know of cannot be paid, since the browser gets it only
after its reference is stored; a decline is only noted by the code and is no event here; a
request judges lapses by a clock it read when it arrived, and here by one it reads when it
commits, which refuses less; the draw itself is `MatchPlay`'s.

### MatchPlay

State: `matches` (status, teams, winner), the consensus and the agreed scoreline, the live
submissions of both sides, the organizer's ruling, the lots of the persisted seed.
`SubmitFirst`, `SubmitMatching` and `SubmitConflicting` are the outcomes of `submitScoreline`;
`ResolveDispute` and `Forfeit` the organizer's; each enters the result and moves the winner into
its next match (`Advance`). `RunDraw` draws the bracket from the pools' standings or draws it
again while nobody has played in it; `AwaitSettlement` ends play. The constants are the draw
that `Draw` computes from a line of different teams, a workable pool size and two or more
advancing teams (`DrawAssumption`, `LineAssumption`); that such a draw has the links of a bracket
is proved, not assumed (`BracketLinks`). The advancement rule takes someone from every pool and has
a team for every wildcard, the lots tell any two teams apart (`StandingsAssumption`), and an absent
value is no seed and no link (`NoneAssumption`).

Simplified: scorelines are legal ones, each naming a winner; signatures, court changes and
the matches' clock are left out; a single stage tournament (a round robin, or a bracket alone)
is the first or the second half of this one.

### ScorePush

A push (`push[p]`) goes through the awaits of `pushMatchScores`: `StartPush`, `ReadBatch`,
`First` (the send), `RotateKey` and `Reload`, `MovePushed`, `Second` (the replay that proves
the batch durable), `MoveConfirmed`. Each send may be lost on either way (`Lost`). Purse
answers from its stored responses, or its service performs or replays a batch and the
response is stored or not, if Purse dies in between (`PurseAnswers`). `EnterAgreed`,
`Forfeit` and `RecordEntries` are the tournament going on around the pushes. `fresh` is a history
variable: the pushes that no other has overtaken since they read their batch, for
`OnlyTheOvertakenGoBack`.

Simplified: of two requests under one key in flight at once, one waits for the other, so they
are answered in turn (`CloseFlow` has the reservations); refusals of other kinds (4xx) leave
the push as a lost answer does; attestations are left out; the rows of the unsorted select that
builds a batch are taken in a stable order; a pusher that dies leaves the state a lost answer
leaves.

### CloseFlow

A request of an organizer (`pc[r]`) is a process with one action per awaited call or
transaction. A preview reads the entrants back, pushes the final standings, reads Purse's
preview, refuses one that diverges, and freezes it. A confirmation compares with the frozen
preview, looks at the contest, sends the close under a key made of the preview's time, and
settles the tournament. A transition is followed by its mirror, which voids the contest of a
cancelled tournament. Purse's side is the middleware (`Claim`, `PerformClose`, `StoreAnswer`,
`ExpireReservation`, `HandlerDies`): a handler may outlive its reservation and run beside a
retry, and a client may give up on a handler that goes on (`TimeOut`). Purse's console may finish,
close or void the contest at any time, and `contest.settled` arrives whenever it does.

Simplified: payouts are abstracted to what they are computed from (running scores, final
standings, an emptied escrow); the blockers are gone when a close starts; the contest has
been started and its entrants are fixed.

### Webhooks

`EmitEvent` and `ReplayDelivery` write delivery rows; `Claim` leases any set of due rows;
`Post` has every outcome of the request, among them that Sideout applied the event and the
answer was lost, and that the request timed out and still arrives (`ArriveLate`); `Record` is
the recording transaction with the trigger that guards the row; `Throw`, `Crash` and
`LeaseExpires` are the mishaps. `Receive` is Sideout's transaction: dedupe by event id, apply.

Simplified: one endpoint and one player's entry, whose events alternate between entered and
withdrawn; backoff is the time a failed row stays unclaimed; a restarted process has a new
instance id, so rows of a crashed one belong to `Gone`; two attempts equal in every field
count as one; a change made while the endpoint is disabled produces no event, as in the code.

### Outbox

A tab has a score sheet (`sheet`, with its request in `asked`) and a replay (`run`, `sent`); the
store is shared by the tabs of a phone. A submission without an answer is saved: what was
saved for the match is removed item by item (`RemoveStale`), then the new item is put
(`Save`). A replay sends the items it listed, oldest first, and puts each back or removes it by
the answer. A request the phone gives up may still reach the server (`HandleLate`), and a tab may
die between any two steps (`TabDies`). The server is what `submitScoreline` makes of it: it
accepts, refuses, or says that the match is decided. `heard` and `withdrawn` are history
variables of the property. The code's `match_not_open`, here a decided match, also answers for one
that is not open yet, for which no sheet is offered.

## 3. The runs

| run | instance | what it shows |
|---|---|---|
| `pure` | settlements of up to three entrants and ten units under every rule and structure; pools of up to nine teams and brackets of up to seventeen seeds on up to three courts; two and three pools with every result | the properties of the pure algorithms |
| `contest` | one contest (for both users by operator or automatic close with a rake of 25% and weights 60/40, with one place, or too dear), two users, four commits | all safety properties of a contest, and the refinement of the pot |
| `payments` | one user, two deposit keys and a withdrawal, four requests, two callbacks | custody, keys, rail and rows, endings |
| `field` | three teams, three donations, up to three places, one mishap | capacity, the draw, payments and their places, the books |
| `match_play` | two pools of two, a wildcard, a bracket of three with a bye, one forfeit, a lot either way | results, bracket, placements, finality |
| `score_push` | two matches sharing a team, two pushers, three keys | a consensus is backed by what Purse holds, scores never exceed the wins, only an overtaken push takes one back |
| `score_push_serial` | the same with one pusher, five keys, a late entry, fairness | an agreed match is confirmed in the end |
| `close` | two overlapping requests, two previews, two mishaps, fairness | what is confirmed is paid, keys answer alike, both sides end alike |
| `webhooks` | two dispatchers, two attempts, an event and its replay, one mishap, fairness | attempts of a delivery overlap by lost leases only, events apply once, every delivery ends |
| `outbox` | one tab, two matches, two items, one request still on its way, fairness | nothing saved is lost, the queue drains |
| `payments_payout` | as `payments` | a violation, see section 6 |
| `field_second_team` | one captain, two teams | a violation |

Bounds, and why they are enough. Two users make a tie, a winner and a loser, and a race for
the last place; four commits are enough for enter, withdraw, enter again and settle or void,
the longest cycle of one stake. Four requests over three keys let two deliveries of one key
overlap while a withdrawal spends what they deposited; a payment row has at most two callbacks
that matter. Three teams of three captains and three donations let a lapsed reservation lose its place to one team and
be paid or renewed beside another; a captain of two teams is the instance of
`field_second_team`, and the theorem covers captains of any number. Two pools of two with a wildcard are the smallest stage
with a lot across pools, a bye, a match that is fed and one that is seeded; with one scoreline
for each side a dispute has both rulings. Two matches with a common team are the smallest case
in which a batch changes after it was sent; five keys allow each match a rotation and more.
Two requests, previews and mishaps let a preview be frozen over another and a close be lost,
repeated and run beside its retry. Two attempts per delivery make a first, a retried and a last
attempt; two rows of one event make a replay race the original. Two items of two matches or of
one make an older scoreline meet its replacement; nine teams make pools of odd and even size,
seventeen seeds a bracket with fifteen byes.

Runs that do not check deadlock have systems that may be at rest: requests, commits and keys
are used up, an input is answered, a tournament is settled, cancelled or awaits the close, every
match is confirmed. `webhooks` and `outbox` check it.

Types are proved (section 5) and not checked again by the runs.

## 4. Fairness

Four runs assume it, and only of what the code repeats or ends by itself.

`ScorePush` (`FairTo(m)`): a running push takes its next step, because each request ends with
an answer or at its timeout; the organizer retries a match that blocks the close (the close
lists it as a blocker until it is confirmed); and a request sent again and again is, again and
again, answered and its answer stored: without that a network that loses everything would
confirm nothing.

`Webhooks`: a row that is due again and again at an enabled endpoint is claimed, since
dispatchers poll every second and take the oldest rows first; a process's attempts end within
their timeouts; a lease nobody works under runs out. `EveryDeliveryEnds` assumes in its own
premise that the endpoint is enabled again and again: a disabled one is meant to keep its rows.

`CloseFlow`: a request that was started is carried on, Purse's handlers run, and the
`contest.settled` event is received: `Webhooks` attempts each delivery until it is received or its attempts are used
up, so this is an assumption about the outage, and a dead delivery waits for an operator's replay.
Nobody is obliged to preview, confirm or retry.

`Outbox`: a tab replays when it loads, comes back or is online again (weak fairness of `Sync`);
and each item sent again and again is some time answered, and the answer used, before the tab
dies (strong fairness per item: with it per tab only, two tabs could starve an item between
them). No fairness is assumed of players, organizers, operators, callbacks or faults.

## 5. The proofs

All are proved for every value of the constants, from the named assumptions in the modules.

`ContestProofs`, the engine. The community modules' sums (`SumFunctionOnSet`) are shown to be
what removing one element at a time makes of them, for every finite set (`SumIsTheSum`), by the
induction over subsets `SetInduction`, stated with a set of those for which a fact holds rather
than with an operator. From there: an even split, a proportional split and a best-first payment
add up to what they split; a prize vector adds up to the pool; the ties of a ranking cover the
slots without a gap (`GroupsCover`); so a settlement pays the pool, to the unit, for every list
of entrants, structure, tie-break rule and pool (`SettlePoolPays`). The prizes fall from slot to
slot where the weights and the minimums do (`PrizeVectorFalls`; `nonIncreasing` in
`types.ts` refuses a structure in which they do not, hence `NonIncreasing` in `Structure`), and
a group is paid between the bounds of the slots it shares (`HoldingBounds`): so nobody is paid
less than someone placed behind, those who tie differ by at most a unit, and an unscored entrant
gets the floor and nothing else (`EnginePaysInOrder`). `EnginePaysItsPrize` says that an untied
placement is paid its line of a table that spends the pool, and its guaranteed minimum on top
of the floor where the pool covers them. `pure` checks the same operators, `PaidInOrder` and
`PaidItsPrize`, on its inputs.

`ContestProofs`, the service. The invariant `IInv` is `TypeOK`, `Defined` (a contest that exists
has a definition), `NobodyBeforeOpen`, `LinesHaveAmounts` (amounts in the journal are whole
numbers) and `EscrowHoldsTheStakes`. The escrow property is not inductive alone: opening a contest
and editing its amount keep it only because nobody has entered before, and a void adds amounts of
the journal to wallets, which stay whole numbers only if those amounts are. With the engine's sums
it gives `SettlementCorrect`: whenever a contest may be settled the engine's payouts and the rake
are exactly what its escrow holds, so neither the ledger's refusal of an unbalanced entry nor the
state machine's of an escrow that is not empty can strand it. `JournalInv` says which lines there
may be and since when (`LinesAreKnown`), that a key posts one stake and a void reverses one once
(`LinesAreDistinct`), that every active participant points at a stake of their own
(`ActiveAreLinked`) and a void reverses each (`VoidsAreComplete`), and that a user has made one
entry more than were returned exactly while active (`EntriesBalance`): `StakesCorrect`. `BooksInv`
follows the totals of a contest's lines from its first entry on, of which `BooksClose` is the end:
a step posts lines no other step has posted, so the totals of both sets add up (`TotalOfBoth`).
`AdvanceCorrect` needs that nothing is scored before play starts. `PotImplemented` is the
refinement: planning and editing a contest are stutters of the pot, opening and locking change its
phase, an entry and a withdrawal pay in and give back, a settlement empties the pot with the
payouts that sum to it less the rake, a void returns every stake at the price it was made at, and a
cancellation ends a pot nobody is in; it uses `IInv`, `JournalInv` for what a void gives back and
`EntriesAreNamed`, and the engine's sums for the settlement. The remaining results: `TypeCorrect`,
`EscrowCorrect`, `CapacityCorrect`, and `CloseIsFaithful` for the action property
`PaidAsPreviewed`. The constants are what validation lets in: structures of whole amounts that do
not rise (`DefinitionsAssumption`), finite scores (`ReportsAssumption`), a finite set of users.

`PaymentsProofs`. The invariant ties a payment row to its request: until the rail's answer is
applied the row is in its first state, unfunded and without a reference (`RowsFollowSteps`);
a row is funded exactly when its state says so, and then carries its key as reference
(`FundedRows`); references differ (`ReferencesDiffer`), from which a key funds once; the trail
of a row holds no ending but the row's state (`TrailsEndInTheState`); and a callback holds a
payment that was funded (`CallbacksHoldFunded`), since the only edges into an ending it may
record leave a funding state (`RowsInTheirMachine`). The trigger on terminal rows is what
keeps the trail to one ending when a second callback acts on a stale read. Results:
`TypeCorrect`, `KeysFundOnce`, `RailStaysReconcilable`, `PaymentsEndOnce`; and `CustodyCorrect`:
each step changes the set of funded requests by the one that acts, and custody and the wallets by
its amount, for finitely many users and requests (`SizeAssumption`).

`FieldProofs`. The invariant is the type, the capacity and the draw of a live tournament together.
It rests on one fact about every step: the teams that hold a place grow by one at most, and only
while the field is open and a place is free. A registration checks that; a late payment checks it
with its own team left out, so a team that holds its place keeps it and one that lost it needs a
free one; a refund, a failure, a lapse and a withdrawal only give places up; a new capacity is no
smaller than the places held. The books follow Stripe because each state of a payment there has one
event that has moved its donation or is still on its way (`BooksMatch`), whatever the order of
arrival. That every payment has its place is an action property, for captains of any number of
teams: the one step that parts a payment from its place is a captain's `createTeam` that found the
team forming before it was paid for (`Supersedes`, the violation of `field_second_team`). Its
invariant holds through that step too: a payment that stands and is not named for a refund is the
only one of its team, which has its place or was withdrawn (`PlacesInv`); and no step but that one
withdraws a team that pays (`AllPlaced`). Results: `TypeCorrect`, `NeverOverbookedHolds`,
`LiveFieldIsDrawnHolds`, `BooksFollowStripeHolds`, `EveryPaymentHasItsPlaceHolds`.

`MatchPlayProofs`. First the draw, for every number of teams. The k-th team of a pool is dealt
in the k-th pass, so the pools divide the line and differ by one team at most (`PoolsAreFair`); the
circle method is a rotation of residues, so two teams share one round (`PoolsPlayRoundRobins`);
a pool's place in its court's queue counts the matches before it (`PoolCourtsAreQueues`). In the
bracket the placement of the seeds permutes `1..2^k` with neighbours that add up to `2^k + 1`; it
is also, in closed form, the best seed that can reach a match, whence `BracketsAreFair`. A court's
slots in a round begin where its slots of the round before end (`BracketsArePlayedInOrder`), and
the positions of two rounds do not meet (`BracketLinks`). The draw's recursion is written as
recursive functions over the naturals: that `Pow2` and `SeedPlacement` exist and are what
their equations say comes from two lemmas about functions on the naturals (`NumberInduction`,
`RecursionExists`), stated over sets and functions, which a prover can instantiate. Assumed of
the input is what the code checks or provides: two or more seeds, pools no smaller than two, a
line of different teams, and that an empty place is no number.

Then play. The invariant says what a match's status tells of its consensus (`Heard`:
disputed means that two sides said different things and nobody ruled), that matches in play
have two teams, that a side holds the winner of its feeder or nobody (`Linked`), that a bracket
is drawn from finished pools (`DrawnFromPools`) and that the sides nothing feeds hold the seeds
(`Seeded`). A decided pool match never changes, so the standings never do once the bracket is
drawn, and a redraw seats the same teams: that is why the seeds still agree with the public
page when the bracket is half played. To that much the standings are functions of the results and the
lots, whatever they compute: `TypeCorrect`, `ResultStandsHolds`, `BracketFollowsResultsHolds`, and
`DecidedStaysHolds` for the action property.

Last, the standings, from the first result to the last placement. A list sorted by a relation
that is a strict order on its members has one place for each, behind as many as come before it
(`ListsAreInOrder`); the work is that the code's comparators are such orders. Ratios compared by
cross-multiplication are (`RatiosCompare`), and so is the chain of a pool, since the head-to-head
rule applies only where two teams alone are level on wins and so closes no cycle (`PoolCompare`). Hence a
pool that has played out has a table (`Table`): every team once, ranks that rise, and a shared rank
only between teams level on every key, across pools too, all having played as often
(`AllPlayAlike`, `StandingsAreATable`). A lot orders the teams of one rank, gives each its
place as its rank and leaves a table (`LotsKeepATable`). At most one rank straddles the cut of a
pool, and at most one class of level teams the last wildcard, across pools; once both are put to
a lot nobody above a cut shares a rank with anybody below it, and the sizes add up
(`CutLinesAreResolved`, `SeedsAreDrawn`). So the bracket takes the teams the page shows above the
cut, each once and as many as the rule says: `CutLineHolds`.

With different seeds the bracket, played, is a knockout: no team stands twice in a round, by
induction over the rounds (`RoundsDiffer`), and every winner but the champion plays on
(`BracketIsKnockout`). Of any knockout the losers of a round come after everyone who went
further, and those the bracket left out after them by the ranks of their tables
(`KnockoutIsPlaced`). For `EveryoneIsPlacedHolds` the invariant takes in two more facts: that a
final match has a scoreline and a forfeit a winner among its teams (`Decided`), and that play ends
only when all is decided (`Settling`).

`ScorePushProofs`. What Purse performed or stored under a key never changes and no key is taken
from a match (`Lasting`), so what a push learned from an answer still holds when it moves the
consensus (`PushesKnow`), whatever other pushes did in between. Scores never run ahead because
wins are never taken back (`WinsGrow`), so a batch on its way is at most the wins
(`BatchesAreWins`), however late it arrives. `AdvanceCorrect` is about pushes that overlap in any
way. A batch read after Purse last performed one covers what Purse holds (`FreshCarries`), so a
push nobody has overtaken only moves scores up; a second send performs nothing, since its batch was
performed before it was sent. What is left is the first send of an overtaken push, which takes a
score back to what its batch says until the next push of the team (section 6). Results: `TypeCorrect`, `BackingCorrect`, `ScoresAreWon`, `AdvanceCorrect`.

`CloseFlowProofs`. What a request works with once it has passed the comparison with the
standings is a preview of final scores (`ShownIsPlaced`), and final scores are never scored over;
so what a request holds is still what Purse computes when its close is at last performed, and
an answer that the close is done is true for ever (`ClosesAreDone`). It follows, as a lemma on
the way, that Purse never refuses a close of Sideout's for a stale hash (`NoneStale`). For the keys
the invariant adds that a key's previews are equal, since its time is the preview's. Results:
`SettledCorrect`, `KeysAnswerAlike`.

`WebhooksProofs`. The invariant joins the properties with four facts: `AttemptsAreLeft` (a
row that may be claimed has an attempt left), `FlightsFollow` (an attempt's number is at most
one ahead of what its row counts, so a recording adds one attempt at most),
`FlightsHoldLeases` (unless a lease ran out under a working process, whoever works on a row
holds its live lease) and `OkWasReceived` (an attempt answered with success reached the
receiver). Results: `TypeCorrect`, `AttemptsExclude`, `DeliveryIsHonest`, `EventsApplyOnce`,
`NothingGivenUpEarly`. `AttemptsExclude` counts: of the attempts of a delivery one may work under the
live lease, and each of the others lost its lease while it worked, no two the same one
(`OverlapInv`). `DeliveryIsHonest` (delivered means received) is proved and in no run. The recording
that the trigger refuses needs two mishaps and three attempts, so it lies beyond the bounds of the
run; the proofs cover it.

`OutboxProofs`. A replay removes an item on an answer to a request sent some steps before, so the
invariant carries what such an answer still says of the server (`AnswersHold`): that it accepted
the item or decided the match, both of which last. Result: `NothingSavedIsLost`.

Only model-checked: `AdvancementIgnoresIds`, which compares two runs of the ranking under a
renaming of the teams; and the liveness properties `QueueDrains`, `EveryDeliveryEnds`,
`PaidIsSettled`, `CancelledIsRefunded` and `M1EventuallyConfirmed`: liveness under fairness, like
`ENABLED`, is outside the prover's reach. The other properties of `pure` ask of its inputs what
theorems say of the same operators for all: `PaidByPlacement` and `PaidAsPromised` what
`EnginePaysInOrder`, `SettlePoolPays` and `EnginePaysItsPrize` say, `PoolPlayIsARoundRobin` what
`PoolsAreFair` and `PoolsPlayRoundRobins`, `NobodyPlaysTwiceAtOnce` what `PoolCourtsAreQueues` and
`BracketsArePlayedInOrder`, `BracketIsFair` what `BracketsAreFair`, `CutLineIsShown` what
`CutLineHolds`.

## 6. What the checks found

- `payments_payout`: `requestWithdrawal` (`payments.ts:281-304`) has the rail pay out before
  anything has looked at the balance: the ledger is the first to do so, when it refuses the debit
  that follows. A withdrawal from a wallet that does not cover it, in the trace one that was empty
  from the start, leaves an accepted payout undebited and its payment in `requested`. The comment
  says that the wallet is debited "before the cash has moved", the balance check being the ledger's.
- `field_second_team`: `createTeam` withdraws the team it read as forming without looking again:
  a team that registered meanwhile is withdrawn, with its payment, and a second one made.

Met while modelling, and stated by no run:

- `withdrawEntry` reads the clock, then waits for the contest's row (`entries.ts:298`), so a refund
  may commit after the lock time, of which its comment says that the stake then stays.
- An overtaken push takes a score back to what it read, until the team's next push
  (`OnlyTheOvertakenGoBack` says that nothing else does).
- `moveConsensus` judges an edge on a consensus read before the requests and updates by id: the
  slower of two overlapping pushes takes a confirmed match back to `pushed_to_purse`.
- A retry from `pushed_to_purse` sends the wins of today under the key of yesterday; once they
  differ it is refused for ever, since keys rotate from `agreed` only. `M1EventuallyConfirmed`
  leaves that case out by its premise (`BatchHasChanged`).
- The events of an entry and its withdrawal can be applied in reverse, and nothing in the
  receiver compares them.
- Nothing runs the mirror of a cancelled tournament again when it failed: its contest then keeps
  the stakes until an operator voids it. `CancelledIsRefunded` excludes it.
- A close on Purse's console with the running scores makes every later preview of Sideout diverge:
  the tournament then waits for the `contest.settled` event. The refusal of a stale hash and the
  `finish` step of `pushFinalStandings` cannot be reached from Sideout.
- A forfeit of a disputed match leaves its consensus row disputed; everything that asks, asks
  the match too. `findSubmitterTeam` takes any one of two teams a player might be on.
- The donation that was due a refund can later be the only one that pays for its team's place,
  with the refund still due.
- "One queued item per match" (`outbox.ts:13-15`) can fail: a replay puts back the item it sent,
  also when the sheet has replaced it meanwhile, and then sends the older scoreline first. A
  direct submission leaves an item queued for the match. A 429 is an error to the sheet and a
  reason to wait to the outbox. A tab closed between removing the old item and putting the new
  one saves neither. An item whose accepted answer was lost may later be shown as refused.
- The README says of the close that "if anything changed since the preview the hashes differ",
  while the hash covers the payouts, so a correction that leaves them equal does not stop it.
- The comment of `returnPayment` says the claim is restored by reversing the withdrawal's entry,
  and nothing reverses it.
- The attempt log, said to hold every attempt, drops the second of two attempts under one number
  after a lost lease.

## 7. Not modelled

The live bus tells open pages to reload; a missed event changes no row. Pingpong is a smaller
tenant with the flow of Sideout. Eligibility decisions, rulesets, verification, operators, API
keys, embed sessions, the sandbox and maintenance are checks or single statements that allow a
call and move nothing else; only a restriction that blocks money is modelled (`Payments`).
Attestations are signatures beside a scoreline and decide nothing. The ledger's replay,
reconcile and hash chain read what was posted. Screens, typed clients, seeds of the database and
generated schemas, which make up most of the repository's lines, have no behaviour beyond the
operations modelled, but for the score sheet.

Left out of modelled components: a player joining a team, check-in, drafts, the single stage
formats and the final standings of a round robin, organizers' seed lists, the steps that create
and open a contest before play, verification and balance events.

## 8. The plan

Done: `Settle`; `Contest`, `StakePot`, `ContestPot`; `Payments`; `ScorePush`; `Webhooks`;
`CloseFlow`; `Field`; `Draw`, `Standings`, `MatchPlay`; `Outbox`; a proof module for each state
machine, with every safety property, the engine's sums and order, the pools and brackets of the
draw, the standings, their cut lines and the final placements, and the refinement of the pot.

Next: `Enter` split at its statements and locks (idempotency lock, contest row, account rows),
shown to implement `Enter` of `Contest` and free of deadlock; joining a team beside `Field`, with
what two players of two teams may do to one consensus; the Pingpong ladder; a proof that a ranking is
the same under any renaming of its teams.
