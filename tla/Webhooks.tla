------------------------------- MODULE Webhooks -------------------------------
(***************************************************************************)
(* Purse announces entries to Sideout                                      *)
(* (apps/purse/src/webhooks, apps/sideout/src/server/purse/webhooks.ts).   *)
(*                                                                         *)
(* The transaction that changes an entry writes a delivery row.            *)
(* Dispatcher processes lease due rows in batches, POST each and record    *)
(* the outcome, with no lock held in between; a process may crash, a       *)
(* recording may fail, a lease may run out under a stalled attempt.  The   *)
(* receiver records each event by its id and applies it in the same        *)
(* transaction.                                                            *)
(*                                                                         *)
(* One endpoint and one player's entry in one contest: event e says the    *)
(* player entered when e is odd, withdrew when e is even.  The backoff is  *)
(* the time a failed row stays unclaimed.                                  *)
(***************************************************************************)
EXTENDS Integers, FiniteSets

CONSTANTS
  None,
  Gone,          \* a process that crashed; a restarted one has a new instanceId
  Instances,     \* dispatcher processes
  MaxAttempts,   \* WEBHOOK_MAX_ATTEMPTS
  MaxEvents,     \* bounds the events emitted
  MaxDeliveries, \* bounds the events and replays queued
  MaxMishaps     \* bounds crashes, failed recordings and stalls past a lease

ASSUME BoundsAssumption ==
  /\ MaxAttempts \in Nat \ {0}
  /\ {MaxEvents, MaxDeliveries, MaxMishaps} \subseteq Nat

Events == 1 .. MaxEvents
Deliveries == 1 .. MaxDeliveries
Statuses == {"pending", "failed", "delivered", "dead"}
Outcomes == {"ok", "refused", "silent"}

\* A row of webhook_deliveries.
Rows == [event : Events, status : Statuses, attempt : 0 .. MaxAttempts,
         lockedBy : Instances \cup {None, Gone}, live : BOOLEAN]

\* An attempt in flight, with its outcome once it has one.
Flights == [by : Instances, delivery : Deliveries, attempt : 1 .. MaxAttempts,
            outcome : Outcomes \cup {None}, orphan : BOOLEAN]

ASSUME NamesAssumption ==
  /\ None # Gone /\ {None, Gone} \cap Instances = {}
  /\ None \notin Rows \cup Outcomes

VARIABLES
  emitted,       \* events emitted so far; the last one is what Purse holds
  enabled,       \* the endpoint's status
  delivery,      \* [d] row of webhook_deliveries, None before it is queued
  log,           \* [d] rows of webhook_delivery_attempts: attempt -> outcome
  flights,       \* the attempts processes have leased and not yet recorded
  late,          \* events of requests that timed out and may still arrive
  received,      \* Sideout: event ids in purse_webhook_events
  applied,       \* [e] how often the event was applied; for the properties
  mirror,        \* Sideout: the event whose state the entry row carries, 0 at first
  faults,        \* crashes and failed recordings so far
  stalls         \* leases that ran out under a working process so far

queue == <<emitted, delivery>>
sender == <<log, flights>>
receiver == <<received, applied, mirror>>
mishaps == <<faults, stalls>>
vars == <<emitted, enabled, delivery, log, flights, late, received, applied, mirror, faults, stalls>>

-----------------------------------------------------------------------------
(* The outbox.                                                             *)

Queued == {d \in Deliveries : delivery[d] # None}

NewDelivery(e) == [event |-> e, status |-> "pending", attempt |-> 0, lockedBy |-> None, live |-> FALSE]

Queue(e) ==
  \E d \in Deliveries \ Queued :
    /\ \A c \in Deliveries \ Queued : d <= c
    /\ delivery' = [delivery EXCEPT ![d] = NewDelivery(e)]

\* enterContest and withdrawEntry: the change and its delivery commit together.
EmitEvent ==
  /\ enabled
  /\ emitted < MaxEvents
  /\ emitted' = emitted + 1
  /\ Queue(emitted + 1)
  /\ UNCHANGED <<enabled, sender, late, receiver, mishaps>>

\* A new delivery of the same event, whatever became of the first.
ReplayDelivery(d) ==
  /\ d \in Queued
  /\ enabled
  /\ Queue(delivery[d].event)
  /\ UNCHANGED <<emitted, enabled, sender, late, receiver, mishaps>>

UpdateEndpoint ==
  /\ enabled' = ~enabled
  /\ UNCHANGED <<queue, sender, late, receiver, mishaps>>

-----------------------------------------------------------------------------
(* The dispatcher.                                                         *)

\* Fault: a leased row is left alone even when the lease is over.
ClaimableUnleased(d) ==
  /\ d \in Queued
  /\ delivery[d].status \in {"pending", "failed"}
  /\ delivery[d].lockedBy = None

Claimable(d) ==
  /\ d \in Queued
  /\ delivery[d].status \in {"pending", "failed"}
  /\ ~delivery[d].live

\* The cycle of a process waits for its flights, unless one of them threw.
Idle(i) == \A f \in flights : f.by = i => f.orphan

\* claim: the due rows are any of the claimable ones.
Claim(i, due) ==
  /\ Idle(i) /\ enabled
  /\ due # {} /\ \A d \in due : Claimable(d)
  /\ delivery' = [d \in Deliveries |->
       IF d \in due THEN [delivery[d] EXCEPT !.lockedBy = i, !.live = TRUE] ELSE delivery[d]]
  /\ flights' = flights \cup
       {[by |-> i, delivery |-> d, attempt |-> delivery[d].attempt + 1, outcome |-> None,
         orphan |-> FALSE] : d \in due}
  /\ UNCHANGED <<emitted, enabled, log, late, receiver, mishaps>>

\* Fault: redeliveries are not recognised.
NeverDuplicate(e) == FALSE

Duplicate(e) == e \in received

\* receivePurseWebhook: recorded, and applied unless it is a redelivery.
Receive(e) ==
  /\ received' = received \cup {e}
  /\ applied' = IF Duplicate(e) THEN applied ELSE [applied EXCEPT ![e] = @ + 1]
  /\ mirror' = IF Duplicate(e) THEN mirror ELSE e

Answer(f, outcome) == [f EXCEPT !.outcome = outcome]

\* One POST: answered with 2xx, refused, applied with its answer lost, or
\* timed out and still on its way.
Post(f) ==
  LET e == delivery[f.delivery].event
      Ends(outcome) == flights' = (flights \ {f}) \cup {Answer(f, outcome)}
  IN /\ f.outcome = None
     /\ \/ Ends("ok") /\ Receive(e) /\ UNCHANGED late
        \/ Ends("refused") /\ UNCHANGED <<receiver, late>>
        \/ Ends("silent") /\ Receive(e) /\ UNCHANGED late
        \/ Ends("silent") /\ late' = late \cup {e} /\ UNCHANGED receiver
     /\ UNCHANGED <<queue, enabled, log, mishaps>>

ArriveLate(e) ==
  /\ e \in late
  /\ late' = late \ {e}
  /\ Receive(e)
  /\ UNCHANGED <<queue, enabled, sender, mishaps>>

Succeeded(outcome) == outcome = "ok"

Exhausted(attempt) == attempt >= MaxAttempts

StatusAfter(f) ==
  IF Succeeded(f.outcome) THEN "delivered" ELSE IF Exhausted(f.attempt) THEN "dead" ELSE "failed"

\* webhook_deliveries_guard: the count never falls, a dead row stays dead, and
\* a delivered one also keeps its delivered_at, which a recording would set.
GuardAllows(row, f) ==
  /\ f.attempt >= row.attempt
  /\ row.status # "delivered"
  /\ row.status = "dead" => StatusAfter(f) = "dead"

\* A flight that throws rejects its cycle; the others fly on, orphaned.
Rejects(f) ==
  flights' = {IF g.by = f.by /\ ~f.orphan THEN [g EXCEPT !.orphan = TRUE] ELSE g :
                g \in flights \ {f}}

\* The attempt row, unless that number has one.
Logged(f) ==
  log' = [log EXCEPT ![f.delivery] =
            IF f.attempt \in DOMAIN @ THEN @
            ELSE [a \in DOMAIN @ \cup {f.attempt} |-> IF a = f.attempt THEN f.outcome ELSE @[a]]]

\* The delivery's own row follows the attempt if this process still holds the
\* lease.
Settled(f) ==
  delivery' = [delivery EXCEPT ![f.delivery] =
    IF @.lockedBy = f.by
    THEN [@ EXCEPT !.attempt = f.attempt, !.status = StatusAfter(f), !.lockedBy = None, !.live = FALSE]
    ELSE @]

\* The recording, one transaction; the guard rolls it back.
Record(f) ==
  LET row == delivery[f.delivery]
      refused == row.lockedBy = f.by /\ ~GuardAllows(row, f)
  IN /\ f.outcome # None
     /\ IF refused THEN Rejects(f) /\ UNCHANGED <<log, delivery>>
                   ELSE flights' = flights \ {f} /\ Logged(f) /\ Settled(f)
     /\ UNCHANGED <<emitted, enabled, late, receiver, mishaps>>

-----------------------------------------------------------------------------
(* Mishaps, at most MaxMishaps of them.                                    *)

Fault == faults + stalls < MaxMishaps /\ faults' = faults + 1 /\ UNCHANGED stalls
Stall == faults + stalls < MaxMishaps /\ stalls' = stalls + 1 /\ UNCHANGED faults

\* Fault: a cycle that rejects gives up its leases, also those of the attempts
\* that fly on.
ThrowReleasing(f) ==
  /\ Fault
  /\ Rejects(f)
  /\ delivery' = [d \in Deliveries |->
       IF d \in Queued /\ delivery[d].lockedBy = f.by
       THEN [delivery[d] EXCEPT !.lockedBy = None, !.live = FALSE]
       ELSE delivery[d]]
  /\ UNCHANGED <<emitted, enabled, log, late, receiver>>

\* The database fails an attempt before its POST or its recording.
Throw(f) ==
  /\ Fault
  /\ Rejects(f)
  /\ UNCHANGED <<queue, enabled, log, late, receiver>>

Crash(i) ==
  /\ Fault
  /\ \E f \in flights : f.by = i
  /\ flights' = {f \in flights : f.by # i}
  /\ delivery' = [d \in Deliveries |->
       IF d \in Queued /\ delivery[d].lockedBy = i THEN [delivery[d] EXCEPT !.lockedBy = Gone]
       ELSE delivery[d]]
  /\ UNCHANGED <<emitted, enabled, log, late, receiver>>

\* Some process still works on what it leased.
Attended(d) ==
  \E f \in flights : f.delivery = d /\ f.by = delivery[d].lockedBy

Expires(d) ==
  /\ d \in Queued /\ delivery[d].live
  /\ delivery' = [delivery EXCEPT ![d].live = FALSE]
  /\ UNCHANGED <<emitted, enabled, sender, late, receiver>>

\* The lease outlives the request's timeout, so a lease that runs out under a
\* working process is a mishap: a stall of a minute.
LeaseExpires(d) ==
  \/ Expires(d) /\ ~Attended(d) /\ UNCHANGED mishaps
  \/ Expires(d) /\ Attended(d) /\ Stall

-----------------------------------------------------------------------------
(* The specification.                                                      *)

Init ==
  /\ emitted = 0
  /\ enabled = TRUE
  /\ delivery = [d \in Deliveries |-> None]
  /\ log = [d \in Deliveries |-> <<>>]
  /\ flights = {}
  /\ late = {}
  /\ received = {}
  /\ applied = [e \in Events |-> 0]
  /\ mirror = 0
  /\ faults = 0
  /\ stalls = 0

Next ==
  \/ EmitEvent
  \/ \E d \in Deliveries : ReplayDelivery(d)
  \/ UpdateEndpoint
  \/ \E i \in Instances, due \in SUBSET Deliveries : Claim(i, due)
  \/ \E f \in flights : Post(f)
  \/ \E e \in Events : ArriveLate(e)
  \/ \E f \in flights : Record(f)
  \/ \E f \in flights : Throw(f)
  \/ \E i \in Instances : Crash(i)
  \/ \E d \in Deliveries : LeaseExpires(d)

Spec == Init /\ [][Next]_vars

\* A polling dispatcher comes to every due row of an enabled endpoint, its
\* attempts end within their timeout, and leases run out.
Fairness ==
  /\ \A d \in Deliveries :
       SF_vars(\E i \in Instances, due \in SUBSET Deliveries : d \in due /\ Claim(i, due))
  /\ \A i \in Instances : WF_vars(\E f \in flights : f.by = i /\ (Post(f) \/ Record(f)))
  /\ \A d \in Deliveries : WF_vars(Expires(d) /\ ~Attended(d) /\ UNCHANGED mishaps)

FairSpec == Spec /\ Fairness

-----------------------------------------------------------------------------
(* Properties.                                                             *)

\* Variables have their types; the constraint that an attempt is at most
\* max_attempts (webhook_deliveries_attempt_range) is never hit.
TypeOK ==
  /\ emitted \in 0 .. MaxEvents
  /\ enabled \in BOOLEAN
  /\ delivery \in [Deliveries -> Rows \cup {None}]
  /\ \A d \in Queued : delivery[d].event <= emitted
  /\ DOMAIN log = Deliveries /\ \A d \in Deliveries : DOMAIN log[d] \subseteq 1 .. MaxAttempts
  /\ flights \subseteq Flights /\ \A f \in flights : f.delivery \in Queued
  /\ received \subseteq 1 .. emitted
  /\ applied \in [Events -> Nat]
  /\ late \subseteq 1 .. emitted
  /\ mirror \in {0} \cup received
  /\ faults \in Nat /\ stalls \in Nat /\ faults + stalls <= MaxMishaps

\* Several processes never attempt one delivery at once, however many crash,
\* restart or fail to record; a lease that runs out under a working process
\* lets one more attempt in, and only one.
AttemptsOverlapByStalls ==
  \A d \in Deliveries : Cardinality({f \in flights : f.delivery = d}) <= 1 + stalls

\* A delivery Purse shows as delivered is one Sideout has recorded, whatever
\* process recorded the outcome and however stale its attempt was.
DeliveredWasReceived ==
  \A d \in Queued : delivery[d].status = "delivered" => delivery[d].event \in received

\* Retries, replays, late requests and leases that ran out never apply an
\* event twice.
AppliedOnce == \A e \in Events : applied[e] = IF e \in received THEN 1 ELSE 0

\* Attempts are counted as they are made: every attempt a delivery counts is
\* in its log, and it is given up only after the last.  Crashes, stalls and
\* stale recordings never use up an attempt.
AttemptsAreMade ==
  \A d \in Queued : /\ 1 .. delivery[d].attempt \subseteq DOMAIN log[d]
                    /\ delivery[d].status = "dead" => delivery[d].attempt = MaxAttempts

Ended(d) == d \in Queued /\ delivery[d].status \in {"delivered", "dead"}

\* While the endpoint is enabled again and again, every delivery is delivered
\* or dead in the end: a crashed process's lease, a lost one and a recording
\* that failed leave no row behind.
EveryDeliveryEnds == \A d \in Deliveries : (d \in Queued /\ []<>enabled) ~> Ended(d)

=============================================================================
