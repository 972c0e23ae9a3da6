--------------------------- MODULE WebhooksProofs ---------------------------
(***************************************************************************)
(* Theorems about Webhooks for any number of processes, attempts, events,  *)
(* deliveries and mishaps.                                                 *)
(*                                                                         *)
(* A process works under a lease only it holds, until the lease runs out   *)
(* under it: so many attempts of one delivery overlap as leases were lost, *)
(* and one more.                                                           *)
(***************************************************************************)
EXTENDS Webhooks, FiniteSetTheorems, TLAPS

\* As long as no lease ran out under a process, no two attempts overlap.
OneAttemptAtATime ==
  stalls = 0 => \A f, g \in flights : f.delivery = g.delivery => f = g

\* A delivery that may still be attempted has an attempt left.
AttemptsAreLeft ==
  \A d \in Queued : delivery[d].status \in {"pending", "failed"} => delivery[d].attempt < MaxAttempts

\* An attempt that was answered with success reached Sideout.
OkWasReceived == \A f \in flights : f.outcome = "ok" => delivery[f.delivery].event \in received

\* An attempt's number is at most one ahead of what its delivery counts.
FlightsFollow == \A f \in flights : f.attempt <= delivery[f.delivery].attempt + 1

\* As long as no lease ran out under a process, who attempts holds the lease.
FlightsHoldLeases ==
  stalls = 0 => \A f \in flights : delivery[f.delivery].lockedBy = f.by /\ delivery[f.delivery].live

IInv ==
  /\ TypeOK
  /\ AttemptsAreLeft
  /\ OkWasReceived
  /\ DeliveredWasReceived
  /\ AppliedOnce
  /\ FlightsFollow
  /\ AttemptsAreMade
  /\ FlightsHoldLeases
  /\ OneAttemptAtATime

-----------------------------------------------------------------------------
(* Lemmas.                                                                 *)

\* What a delivery row is made of.
LEMMA QueuedRow ==
  ASSUME TypeOK, NEW d \in Queued
  PROVE  /\ d \in Deliveries /\ delivery[d] \in Rows /\ delivery[d] # None
         /\ delivery[d].event \in Events /\ delivery[d].event <= emitted
         /\ delivery[d].status \in Statuses
         /\ delivery[d].attempt \in 0 .. MaxAttempts
         /\ delivery[d].live \in BOOLEAN
         /\ delivery[d].lockedBy \in Instances \cup {None, Gone}
BY DEF TypeOK, Queued, Rows

\* Recording an event and applying it are one step: whatever the event, it is
\* applied once.
LEMMA ReceiveAppliesOnce ==
  ASSUME TypeOK, AppliedOnce, NEW e \in 1 .. emitted, Receive(e)
  PROVE  /\ AppliedOnce'
         /\ applied' \in [Events -> Nat]
         /\ received' = received \cup {e} /\ received' \subseteq 1 .. emitted
         /\ mirror' \in {0} \cup received'
<1>1. e \in Events
  BY BoundsAssumption DEF TypeOK, Events
<1>2. applied \in [Events -> Nat] /\ received \subseteq 1 .. emitted /\ mirror \in {0} \cup received
  BY DEF TypeOK
<1>3. CASE e \in received
  BY <1>1, <1>2, <1>3 DEF AppliedOnce, Receive, Duplicate
<1>4. CASE e \notin received
  BY <1>1, <1>2, <1>4 DEF AppliedOnce, Receive, Duplicate
<1> QED
  BY <1>3, <1>4

\* A new delivery leaves the others as they are and starts from nothing.
LEMMA QueueAddsOne ==
  ASSUME IInv, NEW e \in Events, Queue(e), UNCHANGED <<log, flights, received, stalls>>,
         e <= emitted', emitted' \in Nat, emitted <= emitted'
  PROVE  /\ delivery' \in [Deliveries -> Rows \cup {None}]
         /\ Queued \subseteq Queued'
         /\ \A d \in Queued : delivery'[d] = delivery[d]
         /\ \A d \in Queued' \ Queued : delivery'[d] = NewDelivery(e)
         /\ \A d \in Queued' : delivery'[d].event <= emitted'
         /\ AttemptsAreLeft' /\ OkWasReceived' /\ DeliveredWasReceived' /\ FlightsFollow'
         /\ AttemptsAreMade' /\ FlightsHoldLeases' /\ OneAttemptAtATime'
<1> USE DEF IInv
<1>1. PICK c \in Deliveries \ Queued : delivery' = [delivery EXCEPT ![c] = NewDelivery(e)]
  BY DEF Queue
<1>2. NewDelivery(e) \in Rows /\ NewDelivery(e) # None
  <2>1. NewDelivery(e) \in Rows
    BY BoundsAssumption DEF NewDelivery, Rows, Statuses
  <2> QED
    BY <2>1, NamesAssumption
<1>3. /\ delivery' \in [Deliveries -> Rows \cup {None}]
      /\ Queued' = Queued \cup {c}
      /\ \A d \in Queued : delivery'[d] = delivery[d]
      /\ delivery'[c] = NewDelivery(e)
  BY <1>1, <1>2 DEF TypeOK, Queued
<1>4. \A f \in flights : f.delivery \in Queued
  BY DEF TypeOK
<1>5. \A d \in Queued' : delivery'[d].event <= emitted'
  BY <1>3, QueuedRow DEF NewDelivery, TypeOK, Events
<1>6. AttemptsAreLeft' /\ DeliveredWasReceived'
  BY <1>3, BoundsAssumption DEF AttemptsAreLeft, DeliveredWasReceived, NewDelivery
<1>7. AttemptsAreMade'
  BY <1>3 DEF AttemptsAreMade, NewDelivery
<1>8. OkWasReceived' /\ FlightsFollow' /\ FlightsHoldLeases' /\ OneAttemptAtATime'
  BY <1>3, <1>4 DEF OkWasReceived, FlightsFollow, FlightsHoldLeases, OneAttemptAtATime
<1> QED
  BY <1>3, <1>5, <1>6, <1>7, <1>8

-----------------------------------------------------------------------------
(* Every step preserves the invariant.                                     *)

\* A change writes a fresh row.
LEMMA EmitEventPreserves == IInv /\ EmitEvent => IInv'
<1> SUFFICES ASSUME IInv, EmitEvent PROVE IInv'
  OBVIOUS
<1> USE DEF IInv
<1>1. /\ emitted + 1 \in Events /\ emitted' = emitted + 1 /\ emitted \in Nat
  BY BoundsAssumption DEF EmitEvent, Events, TypeOK
<1>2. Queue(emitted + 1) /\ UNCHANGED <<enabled, sender, late, receiver, mishaps>>
  BY DEF EmitEvent
<1>3. /\ delivery' \in [Deliveries -> Rows \cup {None}]
      /\ Queued \subseteq Queued'
      /\ \A d \in Queued' : delivery'[d].event <= emitted'
      /\ AttemptsAreLeft' /\ OkWasReceived' /\ DeliveredWasReceived' /\ FlightsFollow'
      /\ AttemptsAreMade' /\ FlightsHoldLeases' /\ OneAttemptAtATime'
  BY <1>1, <1>2, QueueAddsOne DEF sender, receiver, mishaps
<1>4. emitted' \in 0 .. MaxEvents /\ 1 .. emitted \subseteq 1 .. emitted'
  BY <1>1, BoundsAssumption DEF Events
<1>5. TypeOK'
  BY <1>2, <1>3, <1>4 DEF TypeOK, sender, receiver, mishaps
<1>6. AppliedOnce'
  BY <1>2 DEF AppliedOnce, receiver
<1> QED
  BY <1>3, <1>5, <1>6

\* A replay adds a fresh row.
LEMMA ReplayDeliveryPreserves ==
  ASSUME IInv, NEW d \in Deliveries, ReplayDelivery(d)
  PROVE  IInv'
<1> USE DEF IInv
<1>1. delivery[d].event \in Events /\ delivery[d].event <= emitted /\ emitted \in Nat
  BY QueuedRow, BoundsAssumption DEF ReplayDelivery, TypeOK
<1>2. Queue(delivery[d].event) /\ UNCHANGED <<emitted, enabled, sender, late, receiver, mishaps>>
  BY DEF ReplayDelivery
<1>3. /\ delivery' \in [Deliveries -> Rows \cup {None}]
      /\ Queued \subseteq Queued'
      /\ \A c \in Queued' : delivery'[c].event <= emitted'
      /\ AttemptsAreLeft' /\ OkWasReceived' /\ DeliveredWasReceived' /\ FlightsFollow'
      /\ AttemptsAreMade' /\ FlightsHoldLeases' /\ OneAttemptAtATime'
  BY <1>1, <1>2, QueueAddsOne DEF sender, receiver, mishaps
<1>4. TypeOK' /\ AppliedOnce'
  BY <1>2, <1>3 DEF TypeOK, AppliedOnce, sender, receiver, mishaps
<1> QED
  BY <1>3, <1>4

\* Enabling or disabling the endpoint changes no row.
LEMMA UpdateEndpointPreserves == IInv /\ UpdateEndpoint => IInv'
BY DEF IInv, UpdateEndpoint, queue, sender, receiver, mishaps, TypeOK, Queued, AttemptsAreLeft,
       OkWasReceived, DeliveredWasReceived, AppliedOnce, FlightsFollow, AttemptsAreMade,
       FlightsHoldLeases, OneAttemptAtATime

\* A claim leases rows nobody works on and starts their next attempts.
LEMMA ClaimPreserves ==
  ASSUME IInv, NEW i \in Instances, NEW due \in SUBSET Deliveries, Claim(i, due)
  PROVE  IInv'
<1> USE DEF IInv
<1> DEFINE started(d) == [by |-> i, delivery |-> d, attempt |-> delivery[d].attempt + 1,
                          outcome |-> None, orphan |-> FALSE]
<1>1. \A d \in due : /\ d \in Queued /\ ~delivery[d].live
                     /\ delivery[d].status \in {"pending", "failed"}
  BY DEF Claim, Claimable
<1>2. /\ flights' = flights \cup {started(d) : d \in due}
      /\ UNCHANGED <<emitted, enabled, log, late, receiver, mishaps>>
  BY DEF Claim
<1>3. /\ delivery' \in [Deliveries -> Rows \cup {None}]
      /\ Queued' = Queued
      /\ \A d \in Queued : /\ delivery'[d].event = delivery[d].event
                           /\ delivery'[d].status = delivery[d].status
                           /\ delivery'[d].attempt = delivery[d].attempt
      /\ \A d \in Queued \ due : delivery'[d] = delivery[d]
      /\ \A d \in due : delivery'[d].lockedBy = i /\ delivery'[d].live
  <2>1. \A d \in due : /\ [delivery[d] EXCEPT !.lockedBy = i, !.live = TRUE] \in Rows
                       /\ [delivery[d] EXCEPT !.lockedBy = i, !.live = TRUE] # None
    BY <1>1, QueuedRow, NamesAssumption DEF Rows
  <2> QED
    BY <1>1, <2>1, QueuedRow DEF Claim, TypeOK, Queued, Rows
<1>4. \A d \in due : delivery[d].attempt + 1 \in 1 .. MaxAttempts
  BY <1>1, QueuedRow, BoundsAssumption DEF AttemptsAreLeft
<1>5. TypeOK'
  <2>1. \A d \in due : started(d) \in Flights /\ started(d).delivery = d
    BY <1>4 DEF Flights
  <2>2. flights' \subseteq Flights /\ \A f \in flights' : f.delivery \in Queued'
    <3> HIDE DEF started
    <3> QED
      BY <1>1, <1>2, <1>3, <2>1 DEF TypeOK
  <2>3. \A d \in Queued' : delivery'[d].event <= emitted'
    BY <1>2, <1>3 DEF TypeOK
  <2> QED
    BY <1>2, <1>3, <2>2, <2>3 DEF TypeOK, receiver, mishaps
<1>6. AttemptsAreLeft' /\ DeliveredWasReceived' /\ AttemptsAreMade' /\ AppliedOnce'
  BY <1>2, <1>3 DEF AttemptsAreLeft, DeliveredWasReceived, AttemptsAreMade, AppliedOnce, receiver
<1>7. OkWasReceived' /\ FlightsFollow'
  BY <1>1, <1>2, <1>3, <1>4, NamesAssumption DEF OkWasReceived, FlightsFollow, receiver, TypeOK, Outcomes
<1>8. stalls = 0 => \A f \in flights : f.delivery \notin due
  BY <1>1 DEF FlightsHoldLeases
<1>9. FlightsHoldLeases'
  BY <1>1, <1>2, <1>3, <1>8 DEF FlightsHoldLeases, mishaps, TypeOK
<1>10. OneAttemptAtATime'
  <2> SUFFICES ASSUME stalls = 0, NEW f \in flights', NEW g \in flights', f.delivery = g.delivery
               PROVE  f = g
    BY <1>2 DEF OneAttemptAtATime, mishaps
  <2>1. \A h \in flights' : h \in flights \/ (h.delivery \in due /\ h = started(h.delivery))
    BY <1>2
  <2> QED
    BY <1>8, <2>1 DEF OneAttemptAtATime
<1> QED
  BY <1>5, <1>6, <1>7, <1>9, <1>10

\* A request is answered, or not: only a success says that it arrived.
LEMMA PostPreserves ==
  ASSUME IInv, NEW f \in flights, Post(f)
  PROVE  IInv'
<1> USE DEF IInv
<1> DEFINE e == delivery[f.delivery].event
<1>1. f.delivery \in Queued /\ e \in 1 .. emitted /\ emitted \in Nat
  BY QueuedRow, BoundsAssumption DEF TypeOK, Events
<1>2. UNCHANGED <<queue, enabled, log, mishaps>>
  BY DEF Post
<1>3. PICK outcome \in Outcomes : /\ flights' = (flights \ {f}) \cup {Answer(f, outcome)}
                                  /\ Receive(e) \/ (UNCHANGED receiver /\ outcome # "ok")
                                  /\ late' \subseteq late \cup {e}
  BY DEF Post, Outcomes
<1> DEFINE answered == Answer(f, outcome)
<1>4. /\ f \in Flights /\ answered \in Flights
      /\ answered.by = f.by /\ answered.delivery = f.delivery /\ answered.attempt = f.attempt
      /\ answered.outcome = outcome
  BY DEF TypeOK, Flights, Answer
<1>5. flights' = (flights \ {f}) \cup {answered}
  BY <1>3
<1> HIDE DEF answered
<1>6. /\ applied' \in [Events -> Nat] /\ received \subseteq received' /\ received' \subseteq 1 .. emitted
      /\ mirror' \in {0} \cup received'
      /\ AppliedOnce'
      /\ outcome = "ok" => e \in received'
  <2>1. CASE Receive(e)
    BY <1>1, <2>1, ReceiveAppliesOnce DEF TypeOK
  <2>2. CASE UNCHANGED receiver /\ outcome # "ok"
    BY <2>2 DEF TypeOK, AppliedOnce, receiver
  <2> QED
    BY <1>3, <2>1, <2>2
<1>7. TypeOK'
  <2>1. flights' \subseteq Flights /\ \A g \in flights' : g.delivery \in Queued'
    BY <1>1, <1>2, <1>4, <1>5 DEF TypeOK, queue, Queued
  <2>2. late' \subseteq 1 .. emitted'
    BY <1>1, <1>2, <1>3 DEF TypeOK, queue
  <2> QED
    BY <1>2, <1>6, <2>1, <2>2 DEF TypeOK, queue, mishaps, Queued
<1>8. AttemptsAreLeft' /\ DeliveredWasReceived' /\ AttemptsAreMade'
  BY <1>2, <1>6 DEF AttemptsAreLeft, DeliveredWasReceived, AttemptsAreMade, queue, Queued
<1>9. OkWasReceived'
  BY <1>2, <1>6, <1>4, <1>5 DEF OkWasReceived, queue
<1>10. FlightsFollow' /\ FlightsHoldLeases'
  BY <1>2, <1>4, <1>5 DEF FlightsFollow, FlightsHoldLeases, queue, mishaps
<1>11. OneAttemptAtATime'
  BY <1>2, <1>4, <1>5 DEF OneAttemptAtATime, mishaps
<1> QED
  BY <1>6, <1>7, <1>8, <1>9, <1>10, <1>11

\* A request that arrives after its timeout reaches the receiver all the same.
LEMMA ArriveLatePreserves ==
  ASSUME IInv, NEW e \in Events, ArriveLate(e)
  PROVE  IInv'
<1> USE DEF IInv
<1>1. e \in 1 .. emitted /\ Receive(e) /\ late' \subseteq late
  BY DEF ArriveLate, TypeOK
<1>2. UNCHANGED <<queue, enabled, sender, mishaps>>
  BY DEF ArriveLate
<1>3. /\ applied' \in [Events -> Nat] /\ received \subseteq received' /\ received' \subseteq 1 .. emitted
      /\ mirror' \in {0} \cup received'
      /\ AppliedOnce'
  BY <1>1, ReceiveAppliesOnce
<1>4. TypeOK'
  BY <1>1, <1>2, <1>3 DEF TypeOK, queue, sender, mishaps, Queued
<1>5. AttemptsAreLeft' /\ DeliveredWasReceived' /\ AttemptsAreMade' /\ OkWasReceived'
  BY <1>2, <1>3 DEF AttemptsAreLeft, DeliveredWasReceived, AttemptsAreMade, OkWasReceived, queue, sender, Queued
<1>6. FlightsFollow' /\ FlightsHoldLeases' /\ OneAttemptAtATime'
  BY <1>2 DEF FlightsFollow, FlightsHoldLeases, OneAttemptAtATime, queue, sender, mishaps
<1> QED
  BY <1>3, <1>4, <1>5, <1>6

\* What is left of a process's cycle when one of its flights throws.
LEMMA RejectsKeepsTheRest ==
  ASSUME TypeOK, NEW f \in flights, Rejects(f)
  PROVE  /\ flights' \subseteq Flights
         /\ \A g \in flights' : \E h \in flights \ {f} :
              /\ g.by = h.by /\ g.delivery = h.delivery
              /\ g.attempt = h.attempt /\ g.outcome = h.outcome
         /\ OneAttemptAtATime /\ stalls' = stalls => OneAttemptAtATime'
<1> DEFINE left(g) == IF g.by = f.by /\ ~f.orphan THEN [g EXCEPT !.orphan = TRUE] ELSE g
<1>1. flights' = {left(g) : g \in flights \ {f}}
  BY DEF Rejects
<1>2. \A g \in flights : /\ left(g) \in Flights
                         /\ left(g).by = g.by /\ left(g).delivery = g.delivery
                         /\ left(g).attempt = g.attempt /\ left(g).outcome = g.outcome
  BY DEF TypeOK, Flights
<1> HIDE DEF left
<1> QED
  BY <1>1, <1>2 DEF OneAttemptAtATime

\* An attempt that throws before it is recorded leaves its row leased.
LEMMA ThrowPreserves ==
  ASSUME IInv, NEW f \in flights, Throw(f)
  PROVE  IInv'
<1> USE DEF IInv
<1>1. UNCHANGED <<queue, enabled, log, late, receiver>> /\ Rejects(f)
  BY DEF Throw
<1>2. stalls' = stalls /\ faults' \in Nat /\ faults' + stalls' <= MaxMishaps
  BY BoundsAssumption DEF Throw, Fault, TypeOK
<1>3. /\ flights' \subseteq Flights
      /\ \A g \in flights' : \E h \in flights :
           /\ g.by = h.by /\ g.delivery = h.delivery
           /\ g.attempt = h.attempt /\ g.outcome = h.outcome
      /\ OneAttemptAtATime'
  BY <1>1, <1>2, RejectsKeepsTheRest
<1>4. TypeOK'
  BY <1>1, <1>2, <1>3 DEF TypeOK, queue, receiver, Queued
<1>5. AttemptsAreLeft' /\ DeliveredWasReceived' /\ AttemptsAreMade' /\ AppliedOnce'
  BY <1>1 DEF AttemptsAreLeft, DeliveredWasReceived, AttemptsAreMade, AppliedOnce, queue, receiver, Queued
<1>6. OkWasReceived' /\ FlightsFollow' /\ FlightsHoldLeases'
  BY <1>1, <1>2, <1>3 DEF OkWasReceived, FlightsFollow, FlightsHoldLeases, queue, receiver
<1> QED
  BY <1>3, <1>4, <1>5, <1>6

\* A process that crashes leaves its rows to their leases.
LEMMA CrashPreserves ==
  ASSUME IInv, NEW i \in Instances, Crash(i)
  PROVE  IInv'
<1> USE DEF IInv
<1>1. /\ flights' = {f \in flights : f.by # i}
      /\ UNCHANGED <<emitted, enabled, log, late, receiver>>
  BY DEF Crash
<1>2. stalls' = stalls /\ faults' \in Nat /\ faults' + stalls' <= MaxMishaps
  BY BoundsAssumption DEF Crash, Fault, TypeOK
<1>3. /\ delivery' \in [Deliveries -> Rows \cup {None}]
      /\ Queued' = Queued
      /\ \A d \in Queued : /\ delivery'[d].event = delivery[d].event
                           /\ delivery'[d].status = delivery[d].status
                           /\ delivery'[d].attempt = delivery[d].attempt
                           /\ delivery'[d].live = delivery[d].live
                           /\ delivery[d].lockedBy # i => delivery'[d].lockedBy = delivery[d].lockedBy
  <2>1. \A d \in Queued : /\ [delivery[d] EXCEPT !.lockedBy = Gone] \in Rows
                          /\ [delivery[d] EXCEPT !.lockedBy = Gone] # None
    BY QueuedRow, NamesAssumption DEF Rows
  <2> QED
    BY <2>1, QueuedRow DEF Crash, TypeOK, Queued, Rows
<1>4. TypeOK'
  BY <1>1, <1>2, <1>3 DEF TypeOK, receiver
<1>5. AttemptsAreLeft' /\ DeliveredWasReceived' /\ AttemptsAreMade' /\ AppliedOnce'
  BY <1>1, <1>3 DEF AttemptsAreLeft, DeliveredWasReceived, AttemptsAreMade, AppliedOnce, receiver
<1>6. OkWasReceived' /\ FlightsFollow' /\ OneAttemptAtATime'
  BY <1>1, <1>2, <1>3 DEF OkWasReceived, FlightsFollow, OneAttemptAtATime, receiver, TypeOK
<1>7. FlightsHoldLeases'
  BY <1>1, <1>2, <1>3 DEF FlightsHoldLeases, TypeOK
<1> QED
  BY <1>4, <1>5, <1>6, <1>7

\* A lease runs out under nobody, or under a process: then it counts as a stall.
LEMMA LeaseExpiresPreserves ==
  ASSUME IInv, NEW d \in Deliveries, LeaseExpires(d)
  PROVE  IInv'
<1> USE DEF IInv
<1>1. d \in Queued /\ UNCHANGED <<emitted, enabled, sender, late, receiver>>
  BY DEF LeaseExpires, Expires
<1>2. /\ faults' \in Nat /\ stalls' \in Nat /\ faults' + stalls' <= MaxMishaps
      /\ stalls' = 0 => stalls = 0 /\ ~Attended(d)
  BY BoundsAssumption DEF LeaseExpires, Stall, mishaps, TypeOK
<1>3. /\ delivery' \in [Deliveries -> Rows \cup {None}]
      /\ Queued' = Queued
      /\ \A c \in Queued : /\ delivery'[c].event = delivery[c].event
                           /\ delivery'[c].status = delivery[c].status
                           /\ delivery'[c].attempt = delivery[c].attempt
                           /\ delivery'[c].lockedBy = delivery[c].lockedBy
                           /\ c # d => delivery'[c] = delivery[c]
  <2>1. delivery' = [delivery EXCEPT ![d] = [delivery[d] EXCEPT !.live = FALSE]]
    BY DEF LeaseExpires, Expires
  <2>2. [delivery[d] EXCEPT !.live = FALSE] \in Rows /\ [delivery[d] EXCEPT !.live = FALSE] # None
    BY <1>1, QueuedRow, NamesAssumption DEF Rows
  <2> QED
    BY <1>1, <2>1, <2>2, QueuedRow DEF TypeOK, Queued, Rows
<1>4. TypeOK'
  BY <1>1, <1>2, <1>3 DEF TypeOK, sender, receiver
<1>5. AttemptsAreLeft' /\ DeliveredWasReceived' /\ AttemptsAreMade' /\ AppliedOnce'
  BY <1>1, <1>3 DEF AttemptsAreLeft, DeliveredWasReceived, AttemptsAreMade, AppliedOnce, sender, receiver
<1>6. OkWasReceived' /\ FlightsFollow' /\ OneAttemptAtATime'
  BY <1>1, <1>2, <1>3 DEF OkWasReceived, FlightsFollow, OneAttemptAtATime, sender, receiver, TypeOK
<1>7. FlightsHoldLeases'
  <2> SUFFICES ASSUME stalls' = 0, NEW f \in flights
               PROVE  delivery'[f.delivery].lockedBy = f.by /\ delivery'[f.delivery].live
    BY <1>1 DEF FlightsHoldLeases, sender
  <2>1. f.delivery \in Queued /\ delivery[f.delivery].lockedBy = f.by /\ delivery[f.delivery].live
    BY <1>2 DEF FlightsHoldLeases, TypeOK
  <2>2. f.delivery # d
    BY <1>2, <2>1 DEF Attended
  <2> QED
    BY <1>3, <2>1, <2>2
<1> QED
  BY <1>4, <1>5, <1>6, <1>7

\* A recording that the guard refuses changes no row; any other writes the
\* attempt's row and, under its lease, the delivery's.
LEMMA RecordPreserves ==
  ASSUME IInv, NEW f \in flights, Record(f)
  PROVE  IInv'
<1> USE DEF IInv
<1> DEFINE d == f.delivery
           row == delivery[d]
           held == row.lockedBy = f.by
<1>1. UNCHANGED <<emitted, enabled, late, receiver, mishaps>> /\ f.outcome # None
  BY DEF Record
<1>2. f \in Flights /\ d \in Queued /\ f.attempt \in 1 .. MaxAttempts /\ f.outcome \in Outcomes
  BY <1>1 DEF TypeOK, Flights
<1>3. CASE held /\ ~GuardAllows(row, f)
  <2>1. Rejects(f) /\ UNCHANGED <<log, delivery>>
    BY <1>3 DEF Record
  <2>2. /\ flights' \subseteq Flights
        /\ \A g \in flights' : \E h \in flights :
             /\ g.by = h.by /\ g.delivery = h.delivery
             /\ g.attempt = h.attempt /\ g.outcome = h.outcome
        /\ OneAttemptAtATime'
    BY <1>1, <2>1, RejectsKeepsTheRest DEF mishaps
  <2>3. TypeOK'
    BY <1>1, <2>1, <2>2 DEF TypeOK, receiver, mishaps, Queued
  <2>4. AttemptsAreLeft' /\ DeliveredWasReceived' /\ AttemptsAreMade' /\ AppliedOnce'
    BY <1>1, <2>1 DEF AttemptsAreLeft, DeliveredWasReceived, AttemptsAreMade, AppliedOnce, receiver, Queued
  <2>5. OkWasReceived' /\ FlightsFollow' /\ FlightsHoldLeases'
    BY <1>1, <2>1, <2>2 DEF OkWasReceived, FlightsFollow, FlightsHoldLeases, receiver, mishaps
  <2> QED
    BY <2>2, <2>3, <2>4, <2>5
<1>4. CASE ~(held /\ ~GuardAllows(row, f))
  <2>1. flights' = flights \ {f} /\ Logged(f) /\ Settled(f)
    BY <1>4 DEF Record
  <2>2. /\ DOMAIN log' = Deliveries
        /\ \A c \in Deliveries : DOMAIN log[c] \subseteq DOMAIN log'[c] /\ DOMAIN log'[c] \subseteq 1 .. MaxAttempts
        /\ f.attempt \in DOMAIN log'[d]
    BY <1>2, <2>1, QueuedRow DEF Logged, TypeOK
  <2>3. /\ StatusAfter(f) \in {"delivered", "dead", "failed"}
        /\ StatusAfter(f) = "delivered" => f.outcome = "ok"
        /\ StatusAfter(f) = "dead" => f.attempt = MaxAttempts
        /\ StatusAfter(f) = "failed" => f.attempt < MaxAttempts
    BY <1>2, BoundsAssumption DEF StatusAfter, Succeeded, Exhausted
  <2>4. /\ delivery' \in [Deliveries -> Rows \cup {None}]
        /\ Queued' = Queued
        /\ \A c \in Queued : delivery'[c].event = delivery[c].event
        /\ \A c \in Queued \ {d} : delivery'[c] = delivery[c]
        /\ \/ held /\ delivery'[d].attempt = f.attempt /\ delivery'[d].status = StatusAfter(f)
              /\ f.attempt >= row.attempt
           \/ ~held /\ delivery' = delivery
    <3>1. CASE ~held
      BY <2>1, <3>1, <1>2, QueuedRow DEF Settled, TypeOK, Queued
    <3>2. CASE held
      <4> DEFINE new == [row EXCEPT !.attempt = f.attempt, !.status = StatusAfter(f),
                                    !.lockedBy = None, !.live = FALSE]
      <4>1. /\ new \in Rows /\ new # None /\ new.event = row.event
            /\ new.attempt = f.attempt /\ new.status = StatusAfter(f)
        <5>1. row \in Rows /\ f.attempt \in 0 .. MaxAttempts /\ StatusAfter(f) \in Statuses
          BY <1>2, <2>3, QueuedRow DEF Statuses
        <5> HIDE DEF row, d
        <5>2. /\ new \in Rows /\ new.event = row.event
              /\ new.attempt = f.attempt /\ new.status = StatusAfter(f)
          BY <5>1 DEF Rows
        <5> QED
          BY <5>2, NamesAssumption
      <4>2. delivery' = [delivery EXCEPT ![d] = new]
        BY <2>1, <3>2, <1>2, QueuedRow DEF Settled, TypeOK
      <4> HIDE DEF new
      <4>3. f.attempt >= row.attempt
        BY <1>4, <3>2 DEF GuardAllows
      <4> QED
        BY <4>1, <4>2, <4>3, <3>2, <1>2, QueuedRow DEF TypeOK, Queued
    <3> QED
      BY <3>1, <3>2
  <2>5. TypeOK'
    BY <1>1, <2>1, <2>2, <2>4 DEF TypeOK, receiver, mishaps
  <2>6. AppliedOnce'
    BY <1>1 DEF AppliedOnce, receiver
  <2>7. AttemptsAreLeft'
    BY <2>3, <2>4 DEF AttemptsAreLeft
  <2>8. DeliveredWasReceived'
    BY <1>1, <2>3, <2>4 DEF DeliveredWasReceived, OkWasReceived, receiver
  <2>9. AttemptsAreMade'
    <3> SUFFICES ASSUME NEW c \in Queued
                 PROVE  /\ 1 .. delivery'[c].attempt \subseteq DOMAIN log'[c]
                        /\ delivery'[c].status = "dead" => delivery'[c].attempt = MaxAttempts
      BY <2>4 DEF AttemptsAreMade
    <3>1. CASE delivery'[c] = delivery[c]
      BY <2>2, <3>1, QueuedRow DEF AttemptsAreMade
    <3>2. CASE c = d /\ delivery'[d].attempt = f.attempt /\ delivery'[d].status = StatusAfter(f)
      <4>1. f.attempt <= row.attempt + 1 /\ row.attempt \in Nat
        BY <1>2, QueuedRow DEF FlightsFollow
      <4>2. 1 .. row.attempt \subseteq DOMAIN log'[d]
        BY <1>2, <2>2, QueuedRow DEF AttemptsAreMade
      <4>3. 1 .. f.attempt \subseteq DOMAIN log'[d]
        BY <1>2, <2>2, <4>1, <4>2
      <4> QED
        BY <2>3, <3>2, <4>3
    <3> QED
      BY <2>4, <3>1, <3>2
  <2>10. OkWasReceived'
    BY <1>1, <2>1, <2>4 DEF OkWasReceived, receiver, TypeOK
  <2>11. FlightsFollow'
    <3> SUFFICES ASSUME NEW g \in flights, g # f
                 PROVE  g.attempt <= delivery'[g.delivery].attempt + 1
      BY <2>1 DEF FlightsFollow
    <3>1. /\ g.delivery \in Queued /\ g.attempt \in Nat
          /\ g.attempt <= delivery[g.delivery].attempt + 1 /\ delivery[g.delivery].attempt \in Nat
      BY QueuedRow DEF FlightsFollow, TypeOK, Flights
    <3> QED
      BY <1>2, <2>4, <3>1
  <2>12. FlightsHoldLeases'
    BY <1>1, <1>2, <2>1, <2>4 DEF FlightsHoldLeases, OneAttemptAtATime, mishaps, TypeOK
  <2>13. OneAttemptAtATime'
    BY <1>1, <2>1 DEF OneAttemptAtATime, mishaps
  <2> QED
    BY <2>5, <2>6, <2>7, <2>8, <2>9, <2>10, <2>11, <2>12, <2>13
<1> QED
  BY <1>3, <1>4

-----------------------------------------------------------------------------
(* How many attempts of one delivery overlap.                              *)

\* The attempts of a delivery in flight.
Working(d) == {f \in flights : f.delivery = d}

\* The lease of a delivery keeps others out, and someone works under it.
Leased(d) == delivery[d].live /\ Attended(d)

\* One attempt works under the lease; every other one had its lease run out
\* under it.
Overlap(d) ==
  /\ IsFiniteSet(Working(d))
  /\ Cardinality(Working(d)) <= stalls + (IF Leased(d) THEN 1 ELSE 0)

OverlapInv == \A d \in Queued : Overlap(d)

\* Attempts end or go on: the lease is given up only with one of them.
LEMMA OverlapFalls ==
  ASSUME TypeOK, NEW d, Overlap(d), stalls' = stalls,
         IsFiniteSet(Working(d)'), NEW W \in SUBSET Working(d),
         Cardinality(Working(d)') <= Cardinality(W),
         W # Working(d) \/ (Leased(d) => Leased(d)')
  PROVE  Overlap(d)'
<1> DEFINE S == Working(d)
           T == Working(d)'
<1>1. /\ IsFiniteSet(W) /\ Cardinality(W) <= Cardinality(S)
      /\ Cardinality(S) = Cardinality(W) => S = W
  BY FS_Subset DEF Overlap
<1>2. Cardinality(S) \in Nat /\ Cardinality(W) \in Nat /\ Cardinality(T) \in Nat
  BY <1>1, FS_CardinalityType DEF Overlap
<1>3. stalls \in Nat /\ stalls' = stalls /\ Cardinality(S) <= stalls + (IF Leased(d) THEN 1 ELSE 0)
  BY DEF TypeOK, Overlap
<1>4. Cardinality(T) <= Cardinality(W) /\ IsFiniteSet(T)
  OBVIOUS
<1>5. CASE W # S
  <2>1. Cardinality(W) <= stalls
    BY <1>1, <1>2, <1>3, <1>5
  <2> QED
    BY <1>2, <1>3, <1>4, <2>1 DEF Overlap
<1>6. CASE Leased(d) => Leased(d)'
  <2>1. Cardinality(T) <= stalls + (IF Leased(d) THEN 1 ELSE 0)
    BY <1>1, <1>2, <1>3, <1>4
  <2> QED
    BY <1>2, <1>3, <1>4, <1>6, <2>1 DEF Overlap
<1> QED
  BY <1>5, <1>6

\* Some attempts end and the others stay as they are.
LEMMA OverlapEnds ==
  ASSUME TypeOK, NEW d, Overlap(d), stalls' = stalls, flights' \subseteq flights,
         Working(d)' # Working(d) \/ (Leased(d) => Leased(d)')
  PROVE  Overlap(d)'
<1>1. Working(d)' \in SUBSET Working(d)
  BY DEF Working
<1>2. IsFiniteSet(Working(d)')
  BY <1>1, FS_Subset DEF Overlap
<1>3. Cardinality(Working(d)') <= Cardinality(Working(d)')
  BY <1>2, FS_CardinalityType
<1> QED
  BY <1>1, <1>2, <1>3, OverlapFalls

\* A flight that throws ends, and the rest of its cycle flies on.
LEMMA OverlapRejects ==
  ASSUME TypeOK, OverlapInv, NEW f \in flights, Rejects(f), UNCHANGED <<delivery, stalls>>
  PROVE  OverlapInv'
<1> SUFFICES ASSUME NEW d \in Queued PROVE Overlap(d)'
  BY DEF OverlapInv, Queued
<1> DEFINE left(g) == IF g.by = f.by /\ ~f.orphan THEN [g EXCEPT !.orphan = TRUE] ELSE g
           W == Working(d) \ {f}
<1>1. flights' = {left(g) : g \in flights \ {f}}
  BY DEF Rejects
<1>2. \A g \in flights : left(g).by = g.by /\ left(g).delivery = g.delivery
  BY DEF TypeOK, Flights
<1> HIDE DEF left
<1>3. Working(d)' = {left(g) : g \in W}
  BY <1>1, <1>2 DEF Working
<1>4. Overlap(d)
  BY DEF OverlapInv
<1>5. IsFiniteSet(W) /\ W \in SUBSET Working(d)
  BY <1>4, FS_Subset DEF Overlap
<1>6. IsFiniteSet(Working(d)') /\ Cardinality(Working(d)') <= Cardinality(W)
  <2> DEFINE T == {left(g) : g \in W}
             h == [g \in W |-> left(g)]
  <2>1. h \in Surjection(W, T)
    BY DEF Surjection
  <2> HIDE DEF T, h, W
  <2>2. IsFiniteSet(T) /\ Cardinality(T) <= Cardinality(W)
    BY <1>5, <2>1, FS_Surjection
  <2> QED
    BY <1>3, <2>2 DEF T
<1>7. W # Working(d) \/ (Leased(d) => Leased(d)')
  BY <1>1, <1>2 DEF Working, Leased, Attended
<1> HIDE DEF W
<1> QED
  BY <1>4, <1>5, <1>6, <1>7, OverlapFalls

\* A claim adds one attempt to rows whose lease keeps nobody out.
LEMMA OverlapClaims ==
  ASSUME TypeOK, OverlapInv, NEW i \in Instances, NEW due \in SUBSET Deliveries, Claim(i, due)
  PROVE  OverlapInv'
<1> DEFINE started(d) == [by |-> i, delivery |-> d, attempt |-> delivery[d].attempt + 1,
                          outcome |-> None, orphan |-> FALSE]
<1>1. /\ \A d \in due : d \in Queued /\ ~delivery[d].live
      /\ flights' = flights \cup {started(d) : d \in due}
      /\ stalls' = stalls
  BY DEF Claim, Claimable, mishaps
<1>2. /\ \A d \in Queued : d \notin due => delivery'[d] = delivery[d]
      /\ \A d \in due : delivery'[d].lockedBy = i /\ delivery'[d].live
      /\ Queued' = Queued
  <2>1. \A d \in due : /\ [delivery[d] EXCEPT !.lockedBy = i, !.live = TRUE] \in Rows
                       /\ [delivery[d] EXCEPT !.lockedBy = i, !.live = TRUE] # None
    BY <1>1, QueuedRow, NamesAssumption DEF Rows
  <2> QED
    BY <1>1, <2>1, QueuedRow DEF Claim, TypeOK, Queued, Rows
<1>3. \A d : started(d).delivery = d /\ started(d).by = i
  OBVIOUS
<1> SUFFICES ASSUME NEW d \in Queued PROVE Overlap(d)'
  BY <1>2 DEF OverlapInv
<1>4. Overlap(d) /\ stalls \in Nat
  BY DEF OverlapInv, TypeOK
<1> HIDE DEF started
<1>5. CASE d \notin due
  <2>1. Working(d)' = Working(d)
    BY <1>1, <1>3, <1>5 DEF Working
  <2>2. Leased(d) => Leased(d)'
    BY <1>1, <1>2, <1>5 DEF Leased, Attended
  <2>3. Cardinality(Working(d)) \in Nat
    BY <1>4, FS_CardinalityType DEF Overlap
  <2> QED
    BY <1>1, <1>4, <2>1, <2>2, <2>3 DEF Overlap
<1>6. CASE d \in due
  <2>1. Working(d)' = Working(d) \cup {started(d)}
    BY <1>1, <1>3, <1>6 DEF Working
  <2>2. IsFiniteSet(Working(d)) /\ Cardinality(Working(d)) \in Nat /\ Cardinality(Working(d)) <= stalls
    BY <1>1, <1>4, <1>6, FS_CardinalityType DEF Overlap, Leased
  <2>3. /\ IsFiniteSet(Working(d) \cup {started(d)})
        /\ Cardinality(Working(d) \cup {started(d)}) \in {Cardinality(Working(d)), Cardinality(Working(d)) + 1}
    BY <2>2, FS_AddElement
  <2>4. Leased(d)'
    BY <1>1, <1>2, <1>3, <1>6 DEF Leased, Attended
  <2> QED
    BY <1>1, <1>4, <2>1, <2>2, <2>3, <2>4 DEF Overlap
<1> QED
  BY <1>5, <1>6

\* An attempt that has its answer is still the one attempt.
LEMMA OverlapPosts ==
  ASSUME TypeOK, OverlapInv, NEW f \in flights, Post(f)
  PROVE  OverlapInv'
<1>1. UNCHANGED <<delivery, stalls>>
  BY DEF Post, queue, mishaps
<1>2. PICK outcome : flights' = (flights \ {f}) \cup {Answer(f, outcome)}
  BY DEF Post
<1>3. Answer(f, outcome).by = f.by /\ Answer(f, outcome).delivery = f.delivery
  BY DEF TypeOK, Flights, Answer
<1> SUFFICES ASSUME NEW d \in Queued PROVE Overlap(d)'
  BY <1>1 DEF OverlapInv, Queued
<1>4. Overlap(d) /\ Working(d) \in SUBSET Working(d)
  BY DEF OverlapInv
<1>5. Leased(d) => Leased(d)'
  BY <1>1, <1>2, <1>3 DEF Leased, Attended
<1>6. IsFiniteSet(Working(d)') /\ Cardinality(Working(d)') <= Cardinality(Working(d))
  <2> DEFINE W == Working(d) \ {f}
             a == Answer(f, outcome)
  <2>1. CASE f.delivery # d
    <3>1. Working(d)' = Working(d)
      BY <1>2, <1>3, <2>1 DEF Working
    <3> QED
      BY <1>4, <3>1, FS_CardinalityType DEF Overlap
  <2>2. CASE f.delivery = d
    <3>1. Working(d)' = W \cup {a} /\ f \in Working(d)
      BY <1>2, <1>3, <2>2 DEF Working
    <3>2. IsFiniteSet(W) /\ Cardinality(W) = Cardinality(Working(d)) - 1
      BY <1>4, <3>1, FS_RemoveElement DEF Overlap
    <3> HIDE DEF W, a
    <3>3. /\ IsFiniteSet(W \cup {a})
          /\ Cardinality(W \cup {a}) \in {Cardinality(W), Cardinality(W) + 1}
      BY <3>2, FS_AddElement
    <3>4. Cardinality(Working(d)) \in Nat
      BY <1>4, FS_CardinalityType DEF Overlap
    <3> QED
      BY <3>1, <3>2, <3>3, <3>4
  <2> QED
    BY <2>1, <2>2
<1> QED
  BY <1>1, <1>4, <1>5, <1>6, OverlapFalls

\* A process that crashes takes its attempts with it.
LEMMA OverlapCrashes ==
  ASSUME TypeOK, OverlapInv, NEW i \in Instances, Crash(i)
  PROVE  OverlapInv'
<1>1. flights' = {f \in flights : f.by # i} /\ stalls' = stalls
  BY DEF Crash, Fault
<1>2. /\ Queued' = Queued
      /\ \A d \in Queued : /\ delivery'[d].live = delivery[d].live
                           /\ delivery[d].lockedBy # i => delivery'[d].lockedBy = delivery[d].lockedBy
  <2>1. \A d \in Queued : /\ [delivery[d] EXCEPT !.lockedBy = Gone] \in Rows
                          /\ [delivery[d] EXCEPT !.lockedBy = Gone] # None
    BY QueuedRow, NamesAssumption DEF Rows
  <2> QED
    BY <2>1, QueuedRow DEF Crash, TypeOK, Queued, Rows
<1> SUFFICES ASSUME NEW d \in Queued PROVE Overlap(d)'
  BY <1>2 DEF OverlapInv
<1>3. Working(d)' # Working(d) \/ (Leased(d) => Leased(d)')
  BY <1>1, <1>2 DEF Working, Leased, Attended
<1> QED
  BY <1>1, <1>3, OverlapEnds DEF OverlapInv

\* A lease that runs out under a process is a stall, and lets one more in.
LEMMA OverlapExpires ==
  ASSUME TypeOK, OverlapInv, NEW c \in Deliveries, LeaseExpires(c)
  PROVE  OverlapInv'
<1>1. c \in Queued /\ UNCHANGED flights
  BY DEF LeaseExpires, Expires, sender
<1>2. /\ stalls \in Nat /\ stalls' \in Nat
      /\ \/ stalls' = stalls /\ ~Attended(c)
         \/ stalls' = stalls + 1
  BY DEF LeaseExpires, Stall, mishaps, TypeOK
<1>3. Queued' = Queued /\ \A d \in Queued : d # c => delivery'[d] = delivery[d]
  <2>1. delivery' = [delivery EXCEPT ![c] = [delivery[c] EXCEPT !.live = FALSE]]
    BY DEF LeaseExpires, Expires
  <2>2. [delivery[c] EXCEPT !.live = FALSE] # None
    <3>1. [delivery[c] EXCEPT !.live = FALSE] \in Rows
      BY <1>1, QueuedRow DEF Rows
    <3> QED
      BY <3>1, NamesAssumption
  <2> QED
    BY <1>1, <2>1, <2>2 DEF TypeOK, Queued
<1> SUFFICES ASSUME NEW d \in Queued PROVE Overlap(d)'
  BY <1>3 DEF OverlapInv
<1>4. Overlap(d) /\ Cardinality(Working(d)) \in Nat /\ Working(d)' = Working(d)
  BY <1>1, FS_CardinalityType DEF OverlapInv, Overlap, Working
<1>5. CASE stalls' = stalls + 1
  <2>1. Cardinality(Working(d)) <= stalls + 1
    BY <1>2, <1>4 DEF Overlap
  <2> QED
    BY <1>2, <1>4, <1>5, <2>1 DEF Overlap
<1>6. CASE stalls' = stalls /\ ~Attended(c)
  <2>1. Leased(d) => Leased(d)'
    BY <1>1, <1>3, <1>6 DEF Leased, Attended
  <2> QED
    BY <1>2, <1>4, <1>6, <2>1 DEF Overlap
<1> QED
  BY <1>2, <1>5, <1>6

\* A recording ends its attempt, and gives up the lease only of its process.
LEMMA OverlapRecords ==
  ASSUME TypeOK, OverlapInv, NEW f \in flights, Record(f)
  PROVE  OverlapInv'
<1>1. stalls' = stalls /\ f.delivery \in Queued
  BY DEF Record, mishaps, TypeOK
<1>2. CASE Rejects(f) /\ UNCHANGED <<log, delivery>>
  BY <1>1, <1>2, OverlapRejects
<1>3. CASE flights' = flights \ {f} /\ Logged(f) /\ Settled(f)
  <2>1. /\ \A d \in Deliveries : d # f.delivery => delivery'[d] = delivery[d]
        /\ delivery[f.delivery].lockedBy # f.by => delivery' = delivery
    BY <1>1, <1>3, QueuedRow DEF Settled, TypeOK
  <2>2. Queued' \subseteq Queued
    BY <1>1, <2>1 DEF Queued
  <2> SUFFICES ASSUME NEW d \in Queued PROVE Overlap(d)'
    BY <2>2 DEF OverlapInv
  <2>3. Working(d)' # Working(d) \/ (Leased(d) => Leased(d)')
    <3>1. CASE f.delivery = d
      BY <1>3, <3>1 DEF Working
    <3>2. CASE f.delivery # d
      BY <1>3, <2>1, <3>2 DEF Queued, Leased, Attended
    <3> QED
      BY <3>1, <3>2
  <2> QED
    BY <1>1, <1>3, <2>3, OverlapEnds DEF OverlapInv
<1> QED
  BY <1>2, <1>3 DEF Record

\* Nobody works on a row that was not queued.
LEMMA OverlapQueues ==
  ASSUME TypeOK, OverlapInv, NEW e, Queue(e), UNCHANGED <<flights, stalls>>
  PROVE  OverlapInv'
<1>1. PICK c \in Deliveries \ Queued : delivery' = [delivery EXCEPT ![c] = NewDelivery(e)]
  BY DEF Queue
<1>2. Queued' \subseteq Queued \cup {c} /\ \A d \in Queued : delivery'[d] = delivery[d]
  BY <1>1 DEF TypeOK, Queued
<1>3. \A d : Working(d)' = Working(d)
  BY DEF Working
<1>4. stalls \in Nat /\ stalls' = stalls
  BY DEF TypeOK
<1>5. ASSUME NEW d \in Queued PROVE Overlap(d)'
  <2>1. Overlap(d) /\ (Leased(d)' <=> Leased(d))
    BY <1>2 DEF OverlapInv, Leased, Attended
  <2> QED
    BY <1>3, <1>4, <2>1 DEF Overlap
<1>6. Overlap(c)'
  <2>1. Working(c) = {}
    BY DEF Working, TypeOK
  <2> QED
    BY <1>3, <1>4, <2>1, FS_EmptySet DEF Overlap
<1> QED
  BY <1>2, <1>5, <1>6 DEF OverlapInv

\* Steps that touch neither a lease nor an attempt.
LEMMA OverlapRests ==
  ASSUME OverlapInv, UNCHANGED <<delivery, flights, stalls>>
  PROVE  OverlapInv'
BY DEF OverlapInv, Overlap, Working, Leased, Attended, Queued

\* Every step keeps the attempts within their leases and stalls.
LEMMA StepOverlap == TypeOK /\ OverlapInv /\ [Next]_vars => OverlapInv'
<1> SUFFICES ASSUME TypeOK, OverlapInv, [Next]_vars PROVE OverlapInv'
  OBVIOUS
<1> USE DEF queue, sender, receiver, mishaps
<1>1. CASE UNCHANGED vars
  BY <1>1, OverlapRests DEF vars
<1>2. CASE EmitEvent
  BY <1>2, OverlapQueues DEF EmitEvent
<1>3. CASE \E d \in Deliveries : ReplayDelivery(d)
  BY <1>3, OverlapQueues DEF ReplayDelivery
<1>4. CASE UpdateEndpoint \/ \E e \in Events : ArriveLate(e)
  BY <1>4, OverlapRests DEF UpdateEndpoint, ArriveLate
<1>5. CASE \E i \in Instances, due \in SUBSET Deliveries : Claim(i, due)
  BY <1>5, OverlapClaims
<1>6. CASE \E f \in flights : Post(f)
  BY <1>6, OverlapPosts
<1>7. CASE \E f \in flights : Record(f)
  BY <1>7, OverlapRecords
<1>8. CASE \E f \in flights : Throw(f)
  BY <1>8, OverlapRejects DEF Throw, Fault
<1>9. CASE \E i \in Instances : Crash(i)
  BY <1>9, OverlapCrashes
<1>10. CASE \E d \in Deliveries : LeaseExpires(d)
  BY <1>10, OverlapExpires
<1> QED
  BY <1>1, <1>2, <1>3, <1>4, <1>5, <1>6, <1>7, <1>8, <1>9, <1>10 DEF Next

-----------------------------------------------------------------------------
(* The theorems.                                                           *)

\* There is no row and no attempt when the system starts.
LEMMA InitEstablishes == Init => IInv
BY BoundsAssumption DEF Init, IInv, TypeOK, Queued, Deliveries, Events, AttemptsAreLeft, OkWasReceived,
   DeliveredWasReceived, AppliedOnce, FlightsFollow, AttemptsAreMade, FlightsHoldLeases, OneAttemptAtATime

\* Every step keeps the invariant.
LEMMA StepPreserves == IInv /\ [Next]_vars => IInv'
<1> SUFFICES ASSUME IInv, [Next]_vars PROVE IInv'
  OBVIOUS
<1>1. CASE UNCHANGED vars
  BY <1>1 DEF vars, IInv, TypeOK, Queued, AttemptsAreLeft, OkWasReceived, DeliveredWasReceived, AppliedOnce,
     FlightsFollow, AttemptsAreMade, FlightsHoldLeases, OneAttemptAtATime
<1>2. CASE EmitEvent
  BY <1>2, EmitEventPreserves
<1>3. CASE \E d \in Deliveries : ReplayDelivery(d)
  BY <1>3, ReplayDeliveryPreserves
<1>4. CASE UpdateEndpoint
  BY <1>4, UpdateEndpointPreserves
<1>5. CASE \E i \in Instances, due \in SUBSET Deliveries : Claim(i, due)
  BY <1>5, ClaimPreserves
<1>6. CASE \E f \in flights : Post(f)
  BY <1>6, PostPreserves
<1>7. CASE \E e \in Events : ArriveLate(e)
  BY <1>7, ArriveLatePreserves
<1>8. CASE \E f \in flights : Record(f)
  BY <1>8, RecordPreserves
<1>9. CASE \E f \in flights : Throw(f)
  BY <1>9, ThrowPreserves
<1>10. CASE \E i \in Instances : Crash(i)
  BY <1>10, CrashPreserves
<1>11. CASE \E d \in Deliveries : LeaseExpires(d)
  BY <1>11, LeaseExpiresPreserves
<1> QED
  BY <1>1, <1>2, <1>3, <1>4, <1>5, <1>6, <1>7, <1>8, <1>9, <1>10, <1>11 DEF Next

\* The inductive invariant holds throughout.
THEOREM Invariance == Spec => []IInv
BY InitEstablishes, StepPreserves, PTL DEF Spec

\* Every variable keeps its type; a delivery never has more attempts than it may.
THEOREM TypeCorrect == Spec => []TypeOK
BY Invariance, PTL DEF IInv

\* However many processes crash, restart and fail to record, they attempt a
\* delivery one at a time, and once more for every lease that ran out under
\* one of them (claim, attempt and record of the dispatcher).
THEOREM AttemptsExclude == Spec => []AttemptsOverlapByStalls
<1>1. Init => OverlapInv
  BY DEF Init, OverlapInv, Queued
<1>2. IInv => TypeOK
  BY DEF IInv
<1>3. TypeOK /\ OverlapInv => AttemptsOverlapByStalls
  <2> SUFFICES ASSUME TypeOK, OverlapInv, NEW d \in Deliveries
               PROVE  Cardinality(Working(d)) <= 1 + stalls
    BY DEF AttemptsOverlapByStalls, Working
  <2>1. stalls \in Nat
    BY DEF TypeOK
  <2>2. CASE d \in Queued
    <3>1. Overlap(d) /\ Cardinality(Working(d)) \in Nat
      BY <2>2, FS_CardinalityType DEF OverlapInv, Overlap
    <3> QED
      BY <2>1, <3>1 DEF Overlap
  <2>3. CASE d \notin Queued
    <3>1. Working(d) = {}
      BY <2>3 DEF Working, TypeOK
    <3> QED
      BY <2>1, <3>1, FS_EmptySet
  <2> QED
    BY <2>2, <2>3
<1> QED
  BY <1>1, <1>2, <1>3, StepOverlap, Invariance, PTL DEF Spec

\* What Purse shows as delivered, Sideout has recorded.
THEOREM DeliveryIsHonest == Spec => []DeliveredWasReceived
BY Invariance, PTL DEF IInv

\* However often it is delivered, an event is applied once.
THEOREM EventsApplyOnce == Spec => []AppliedOnce
BY Invariance, PTL DEF IInv

\* No attempt is counted that was not made, and none is given away.
THEOREM NothingGivenUpEarly == Spec => []AttemptsAreMade
BY Invariance, PTL DEF IInv

=============================================================================
