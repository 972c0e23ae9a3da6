-------------------------------- MODULE Outbox --------------------------------
(***************************************************************************)
(* The score outbox of a phone (sideout lib/offline): a scoreline the      *)
(* phone could not send is saved, and replayed through the route a live    *)
(* one takes.  The tabs of the phone share the saved items; each tab has a *)
(* score sheet that sends or saves (ScoreSubmitSheet) and one replay at a  *)
(* time (client.ts, OfflineStatus).                                        *)
(*                                                                         *)
(* Every operation of the store is a transaction of IndexedDB of its own,  *)
(* and every request may be lost, lose its answer, or be handled after the *)
(* phone gave it up.  The phone belongs to one team; of the server there   *)
(* is what decides its answer (server/consensus.ts submitScoreline): an    *)
(* accepted scoreline leaves its match open for the other team's, or is    *)
(* the second of the two and decides it, as agreed or as disputed.         *)
(***************************************************************************)
EXTENDS Integers, FiniteSets

CONSTANTS
  Tabs,
  Matches,
  MaxItems,  \* bound: items the phone ever saves
  MaxLate,   \* bound: requests given up that may still be handled
  None       \* absence of a value

ASSUME BoundsAssumption == MaxItems \in Nat

Items == 1..MaxItems   \* in the order of createdAt

Answers == {"accepted", "decided", "refused"}

ASSUME NoneAssumption == None \notin Matches /\ None \notin Items /\ None \notin Answers

VARIABLES
  item,      \* the match of each item, None until it is saved
  store,     \* each item's status in the store: "none", "queued" or "failed"
  sheet,     \* each tab's score sheet
  run,       \* each tab's replay: the items still to send
  asked,     \* the request of each tab's sheet, with the answer once there is one
  sent,      \* the request of each tab's replay, likewise
  late,      \* requests given up by the phone, yet on their way to the server
  decided,   \* matches that take no more submissions
  heard,     \* history: items the server accepted
  withdrawn  \* history: items discarded, or replaced by a newer one

saved == <<item, store>>
server == <<decided, heard>>
vars == <<saved, sheet, asked, run, sent, late, server, withdrawn>>

Closed == [pc |-> "closed"]

Request(m, i) == [match |-> m, item |-> i, answer |-> None]

Answered(p, answer) == [match |-> p.match, item |-> p.item, answer |-> answer]

-----------------------------------------------------------------------------
(* The server.                                                             *)

\* What the server may answer: a match that is open takes the submission, or
\* refuses it for good (a revoked check-in, an expired session).
AnswersTo(p) == IF p.match \in decided THEN {"decided"} ELSE {"accepted", "refused"}

Serve(p, answer) ==
  IF answer = "accepted"
  THEN decided' \in {decided, decided \cup {p.match}} /\ heard' = heard \cup ({p.item} \ {None})
  ELSE UNCHANGED server

Handles(p, answer) ==
  /\ p # None
  /\ p.answer = None
  /\ answer \in AnswersTo(p)
  /\ Serve(p, answer)

HandleSheet(t, answer) ==
  /\ Handles(asked[t], answer)
  /\ asked' = [asked EXCEPT ![t] = Answered(asked[t], answer)]
  /\ UNCHANGED <<saved, sheet, run, sent, late, withdrawn>>

HandleRun(t, answer) ==
  /\ Handles(sent[t], answer)
  /\ sent' = [sent EXCEPT ![t] = Answered(sent[t], answer)]
  /\ UNCHANGED <<saved, sheet, asked, run, late, withdrawn>>

HandleLate(p) ==
  /\ p \in late
  /\ \E answer \in AnswersTo(p) : Serve(p, answer)
  /\ late' = late \ {p}
  /\ UNCHANGED <<saved, sheet, asked, run, sent, withdrawn>>

\* A forfeit, an organizer's resolution or the end of the tournament.
Decide(m) ==
  /\ m \notin decided
  /\ decided' = decided \cup {m}
  /\ UNCHANGED <<saved, sheet, asked, run, sent, late, heard, withdrawn>>

-----------------------------------------------------------------------------
(* The score sheet.                                                        *)

SavedFor(m) == {i \in Items : store[i] # "none" /\ item[i] = m}

Saving(m) == [pc |-> "saving", match |-> m, stale |-> SavedFor(m)]

\* The player submits; what was saved for the match stays saved.
Submit(t, m) ==
  /\ sheet[t] = Closed
  /\ sheet' = [sheet EXCEPT ![t] = [pc |-> "sending"]]
  /\ asked' = [asked EXCEPT ![t] = Request(m, None)]
  /\ UNCHANGED <<saved, run, sent, late, server, withdrawn>>

\* Without a connection it is saved at once.
SubmitOffline(t, m) ==
  /\ sheet[t] = Closed
  /\ sheet' = [sheet EXCEPT ![t] = Saving(m)]
  /\ UNCHANGED <<saved, asked, run, sent, late, server, withdrawn>>

\* An answer: the sheet shows it, and nothing is saved.
SheetAnswered(t) ==
  /\ asked[t] # None
  /\ asked[t].answer # None
  /\ sheet' = [sheet EXCEPT ![t] = Closed]
  /\ asked' = [asked EXCEPT ![t] = None]
  /\ UNCHANGED <<saved, run, sent, late, server, withdrawn>>

\* Too many requests: an error to the sheet, though the outbox would wait.
SheetRefusedForNow(t) ==
  /\ asked[t] # None
  /\ asked[t].answer = None
  /\ sheet' = [sheet EXCEPT ![t] = Closed]
  /\ asked' = [asked EXCEPT ![t] = None]
  /\ UNCHANGED <<saved, run, sent, late, server, withdrawn>>

\* A request the phone gives up is lost, or still on its way.
GiveUp(posts) ==
  \E onTheirWay \in SUBSET {p \in posts : p # None /\ p.answer = None} :
    /\ Cardinality(late \cup onTheirWay) <= MaxLate
    /\ late' = late \cup onTheirWay

SheetUnanswered(t) ==
  LET p == asked[t]
  IN  /\ p # None
      /\ GiveUp({p})
      /\ sheet' = [sheet EXCEPT ![t] = Saving(p.match)]
      /\ asked' = [asked EXCEPT ![t] = None]
      /\ UNCHANGED <<saved, run, sent, server, withdrawn>>

\* What was saved for the match before is removed, one by one.
RemoveStale(t, i) ==
  /\ sheet[t].pc = "saving"
  /\ i \in sheet[t].stale
  /\ store' = [store EXCEPT ![i] = "none"]
  /\ sheet' = [sheet EXCEPT ![t].stale = @ \ {i}]
  /\ withdrawn' = withdrawn \cup {i}
  /\ UNCHANGED <<item, asked, run, sent, late, server>>

Save(t, i) ==
  /\ sheet[t].pc = "saving"
  /\ sheet[t].stale = {}
  /\ item[i] = None
  /\ \A j \in Items : j < i => item[j] # None
  /\ item' = [item EXCEPT ![i] = sheet[t].match]
  /\ store' = [store EXCEPT ![i] = "queued"]
  /\ sheet' = [sheet EXCEPT ![t] = Closed]
  /\ UNCHANGED <<asked, run, sent, late, server, withdrawn>>

\* The player discards what the match page shows.
Discard(i) ==
  /\ store[i] # "none"
  /\ store' = [store EXCEPT ![i] = "none"]
  /\ withdrawn' = withdrawn \cup {i}
  /\ UNCHANGED <<item, sheet, asked, run, sent, late, server>>

-----------------------------------------------------------------------------
(* The replay.                                                             *)

Queued == {i \in Items : store[i] = "queued"}

\* Send the oldest of the items left.
SendNext(t, left) ==
  \E i \in left :
    /\ \A j \in left : i <= j
    /\ run' = [run EXCEPT ![t] = left]
    /\ sent' = [sent EXCEPT ![t] = Request(item[i], i)]

\* Fault: a replay that is over stays the one in flight, which later callers
\* share.
ProceedUncleared(t, left) ==
  IF left = {} THEN sent' = [sent EXCEPT ![t] = None] /\ UNCHANGED run
  ELSE SendNext(t, left)

\* The replay goes on with the items left, or ends.
Proceed(t, left) ==
  IF left = {} THEN sent' = [sent EXCEPT ![t] = None] /\ run' = [run EXCEPT ![t] = {}]
  ELSE SendNext(t, left)

\* The tab loads, comes back or is online again: what is queued is listed.
Sync(t) ==
  /\ run[t] = {}
  /\ Queued # {}
  /\ Proceed(t, Queued)
  /\ UNCHANGED <<saved, sheet, asked, late, server, withdrawn>>

\* What an answer makes of the item.
StatusAfter(answer) == IF answer = "refused" THEN "failed" ELSE "none"

\* Fault: an item is dropped once it was sent, whatever came back.
StatusUnansweredDropped == "none"

\* The whole item is put back, whatever the store holds by now.
StatusUnanswered == "queued"

RunAnswered(t) ==
  LET p == sent[t]
  IN  /\ p # None
      /\ p.answer # None
      /\ store' = [store EXCEPT ![p.item] = StatusAfter(p.answer)]
      /\ Proceed(t, run[t] \ {p.item})
      /\ UNCHANGED <<item, sheet, asked, late, server, withdrawn>>

\* No answer, or none to the point: the item waits, and the others with it.
RunUnanswered(t) ==
  LET p == sent[t]
  IN  /\ p # None
      /\ GiveUp({p})
      /\ store' = [store EXCEPT ![p.item] = StatusUnanswered]
      /\ Proceed(t, {})
      /\ UNCHANGED <<item, sheet, asked, server, withdrawn>>

\* The tab is closed or reloaded: only the store survives.
TabDies(t) ==
  /\ sheet[t] # Closed \/ run[t] # {}
  /\ GiveUp({asked[t], sent[t]})
  /\ sheet' = [sheet EXCEPT ![t] = Closed]
  /\ run' = [run EXCEPT ![t] = {}]
  /\ asked' = [asked EXCEPT ![t] = None]
  /\ sent' = [sent EXCEPT ![t] = None]
  /\ UNCHANGED <<saved, server, withdrawn>>

-----------------------------------------------------------------------------
Init ==
  /\ item = [i \in Items |-> None]
  /\ store = [i \in Items |-> "none"]
  /\ sheet = [t \in Tabs |-> Closed]
  /\ run = [t \in Tabs |-> {}]
  /\ asked = [t \in Tabs |-> None]
  /\ sent = [t \in Tabs |-> None]
  /\ late = {}
  /\ decided = {}
  /\ heard = {}
  /\ withdrawn = {}

Next ==
  \/ \E t \in Tabs, answer \in Answers : HandleSheet(t, answer) \/ HandleRun(t, answer)
  \/ \E p \in late : HandleLate(p)
  \/ \E m \in Matches : Decide(m)
  \/ \E t \in Tabs, m \in Matches : Submit(t, m) \/ SubmitOffline(t, m)
  \/ \E t \in Tabs : SheetAnswered(t) \/ SheetRefusedForNow(t) \/ SheetUnanswered(t)
  \/ \E t \in Tabs, i \in Items : RemoveStale(t, i) \/ Save(t, i)
  \/ \E i \in Items : Discard(i)
  \/ \E t \in Tabs : Sync(t) \/ RunAnswered(t) \/ RunUnanswered(t)
  \/ \E t \in Tabs : TabDies(t)

\* A tab with something queued comes back again and again, and an item that is
\* sent again and again is handled, and answered, some time.
Sends(t, i) == sent[t] # None /\ sent[t].item = i

Fairness ==
  /\ \A t \in Tabs : WF_vars(Sync(t))
  /\ \A t \in Tabs, i \in Items :
       /\ SF_vars(Sends(t, i) /\ \E answer \in Answers : HandleRun(t, answer))
       /\ SF_vars(Sends(t, i) /\ RunAnswered(t))

Spec == Init /\ [][Next]_vars /\ Fairness

-----------------------------------------------------------------------------
(* Properties.                                                             *)

\* Items, replays and requests are in their domains.
TypeOK ==
  /\ item \in [Items -> Matches \cup {None}]
  /\ store \in [Items -> {"none", "queued", "failed"}]
  /\ \A i \in Items : item[i] = None => store[i] = "none"
  /\ \A t \in Tabs : run[t] \subseteq {i \in Items : item[i] # None}
  /\ decided \subseteq Matches
  /\ heard \subseteq Items
  /\ withdrawn \subseteq {i \in Items : item[i] # None}

\* A scoreline saved on the phone leaves it only when the server has accepted
\* it, its match takes no more submissions, or the player withdrew it, however
\* replays, sheets and discards of several tabs interleave (outbox.ts, "kept
\* ..., never dropped").
NoSavedScoreIsLost ==
  \A i \in Items :
    item[i] # None /\ store[i] = "none" =>
      i \in heard \/ item[i] \in decided \/ i \in withdrawn

\* No scoreline waits on the phone for ever: not behind an item that keeps
\* failing, a replay a closed tab left unfinished, nor put back at each attempt.
QueueDrains == \A i \in Items : store[i] = "queued" ~> store[i] # "queued"

=============================================================================
