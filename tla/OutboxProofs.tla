----------------------------- MODULE OutboxProofs -----------------------------
(***************************************************************************)
(* Proofs about Outbox: no scoreline saved on the phone is lost, for any   *)
(* number of tabs, matches and saved items.  An item is removed on the     *)
(* answer of a request made some steps before, so the invariant carries    *)
(* what that answer says of the server, which only ever grows.             *)
(***************************************************************************)
EXTENDS Outbox, TLAPS

Minted == {i \in Items : item[i] # None}

Requests == [match : Matches, item : Items \cup {None}, answer : Answers \cup {None}]

Sheets == {Closed, [pc |-> "sending"]} \cup [pc : {"saving"}, match : Matches, stale : SUBSET Items]

\* The requests of a tab are requests for what it is doing.
RequestsOK ==
  /\ sheet \in [Tabs -> Sheets]
  /\ asked \in [Tabs -> Requests \cup {None}]
  /\ sent \in [Tabs -> Requests \cup {None}]
  /\ run \in [Tabs -> SUBSET Items]
  /\ late \subseteq Requests
  /\ \A t \in Tabs : sheet[t].pc = "saving" => sheet[t].stale \subseteq Minted

\* A replay's request is for a saved item, and its answer still holds.
Holds(t) ==
  sent[t] # None =>
    /\ sent[t].item \in Minted
    /\ sent[t].match = item[sent[t].item]
    /\ sent[t].answer = "accepted" => sent[t].item \in heard
    /\ sent[t].answer = "decided" => sent[t].match \in decided

AnswersHold == \A t \in Tabs : Holds(t)

IInv == TypeOK /\ RequestsOK /\ AnswersHold /\ NoSavedScoreIsLost

\* A phone that has saved nothing has lost nothing.
LEMMA InitIInv == Init => IInv
<1> SUFFICES ASSUME Init PROVE IInv
  OBVIOUS
<1>1. TypeOK
  BY DEF Init, TypeOK
<1>2. \A t \in Tabs : sheet[t] = Closed /\ sheet[t].pc = "closed"
  BY DEF Init, Closed
<1>3. sheet \in [Tabs -> Sheets]
  BY DEF Init, Sheets
<1>4. RequestsOK
  BY <1>2, <1>3 DEF Init, RequestsOK
<1>5. AnswersHold /\ NoSavedScoreIsLost
  BY DEF Init, AnswersHold, Holds, NoSavedScoreIsLost
<1> QED
  BY <1>1, <1>4, <1>5 DEF IInv

\* What saves, discards or answers never undo: items stay minted, and the
\* server forgets nothing.
Grows ==
  /\ \A i \in Items : item[i] # None => item'[i] = item[i]
  /\ heard \subseteq heard'
  /\ decided \subseteq decided'
  /\ withdrawn \subseteq withdrawn'

\* Giving up requests leaves only requests on their way.
LEMMA GiveUpType ==
  ASSUME RequestsOK, NEW posts, posts \subseteq Requests \cup {None}, GiveUp(posts)
  PROVE  late' \subseteq Requests
BY DEF RequestsOK, GiveUp

\* A replay that proceeds asks for a saved item, with no answer yet.
LEMMA ProceedType ==
  ASSUME IInv, NEW t \in Tabs, NEW left \in SUBSET Minted, Proceed(t, left)
  PROVE  /\ run' \in [Tabs -> SUBSET Items]
         /\ \A u \in Tabs : run'[u] \subseteq Minted
         /\ sent' \in [Tabs -> Requests \cup {None}]
         /\ \A u \in Tabs \ {t} : sent'[u] = sent[u]
         /\ sent'[t] # None =>
              /\ sent'[t].item \in Minted
              /\ sent'[t].match = item[sent'[t].item]
              /\ sent'[t].answer = None
<1> USE DEF IInv, TypeOK, RequestsOK, Minted
<1>1. CASE left = {}
  BY <1>1 DEF Proceed
<1>2. CASE left # {}
  <2>1. PICK i \in left : /\ run' = [run EXCEPT ![t] = left]
                          /\ sent' = [sent EXCEPT ![t] = Request(item[i], i)]
    BY <1>2 DEF Proceed, SendNext
  <2>2. Request(item[i], i) \in Requests
    BY DEF Request, Requests
  <2> QED
    BY <2>1, <2>2 DEF Request
<1> QED
  BY <1>1, <1>2

\* No step takes an item, or what the server holds, back.
LEMMA StepGrows ==
  ASSUME IInv, [Next]_vars
  PROVE  Grows
<1> USE DEF Grows
<1>1. ASSUME NEW t \in Tabs, NEW answer \in Answers, HandleSheet(t, answer) PROVE Grows
  BY <1>1 DEF HandleSheet, Handles, Serve, server, saved
<1>2. ASSUME NEW t \in Tabs, NEW answer \in Answers, HandleRun(t, answer) PROVE Grows
  BY <1>2 DEF HandleRun, Handles, Serve, server, saved
<1>3. ASSUME NEW p \in late, HandleLate(p) PROVE Grows
  BY <1>3 DEF HandleLate, Handles, Serve, server, saved
<1>4. ASSUME NEW m \in Matches, Decide(m) PROVE Grows
  BY <1>4 DEF Decide, Handles, Serve, server, saved
<1>5. ASSUME NEW t \in Tabs, NEW m \in Matches, Submit(t, m) PROVE Grows
  BY <1>5 DEF Submit, Handles, Serve, server, saved
<1>6. ASSUME NEW t \in Tabs, NEW m \in Matches, SubmitOffline(t, m) PROVE Grows
  BY <1>6 DEF SubmitOffline, Handles, Serve, server, saved
<1>7. ASSUME NEW t \in Tabs, SheetAnswered(t) PROVE Grows
  BY <1>7 DEF SheetAnswered, Handles, Serve, server, saved
<1>8. ASSUME NEW t \in Tabs, SheetRefusedForNow(t) PROVE Grows
  BY <1>8 DEF SheetRefusedForNow, Handles, Serve, server, saved
<1>9. ASSUME NEW t \in Tabs, SheetUnanswered(t) PROVE Grows
  BY <1>9 DEF SheetUnanswered, Handles, Serve, server, saved
<1>10. ASSUME NEW t \in Tabs, NEW i \in Items, RemoveStale(t, i) PROVE Grows
  BY <1>10 DEF RemoveStale, Handles, Serve, server, saved
<1>11. ASSUME NEW t \in Tabs, NEW i \in Items, Save(t, i) PROVE Grows
  BY <1>11 DEF Save, Handles, Serve, server, saved
<1>12. ASSUME NEW i \in Items, Discard(i) PROVE Grows
  BY <1>12 DEF Discard, Handles, Serve, server, saved
<1>13. ASSUME NEW t \in Tabs, Sync(t) PROVE Grows
  BY <1>13 DEF Sync, Handles, Serve, server, saved
<1>14. ASSUME NEW t \in Tabs, RunAnswered(t) PROVE Grows
  BY <1>14 DEF RunAnswered, Handles, Serve, server, saved
<1>15. ASSUME NEW t \in Tabs, RunUnanswered(t) PROVE Grows
  BY <1>15 DEF RunUnanswered, Handles, Serve, server, saved
<1>16. ASSUME NEW t \in Tabs, TabDies(t) PROVE Grows
  BY <1>16 DEF TabDies, Handles, Serve, server, saved
<1>17. CASE UNCHANGED vars
  BY <1>17 DEF vars, saved, server
<1> QED
  BY <1>1, <1>2, <1>3, <1>4, <1>5, <1>6, <1>7, <1>8, <1>9, <1>10, <1>11, <1>12, <1>13, <1>14, <1>15, <1>16, <1>17 DEF Next

\* Every step keeps the types, and a tab's requests to what it is doing.
LEMMA StepTypes ==
  ASSUME IInv, [Next]_vars
  PROVE  TypeOK' /\ RequestsOK'
<1> USE DEF IInv, TypeOK, RequestsOK, Minted
<1>1. ASSUME NEW t \in Tabs, NEW answer \in Answers, HandleSheet(t, answer) PROVE TypeOK' /\ RequestsOK'
  <2>1. Answered(asked[t], answer) \in Requests
    BY <1>1 DEF HandleSheet, Handles, Answered, Requests
  <2> QED
    BY <1>1, <2>1 DEF HandleSheet, Handles, Serve, server, saved, Requests
<1>2. ASSUME NEW t \in Tabs, NEW answer \in Answers, HandleRun(t, answer) PROVE TypeOK' /\ RequestsOK'
  <2>1. Answered(sent[t], answer) \in Requests
    BY <1>2 DEF HandleRun, Handles, Answered, Requests
  <2> QED
    BY <1>2, <2>1 DEF HandleRun, Handles, Serve, server, saved, Requests
<1>3. ASSUME NEW p \in late, HandleLate(p) PROVE TypeOK' /\ RequestsOK'
  <2>1. PICK answer \in AnswersTo(p) : Serve(p, answer)
    BY <1>3 DEF HandleLate
  <2>2. p.match \in Matches /\ p.item \in Items \cup {None}
    BY DEF Requests
  <2>3. decided' \subseteq Matches /\ heard' \subseteq Items
    BY <2>1, <2>2 DEF Serve, server
  <2> QED
    BY <1>3, <2>3 DEF HandleLate, saved
<1>4. ASSUME NEW m \in Matches, Decide(m) PROVE TypeOK' /\ RequestsOK'
  BY <1>4 DEF Decide, Handles, Serve, server, saved
<1>5. ASSUME NEW t \in Tabs, NEW m \in Matches, Submit(t, m) PROVE TypeOK' /\ RequestsOK'
  <2>1. Request(m, None) \in Requests /\ [pc |-> "sending"] \in Sheets /\ [pc |-> "sending"].pc # "saving"
    BY DEF Request, Requests, Sheets
  <2> QED
    BY <1>5, <2>1 DEF Submit, server, saved
<1>6. ASSUME NEW t \in Tabs, NEW m \in Matches, SubmitOffline(t, m) PROVE TypeOK' /\ RequestsOK'
  <2>1. Saving(m) \in Sheets /\ Saving(m).stale \subseteq Minted
    BY DEF Saving, SavedFor, Sheets
  <2> QED
    BY <1>6, <2>1 DEF SubmitOffline, server, saved
<1>7. ASSUME NEW t \in Tabs, SheetAnswered(t) PROVE TypeOK' /\ RequestsOK'
  <2>1. Closed \in Sheets /\ Closed.pc # "saving"
    BY DEF Sheets, Closed
  <2> QED
    BY <1>7, <2>1 DEF SheetAnswered, server, saved
<1>8. ASSUME NEW t \in Tabs, SheetRefusedForNow(t) PROVE TypeOK' /\ RequestsOK'
  <2>1. Closed \in Sheets /\ Closed.pc # "saving"
    BY DEF Sheets, Closed
  <2> QED
    BY <1>8, <2>1 DEF SheetRefusedForNow, server, saved
<1>9. ASSUME NEW t \in Tabs, SheetUnanswered(t) PROVE TypeOK' /\ RequestsOK'
  <2>1. asked[t] \in Requests
    BY <1>9 DEF SheetUnanswered
  <2>2. Saving(asked[t].match) \in Sheets /\ Saving(asked[t].match).stale \subseteq Minted
    BY <2>1 DEF Saving, SavedFor, Sheets, Requests
  <2>3. late' \subseteq Requests
    BY <1>9, <2>1, GiveUpType DEF SheetUnanswered
  <2> QED
    BY <1>9, <2>2, <2>3 DEF SheetUnanswered, server, saved
<1>10. ASSUME NEW t \in Tabs, NEW i \in Items, RemoveStale(t, i) PROVE TypeOK' /\ RequestsOK'
  <2>1. sheet[t] \in [pc : {"saving"}, match : Matches, stale : SUBSET Items] /\ i \in Minted
    BY <1>10 DEF RemoveStale, Sheets, Closed
  <2>2. sheet'[t] = [pc |-> "saving", match |-> sheet[t].match, stale |-> sheet[t].stale \ {i}]
    BY <1>10, <2>1 DEF RemoveStale
  <2>3. sheet'[t] \in Sheets /\ sheet'[t].stale \subseteq Minted
    BY <2>1, <2>2 DEF Sheets
  <2> QED
    BY <1>10, <2>1, <2>3 DEF RemoveStale, server
<1>11. ASSUME NEW t \in Tabs, NEW i \in Items, Save(t, i) PROVE TypeOK' /\ RequestsOK'
  <2>1. sheet[t].match \in Matches
    BY <1>11 DEF Save, Sheets, Closed
  <2>2. Minted \subseteq Minted' /\ Closed \in Sheets /\ Closed.pc # "saving"
    BY <1>11, NoneAssumption, <2>1 DEF Save, Sheets, Closed
  <2> QED
    BY <1>11, <2>1, <2>2, NoneAssumption DEF Save, server
<1>12. ASSUME NEW i \in Items, Discard(i) PROVE TypeOK' /\ RequestsOK'
  BY <1>12 DEF Discard, Handles, Serve, server, saved
<1>13. ASSUME NEW t \in Tabs, Sync(t) PROVE TypeOK' /\ RequestsOK'
  <2>1. Queued \in SUBSET Minted
    BY DEF Queued
  <2>2. run' \in [Tabs -> SUBSET Items] /\ (\A u \in Tabs : run'[u] \subseteq Minted) /\ sent' \in [Tabs -> Requests \cup {None}]
    BY <1>13, <2>1, ProceedType DEF Sync
  <2> QED
    BY <1>13, <2>2 DEF Sync, server, saved
<1>14. ASSUME NEW t \in Tabs, RunAnswered(t) PROVE TypeOK' /\ RequestsOK'
  <2>1. sent[t] # None /\ sent[t].item \in Minted /\ run[t] \ {sent[t].item} \in SUBSET Minted
    BY <1>14 DEF RunAnswered, AnswersHold, Holds
  <2>2. run' \in [Tabs -> SUBSET Items] /\ (\A u \in Tabs : run'[u] \subseteq Minted) /\ sent' \in [Tabs -> Requests \cup {None}]
    BY <1>14, <2>1, ProceedType DEF RunAnswered
  <2> QED
    BY <1>14, <2>1, <2>2 DEF RunAnswered, StatusAfter, server
<1>15. ASSUME NEW t \in Tabs, RunUnanswered(t) PROVE TypeOK' /\ RequestsOK'
  <2>1. sent[t] # None /\ sent[t].item \in Minted /\ {} \in SUBSET Minted
    BY <1>15 DEF RunUnanswered, AnswersHold, Holds
  <2>2. run' \in [Tabs -> SUBSET Items] /\ (\A u \in Tabs : run'[u] \subseteq Minted) /\ sent' \in [Tabs -> Requests \cup {None}]
    BY <1>15, <2>1, ProceedType DEF RunUnanswered
  <2>3. late' \subseteq Requests
    BY <1>15, GiveUpType DEF RunUnanswered
  <2> QED
    BY <1>15, <2>1, <2>2, <2>3 DEF RunUnanswered, StatusUnanswered, server
<1>16. ASSUME NEW t \in Tabs, TabDies(t) PROVE TypeOK' /\ RequestsOK'
  <2>1. Closed \in Sheets /\ Closed.pc # "saving"
    BY DEF Sheets, Closed
  <2>2. late' \subseteq Requests
    BY <1>16, GiveUpType DEF TabDies
  <2> QED
    BY <1>16, <2>1, <2>2 DEF TabDies, server, saved
<1>17. CASE UNCHANGED vars
  BY <1>17 DEF vars, saved, server
<1> QED
  BY <1>1, <1>2, <1>3, <1>4, <1>5, <1>6, <1>7, <1>8, <1>9, <1>10, <1>11, <1>12, <1>13, <1>14, <1>15, <1>16, <1>17 DEF Next

\* What a replay was answered stays true.
LEMMA StepAnswers ==
  ASSUME IInv, [Next]_vars
  PROVE  AnswersHold'
<1>1. Grows
  BY StepGrows
<1>2. Minted \subseteq Minted' /\ \A i \in Minted : item'[i] = item[i]
  BY <1>1, NoneAssumption DEF Grows, Minted
<1>3. ASSUME NEW u \in Tabs, sent'[u] = sent[u] PROVE Holds(u)'
  BY <1>1, <1>2, <1>3 DEF IInv, AnswersHold, Holds, Grows
<1>4. ASSUME NEW t \in Tabs, NEW left \in SUBSET Minted, Proceed(t, left) PROVE AnswersHold'
  <2>1. ASSUME NEW u \in Tabs \ {t} PROVE Holds(u)'
    BY <1>3, <1>4, <2>1, ProceedType
  <2>2. sent'[t] # None => sent'[t].item \in Minted /\ sent'[t].match = item[sent'[t].item] /\ sent'[t].answer = None
    BY <1>4, ProceedType
  <2>3. Holds(t)'
    BY <1>2, <2>2, NoneAssumption DEF Holds, Answers
  <2> QED
    BY <2>1, <2>3 DEF AnswersHold
<1>5. ASSUME NEW t \in Tabs, NEW answer \in Answers, HandleRun(t, answer) PROVE AnswersHold'
  <2>1. /\ sent[t] # None
        /\ sent[t].item \in Minted
        /\ sent[t].match = item[sent[t].item]
    BY <1>5 DEF HandleRun, Handles, IInv, AnswersHold, Holds
  <2>2. sent'[t] = Answered(sent[t], answer)
    BY <1>5 DEF HandleRun, IInv, RequestsOK
  <2>3. answer = "accepted" => sent[t].item \in heard'
    BY <1>5, <2>1, NoneAssumption DEF HandleRun, Handles, Serve, Minted
  <2>4. answer = "decided" => sent[t].match \in decided
    BY <1>5 DEF HandleRun, Handles, AnswersTo
  <2>5. Holds(t)'
    BY <1>1, <1>2, <2>1, <2>2, <2>3, <2>4 DEF Holds, Answered, Grows
  <2>6. ASSUME NEW u \in Tabs \ {t} PROVE Holds(u)'
    BY <1>3, <1>5, <2>6 DEF HandleRun, IInv, RequestsOK
  <2> QED
    BY <2>5, <2>6 DEF AnswersHold
<1>6. ASSUME NEW t \in Tabs, Sync(t) PROVE AnswersHold'
  BY <1>4, <1>6 DEF Sync, Queued, Minted, IInv, TypeOK
<1>7. ASSUME NEW t \in Tabs, RunAnswered(t) PROVE AnswersHold'
  BY <1>4, <1>7 DEF RunAnswered, Minted, IInv, TypeOK
<1>8. ASSUME NEW t \in Tabs, RunUnanswered(t) PROVE AnswersHold'
  BY <1>4, <1>8 DEF RunUnanswered
<1>9. ASSUME NEW t \in Tabs, TabDies(t) PROVE AnswersHold'
  <2>1. Holds(t)'
    BY <1>9 DEF TabDies, Holds, IInv, RequestsOK
  <2>2. ASSUME NEW u \in Tabs \ {t} PROVE Holds(u)'
    BY <1>3, <1>9, <2>2 DEF TabDies, IInv, RequestsOK
  <2> QED
    BY <2>1, <2>2 DEF AnswersHold
<1>10. ASSUME UNCHANGED sent PROVE AnswersHold'
  BY <1>3, <1>10 DEF AnswersHold
<1>11. ASSUME NEW t \in Tabs, NEW answer \in Answers, HandleSheet(t, answer) PROVE UNCHANGED sent
  BY <1>11 DEF HandleSheet
<1>12. ASSUME NEW p \in late, HandleLate(p) PROVE UNCHANGED sent
  BY <1>12 DEF HandleLate
<1>13. ASSUME NEW m \in Matches, Decide(m) PROVE UNCHANGED sent
  BY <1>13 DEF Decide
<1>14. ASSUME NEW t \in Tabs, NEW m \in Matches, Submit(t, m) \/ SubmitOffline(t, m) PROVE UNCHANGED sent
  BY <1>14 DEF Submit, SubmitOffline
<1>15. ASSUME NEW t \in Tabs, SheetAnswered(t) \/ SheetRefusedForNow(t) \/ SheetUnanswered(t) PROVE UNCHANGED sent
  BY <1>15 DEF SheetAnswered, SheetRefusedForNow, SheetUnanswered
<1>16. ASSUME NEW t \in Tabs, NEW i \in Items, RemoveStale(t, i) \/ Save(t, i) PROVE UNCHANGED sent
  BY <1>16 DEF RemoveStale, Save
<1>17. ASSUME NEW i \in Items, Discard(i) PROVE UNCHANGED sent
  BY <1>17 DEF Discard
<1>18. CASE UNCHANGED vars
  BY <1>10, <1>18 DEF vars
<1> QED
  BY <1>5, <1>6, <1>7, <1>8, <1>9, <1>10, <1>11, <1>12, <1>13, <1>14, <1>15, <1>16, <1>17, <1>18 DEF Next

\* No step loses a saved scoreline: the two that remove one do it on an answer
\* that still holds, or on behalf of the player.
LEMMA StepLosesNothing ==
  ASSUME IInv, [Next]_vars
  PROVE  NoSavedScoreIsLost'
<1> USE DEF IInv, TypeOK
<1>1. Grows
  BY StepGrows
<1>2. ASSUME UNCHANGED saved PROVE NoSavedScoreIsLost'
  BY <1>1, <1>2 DEF Grows, NoSavedScoreIsLost, saved
<1>3. ASSUME NEW t \in Tabs, NEW i \in Items, RemoveStale(t, i) PROVE NoSavedScoreIsLost'
  BY <1>1, <1>3 DEF RemoveStale, Grows, NoSavedScoreIsLost
<1>4. ASSUME NEW i \in Items, Discard(i) PROVE NoSavedScoreIsLost'
  BY <1>1, <1>4 DEF Discard, Grows, NoSavedScoreIsLost
<1>5. ASSUME NEW t \in Tabs, NEW i \in Items, Save(t, i) PROVE NoSavedScoreIsLost'
  BY <1>1, <1>5 DEF Save, Grows, NoSavedScoreIsLost
<1>6. ASSUME NEW t \in Tabs, RunAnswered(t) PROVE NoSavedScoreIsLost'
  <2>1. /\ sent[t] \in Requests
        /\ sent[t].answer \in Answers
        /\ sent[t].item \in Items
        /\ sent[t].match = item[sent[t].item]
        /\ sent[t].answer = "accepted" => sent[t].item \in heard
        /\ sent[t].answer = "decided" => sent[t].match \in decided
    BY <1>6 DEF RunAnswered, RequestsOK, Requests, AnswersHold, Holds, Minted
  <2>2. store' = [store EXCEPT ![sent[t].item] = StatusAfter(sent[t].answer)] /\ UNCHANGED item
    BY <1>6 DEF RunAnswered
  <2>3. StatusAfter(sent[t].answer) = "none" => sent[t].item \in heard \/ item[sent[t].item] \in decided
    BY <2>1 DEF StatusAfter, Answers
  <2> QED
    BY <1>1, <2>1, <2>2, <2>3 DEF Grows, NoSavedScoreIsLost
<1>7. ASSUME NEW t \in Tabs, RunUnanswered(t) PROVE NoSavedScoreIsLost'
  BY <1>1, <1>7 DEF RunUnanswered, StatusUnanswered, Grows, NoSavedScoreIsLost
<1>8. ASSUME NEW t \in Tabs, NEW answer \in Answers, HandleSheet(t, answer) \/ HandleRun(t, answer) PROVE UNCHANGED saved
  BY <1>8 DEF HandleSheet, HandleRun
<1>9. ASSUME NEW p \in late, HandleLate(p) PROVE UNCHANGED saved
  BY <1>9 DEF HandleLate
<1>10. ASSUME NEW m \in Matches, Decide(m) PROVE UNCHANGED saved
  BY <1>10 DEF Decide, saved
<1>11. ASSUME NEW t \in Tabs, NEW m \in Matches, Submit(t, m) \/ SubmitOffline(t, m) PROVE UNCHANGED saved
  BY <1>11 DEF Submit, SubmitOffline
<1>12. ASSUME NEW t \in Tabs, SheetAnswered(t) \/ SheetRefusedForNow(t) \/ SheetUnanswered(t) PROVE UNCHANGED saved
  BY <1>12 DEF SheetAnswered, SheetRefusedForNow, SheetUnanswered
<1>13. ASSUME NEW t \in Tabs, Sync(t) \/ TabDies(t) PROVE UNCHANGED saved
  BY <1>13 DEF Sync, TabDies
<1>14. CASE UNCHANGED vars
  BY <1>2, <1>14 DEF vars
<1> QED
  BY <1>2, <1>3, <1>4, <1>5, <1>6, <1>7, <1>8, <1>9, <1>10, <1>11, <1>12, <1>13, <1>14 DEF Next

\* A scoreline saved on the phone leaves it only when the server has accepted
\* it, its match takes no more, or the player withdrew it, whatever the tabs do
\* (outbox.ts replayOutbox).
THEOREM NothingSavedIsLost == Spec => [](TypeOK /\ NoSavedScoreIsLost)
<1>1. IInv /\ [Next]_vars => IInv'
  BY StepTypes, StepAnswers, StepLosesNothing DEF IInv
<1>2. IInv => TypeOK /\ NoSavedScoreIsLost
  BY DEF IInv
<1> QED
  BY <1>1, <1>2, InitIInv, PTL DEF Spec

===============================================================================
