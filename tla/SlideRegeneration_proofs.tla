---------------------- MODULE SlideRegeneration_proofs ----------------------
(***************************************************************************)
(* Proofs about SlideRegeneration for any number of slides, requests,      *)
(* executions and worker processes, and any choice of faults: types, the   *)
(* in-flight registry, and the tasks that must stay on the queue.          *)
(***************************************************************************)
EXTENDS SlideRegeneration, TLAPS

(* An execution works on a slide that was asked for.                       *)
Engaged ==
  /\ \A t \in queue : slideOf[t] \in Slide
  /\ \A r \in Run : pc[r] # "idle" =>
       taskOf[r] \in Task /\ host[r] \in Host /\ SlideOf(r) \in Slide

(* RegistryExact, slide by slide.                                          *)
Held ==
  /\ \A h \in Host, s \in Slide :
       s \in claims[h] <=> \E r \in Run : pc[r] \in Claimed /\ host[r] = h /\ SlideOf(r) = s
  /\ \A q, r \in Run :
       pc[q] \in Claimed /\ pc[r] \in Claimed /\ host[q] = host[r] /\ SlideOf(q) = SlideOf(r)
         => q = r

(* The last task of a slide asks for that slide.                           *)
Tracked == \A s \in Slide : latest[s] # None => slideOf[latest[s]] = s

(* An execution that will be acknowledged leaves no request behind: its task is known to
   be lost, or a newer one was asked for, or the slide is not waited for.  *)
Answered ==
  \A r \in Run : pc[r] \in {"backup", "copy", "acking"} =>
    \/ taskOf[r] \in lost
    \/ latest[SlideOf(r)] # taskOf[r]
    \/ status[SlideOf(r)] \notin InProgress

(* The count of files starts at zero in each of the loops.                 *)
Counted ==
  \A r \in Run :
    pc[r] \notin {"uploading", "backup", "copy", "restore", "failing"} => at[r] = 0

Inv == Held /\ Counted /\ Tracked /\ Answered /\ WorkNotDropped

-----------------------------------------------------------------------------
(* The part of TypeOK that End may disturb.                                *)
LocalsTyped ==
  /\ claims \in [Host -> SUBSET Slide]
  /\ pc \in [Run -> Live \cup {"idle", "done"}]
  /\ taskOf \in [Run -> Task \cup {None}]
  /\ host \in [Run -> Host \cup {None}]
  /\ base \in [Run -> Version]
  /\ deck \in [Run -> Deck]
  /\ at \in [Run -> 0..3] /\ \A r \in Run : pc[r] # "restore" => at[r] < 3

(* Every way out of the handler leaves its locals typed.                   *)
LEMMA EndTyped ==
  ASSUME LocalsTyped, NEW r \in Run, NEW to \in {"acking", "done"}, End(r, to)
  PROVE  LocalsTyped'
<1>1. claims' \in [Host -> SUBSET Slide]
  BY DEF LocalsTyped, End, Release
<1>2. pc' \in [Run -> Live \cup {"idle", "done"}] /\ pc' = [pc EXCEPT ![r] = to]
  BY DEF LocalsTyped, End, Go, Live
<1>3. base' \in [Run -> Version] /\ deck' \in [Run -> Deck]
  <2>1. Blank \in Deck /\ {} \in Version
    BY DEF Blank, Deck, Version
  <2>2. QED
    BY <2>1 DEF LocalsTyped, End
<1>4. at' \in [Run -> 0..3] /\ \A q \in Run : pc'[q] # "restore" => at'[q] < 3
  BY <1>2 DEF LocalsTyped, End
<1>5. UNCHANGED <<taskOf, host>>
  BY DEF End
<1>6. QED
  BY <1>1, <1>2, <1>3, <1>4, <1>5 DEF LocalsTyped

(* So does a callback in trouble.                                          *)
LEMMA TroubleTyped ==
  ASSUME LocalsTyped, NEW r \in Run, pc[r] = "sending", CallbackTrouble(r)
  PROVE  LocalsTyped'
<1>1. CASE UNCHANGED <<claims, locals>>
  BY <1>1 DEF LocalsTyped, locals
<1>2. CASE End(r, "done")
  BY <1>2, EndTyped
<1>3. CASE Go(r, "failing") /\ UNCHANGED <<claims, taskOf, host, base, deck, at>>
  BY <1>3 DEF LocalsTyped, Go, Live, Claimed, Processing
<1>4. QED
  BY <1>1, <1>2, <1>3 DEF CallbackTrouble

(* The canonical files stay decks when one is overwritten.                 *)
LEMMA OverwrittenTyped ==
  ASSUME stored \in Files, NEW f \in File, NEW d \in Deck, NEW s \in Slide
  PROVE  Overwritten(f, d, s) \in Files
<1>1. stored[f] \in Deck /\ d[s] \in Version
  BY DEF Files, Deck
<1>2. [stored[f] EXCEPT ![s] = d[s]] \in Deck
  BY <1>1 DEF Deck
<1>3. QED
  BY <1>2 DEF Overwritten, Files

(* The files are taken in the order of the two sequences.                  *)
LEMMA InFile ==
  ASSUME NEW n \in 0..2
  PROVE  Uploads[n + 1] \in File /\ Promotions[n + 1] \in File
<1>1. n = 0 \/ n = 1 \/ n = 2
  OBVIOUS
<1>2. QED
  BY <1>1 DEF Uploads, Promotions, File

(* The slide of an attempt is a slide, its files are decks.                *)
LEMMA VersionTyped ==
  ASSUME TypeOK, NEW r \in Run, NEW v \in Version
  PROVE  Edited(r, v) \in Version
  BY DEF Edited, Version


(* Types: one more execution or file never leaves its bounds.              *)
LEMMA TypeStep == TypeOK /\ Engaged /\ [Next]_vars => TypeOK'
<1> SUFFICES ASSUME TypeOK, Engaged, [Next]_vars PROVE TypeOK'
  OBVIOUS
<1>0. LocalsTyped
  BY DEF TypeOK, LocalsTyped
<1> USE NumberAssumption, NoneAssumption
    DEF TypeOK, Engaged, SlideOf, Deck, Version, Files, File, InProgress, Processing, Claimed,
        Live, Blank, rows, tasks, locals, bucket, history
<1>1. ASSUME NEW t \in Task, NEW s \in Slide, Ask(t, s) PROVE TypeOK'
  <2>1. status' \in [Slide -> InProgress \cup {"completed", "error"}] /\ retries' \subseteq Task
    BY <1>1 DEF Ask
  <2>2. queue' \subseteq Task /\ lost' \subseteq Task
    BY <1>1 DEF Ask
  <2>3. slideOf' \in [Task -> Slide \cup {None}] /\ latest' \in [Slide -> Task \cup {None}]
    BY <1>1 DEF Ask
  <2>4. UNCHANGED <<fills, claims, locals, bucket, accepted, promoted, overlap>>
    BY <1>1 DEF Ask
  <2>5. QED
    BY <2>1, <2>2, <2>3, <2>4
<1>2. ASSUME NEW r \in Run, NEW t \in Task, NEW h \in Host, Deliver(r, t, h) PROVE TypeOK'
  BY <1>2 DEF Deliver, Pushable, Arrives, Go
<1>3. ASSUME NEW r \in Run, NEW t \in Task, NEW h \in Host, SkipInFlight(r, t, h) PROVE TypeOK'
  BY <1>3 DEF SkipInFlight, Pushable, Arrives, Go
<1>4. ASSUME NEW t \in Task, GiveUp(t) PROVE TypeOK'
  BY <1>4 DEF GiveUp
<1>5. ASSUME NEW s \in Slide, HealStuck(s) PROVE TypeOK'
  BY <1>5 DEF HealStuck
<1>6. ASSUME NEW h \in Host, Crash(h) PROVE TypeOK'
  BY <1>6 DEF Crash
<1>7. ASSUME NEW r \in Run, ReadStatus(r) PROVE TypeOK'
  BY <1>7 DEF ReadStatus, Go
<1>8. ASSUME NEW r \in Run, SkipSettled(r) PROVE TypeOK'
  BY <1>8 DEF SkipSettled, End, Release, Go
<1>9. ASSUME NEW r \in Run, StatusReadFails(r) PROVE TypeOK'
  <2>1. LocalsTyped'
    BY <1>9, <1>0, EndTyped DEF StatusReadFails
  <2>2. lost' \subseteq Task /\ UNCHANGED <<rows, tasks, bucket, latest, accepted, promoted, overlap>>
    BY <1>9 DEF StatusReadFails
  <2>3. QED
    BY <2>1, <2>2 DEF LocalsTyped
<1>10. ASSUME NEW r \in Run, Acquire(r) PROVE TypeOK'
  BY <1>10 DEF Acquire, Go
<1>11. ASSUME NEW r \in Run, AcquireRefused(r) PROVE TypeOK'
  <2>1. LocalsTyped'
    BY <1>11, <1>0, EndTyped DEF AcquireRefused
  <2>2. lost' \subseteq Task /\ UNCHANGED <<rows, tasks, bucket, latest, accepted, promoted, overlap>>
    BY <1>11 DEF AcquireRefused
  <2>3. QED
    BY <2>1, <2>2 DEF LocalsTyped
<1>12. ASSUME NEW r \in Run, ReadContext(r) PROVE TypeOK'
  BY <1>12 DEF ReadContext, Go
<1>13. ASSUME NEW r \in Run, ContextReadFails(r) PROVE TypeOK'
  BY <1>13 DEF ContextReadFails, End, Release, Go
<1>14. ASSUME NEW r \in Run, MakeDeck(r) PROVE TypeOK'
  <2>1. stored["pptx"] \in Deck
    OBVIOUS
  <2>2. Edited(r, stored["pptx"][SlideOf(r)]) \in Version
    BY <1>14, <2>1, VersionTyped DEF MakeDeck
  <2>3. EditedDeck(r, stored["pptx"]) \in Deck
    BY <2>1, <2>2 DEF EditedDeck
  <2>4. LocalsTyped'
    BY <1>14, <1>0, <2>3 DEF MakeDeck, Go, LocalsTyped
  <2>5. UNCHANGED <<rows, tasks, bucket, history>>
    BY <1>14 DEF MakeDeck
  <2>6. QED
    BY <2>4, <2>5 DEF LocalsTyped
<1>15. ASSUME NEW r \in Run, WorkFails(r) PROVE TypeOK'
  BY <1>15 DEF WorkFails, Go
<1>16. ASSUME NEW r \in Run, Upload(r) PROVE TypeOK'
  <2>1. at[r] \in 0..2
    <3>1. pc[r] = "uploading"
      BY <1>16 DEF Upload
    <3>2. QED
      BY <3>1
  <2>2. Uploads[at[r] + 1] \in File /\ deck[r] \in Deck /\ taskOf[r] \in Task
    BY <1>16, <2>1, InFile DEF Upload
  <2>3. attempt' \in [Task -> Files]
    BY <1>16, <2>2 DEF Upload, Rendered
  <2>4. LocalsTyped'
    BY <1>16, <1>0, <2>1 DEF Upload, OneMore, Go, LocalsTyped
  <2>5. UNCHANGED <<rows, tasks, backup, stored, pictured, history>>
    BY <1>16 DEF Upload
  <2>6. QED
    BY <2>3, <2>4, <2>5 DEF LocalsTyped
<1>17. ASSUME NEW r \in Run, SendRegenerated(r) PROVE TypeOK'
  BY <1>17 DEF SendRegenerated, Regenerated, Go, Edited, IsRetry
<1>18. ASSUME NEW r \in Run, RegeneratedUnanswered(r) PROVE TypeOK'
  <2>1. LocalsTyped'
    BY <1>18, <1>0, TroubleTyped DEF RegeneratedUnanswered
  <2>2. Edited(r, base[r]) \in Version
    BY VersionTyped
  <2>3. status' \in [Slide -> InProgress \cup {"completed", "error"}] /\ fills' \in Deck /\ accepted' \subseteq Run
    BY <1>18, <2>2 DEF RegeneratedUnanswered, Regenerated
  <2>4. UNCHANGED <<tasks, bucket, latest, promoted, overlap, lost>>
    BY <1>18 DEF RegeneratedUnanswered
  <2>5. QED
    BY <2>1, <2>3, <2>4 DEF LocalsTyped
<1>19. ASSUME NEW r \in Run, RegeneratedRefused(r) PROVE TypeOK'
  <2>1. LocalsTyped'
    BY <1>19, <1>0, TroubleTyped DEF RegeneratedRefused
  <2>2. UNCHANGED <<rows, tasks, bucket, history>>
    BY <1>19 DEF RegeneratedRefused
  <2>3. QED
    BY <2>1, <2>2 DEF LocalsTyped
<1>20. ASSUME NEW r \in Run, SendPreviewError(r) PROVE TypeOK'
  BY <1>20 DEF SendPreviewError, PreviewError, End, Release, Go
<1>21. ASSUME NEW r \in Run, PreviewErrorUnanswered(r) PROVE TypeOK'
  <2>1. LocalsTyped'
    <3>1. CASE UNCHANGED <<claims, locals>>
      BY <1>0, <3>1 DEF LocalsTyped
    <3>2. CASE End(r, "done")
      BY <1>0, <3>2, EndTyped
    <3>3. QED
      BY <1>21, <3>1, <3>2 DEF PreviewErrorUnanswered
  <2>2. status' \in [Slide -> InProgress \cup {"completed", "error"}]
    BY <1>21 DEF PreviewErrorUnanswered, PreviewError
  <2>3. UNCHANGED <<fills, tasks, bucket, history>>
    BY <1>21 DEF PreviewErrorUnanswered
  <2>4. QED
    BY <2>1, <2>2, <2>3 DEF LocalsTyped
<1>22. ASSUME NEW r \in Run, PreviewErrorRefused(r) PROVE TypeOK'
  BY <1>22 DEF PreviewErrorRefused, End, Release, Go
<1>23. ASSUME NEW r \in Run, BackUp(r) PROVE TypeOK'
  <2>1. at[r] \in 0..2
    BY <1>23 DEF BackUp
  <2>2. Turn(r) \in File /\ taskOf[r] \in Task
    BY <1>23, <2>1, InFile DEF BackUp, Turn
  <2>3. stored[Turn(r)] \in Deck
    BY <2>2
  <2>4. backup' \in [Task -> Files]
    BY <1>23, <2>2, <2>3 DEF BackUp
  <2>5. LocalsTyped'
    BY <1>23, <1>0, <2>1 DEF BackUp, OneMore, Go, LocalsTyped
  <2>6. UNCHANGED <<rows, tasks, attempt, stored, pictured, history>>
    BY <1>23 DEF BackUp
  <2>7. QED
    BY <2>4, <2>5, <2>6 DEF LocalsTyped
<1>24. ASSUME NEW r \in Run, Copy(r) PROVE TypeOK'
  <2>1. at[r] \in 0..2
    BY <1>24 DEF Copy
  <2>2. Turn(r) \in File /\ taskOf[r] \in Task /\ SlideOf(r) \in Slide
    BY <1>24, <2>1, InFile DEF Copy, Turn
  <2>3. attempt[taskOf[r]][Turn(r)] \in Deck
    <3>1. attempt[taskOf[r]] \in Files
      BY <2>2, Zenon
    <3>2. QED
      BY <2>2, <3>1, Zenon
  <2>4. stored' \in Files /\ pictured' \subseteq Slide
    BY <1>24, <2>2, <2>3, OverwrittenTyped DEF Copy, CopiedTo
  <2>5. LocalsTyped'
    BY <1>24, <1>0, <2>1 DEF Copy, LocalsTyped
  <2>6. UNCHANGED <<rows, tasks, attempt, backup, history>>
    BY <1>24 DEF Copy
  <2>7. QED
    BY <2>4, <2>5, <2>6 DEF LocalsTyped
<1>25. ASSUME NEW r \in Run, Promote(r) PROVE TypeOK'
  <2>1. at[r] \in 0..2
    BY <1>25 DEF Promote
  <2>2. Turn(r) \in File /\ taskOf[r] \in Task /\ SlideOf(r) \in Slide
    BY <1>25, <2>1, InFile DEF Promote, Turn
  <2>3. attempt[taskOf[r]][Turn(r)] \in Deck
    <3>1. attempt[taskOf[r]] \in Files
      BY <2>2, Zenon
    <3>2. QED
      BY <2>2, <3>1, Zenon
  <2>4. stored' \in Files /\ pictured' \subseteq Slide
    BY <1>25, <2>2, <2>3, OverwrittenTyped DEF Promote, CopiedTo
  <2>5. LocalsTyped'
    BY <1>25, <1>0, EndTyped DEF Promote
  <2>6. promoted' \subseteq Run /\ UNCHANGED <<rows, tasks, attempt, backup, latest, accepted, overlap, lost>>
    BY <1>25 DEF Promote
  <2>7. QED
    BY <2>4, <2>5, <2>6 DEF LocalsTyped
<1>26. ASSUME NEW r \in Run, PromoteFails(r) PROVE TypeOK'
  <2>1. at[r] \in 0..2
    BY <1>26 DEF PromoteFails
  <2>2. Turn(r) \in File /\ taskOf[r] \in Task /\ SlideOf(r) \in Slide
    BY <1>26, <2>1, InFile DEF PromoteFails, Turn
  <2>3. attempt[taskOf[r]][Turn(r)] \in Deck
    <3>1. attempt[taskOf[r]] \in Files
      BY <2>2, Zenon
    <3>2. QED
      BY <2>2, <3>1, Zenon
  <2>4. stored' \in Files /\ pictured' \subseteq Slide
    <3>1. CASE CopiedTo(r)
      BY <3>1, <2>2, <2>3, OverwrittenTyped DEF CopiedTo
    <3>2. CASE UNCHANGED <<stored, pictured>>
      BY <3>2
    <3>3. QED
      BY <1>26, <3>1, <3>2 DEF PromoteFails
  <2>5. at' = at \/ at' = [at EXCEPT ![r] = 3]
    BY <1>26 DEF PromoteFails
  <2>6. LocalsTyped'
    BY <1>26, <1>0, <2>5 DEF PromoteFails, Go, LocalsTyped
  <2>7. UNCHANGED <<rows, tasks, attempt, backup, history>>
    BY <1>26 DEF PromoteFails
  <2>8. QED
    BY <2>4, <2>6, <2>7 DEF LocalsTyped
<1>27. ASSUME NEW r \in Run, Restore(r) PROVE TypeOK'
  <2>1. at[r] - 1 \in 0..2 /\ Promotions[at[r]] \in File
    <3>1. at[r] \in 1..3
      BY <1>27 DEF Restore
    <3>2. Promotions[(at[r] - 1) + 1] \in File
      BY <3>1, InFile
    <3>3. QED
      BY <3>1, <3>2
  <2>2. taskOf[r] \in Task /\ SlideOf(r) \in Slide
    BY <1>27 DEF Restore
  <2>3. backup[taskOf[r]][Promotions[at[r]]] \in Deck
    <3>1. backup[taskOf[r]] \in Files
      BY <2>2, Zenon
    <3>2. QED
      BY <2>1, <3>1, Zenon
  <2>4. stored' \in Files
    <3>1. Overwritten(Promotions[at[r]], backup[taskOf[r]][Promotions[at[r]]], SlideOf(r)) \in Files
      BY <2>1, <2>2, <2>3, OverwrittenTyped
    <3>2. QED
      BY <1>27, <3>1 DEF Restore
  <2>5. LocalsTyped'
    BY <1>27, <1>0, <2>1 DEF Restore, LocalsTyped
  <2>6. UNCHANGED <<rows, tasks, attempt, backup, pictured, history>>
    BY <1>27 DEF Restore
  <2>7. QED
    BY <2>4, <2>5, <2>6 DEF LocalsTyped
<1>28. ASSUME NEW r \in Run, PromoteGivenUp(r) PROVE TypeOK'
  BY <1>28 DEF PromoteGivenUp, End, Release, Go
<1>29. ASSUME NEW r \in Run, Acknowledge(r) PROVE TypeOK'
  <2>1. LocalsTyped'
    BY <1>29, <1>0, EndTyped DEF Acknowledge
  <2>2. queue' \subseteq Task /\ UNCHANGED <<rows, slideOf, retries, bucket, history>>
    BY <1>29 DEF Acknowledge
  <2>3. QED
    BY <2>1, <2>2 DEF LocalsTyped
<1>30. ASSUME NEW r \in Run, AnswerUnheard(r) PROVE TypeOK'
  BY <1>30 DEF AnswerUnheard, End, Release, Go
<1>31. CASE UNCHANGED vars
  BY <1>31 DEF vars
<1>32. QED
  BY <1>1, <1>2, <1>3, <1>4, <1>5, <1>6, <1>7, <1>8, <1>9, <1>10, <1>11,
     <1>12, <1>13, <1>14, <1>15, <1>16, <1>17, <1>18, <1>19, <1>20, <1>21,
     <1>22, <1>23, <1>24, <1>25, <1>26, <1>27, <1>28, <1>29, <1>30, <1>31 DEF Next, Step

(* An execution keeps its task, and a task its slide.                       *)
LEMMA EngagedStep == TypeOK /\ Engaged /\ [Next]_vars => Engaged'
<1> SUFFICES ASSUME TypeOK, Engaged, [Next]_vars PROVE Engaged'
  OBVIOUS
<1> USE NoneAssumption
    DEF TypeOK, SlideOf, InProgress, Processing, Claimed, Live, rows, tasks, locals,
        bucket, history, Engaged
<1>1. ASSUME NEW t \in Task, NEW s \in Slide, Ask(t, s) PROVE Engaged'
  BY <1>1 DEF Ask, Busy
<1>2. ASSUME NEW r \in Run, NEW t \in Task, NEW h \in Host, Deliver(r, t, h) PROVE Engaged'
  BY <1>2 DEF Deliver, Pushable, Arrives, Go
<1>3. ASSUME NEW r \in Run, NEW t \in Task, NEW h \in Host, SkipInFlight(r, t, h) PROVE Engaged'
  BY <1>3 DEF SkipInFlight, Pushable, Arrives, Go
<1>4. ASSUME NEW t \in Task, GiveUp(t) PROVE Engaged'
  BY <1>4 DEF GiveUp
<1>5. ASSUME NEW s \in Slide, HealStuck(s) PROVE Engaged'
  BY <1>5 DEF HealStuck
<1>6. ASSUME NEW h \in Host, Crash(h) PROVE Engaged'
  BY <1>6 DEF Crash
<1>7. ASSUME NEW r \in Run, ReadStatus(r) PROVE Engaged'
  BY <1>7 DEF ReadStatus, Go
<1>8. ASSUME NEW r \in Run, SkipSettled(r) PROVE Engaged'
  BY <1>8 DEF SkipSettled, End, Release, Go
<1>9. ASSUME NEW r \in Run, StatusReadFails(r) PROVE Engaged'
  BY <1>9 DEF StatusReadFails, End, Release, Go
<1>10. ASSUME NEW r \in Run, Acquire(r) PROVE Engaged'
  BY <1>10 DEF Acquire, Go
<1>11. ASSUME NEW r \in Run, AcquireRefused(r) PROVE Engaged'
  BY <1>11 DEF AcquireRefused, End, Release, Go
<1>12. ASSUME NEW r \in Run, ReadContext(r) PROVE Engaged'
  BY <1>12 DEF ReadContext, Go
<1>13. ASSUME NEW r \in Run, ContextReadFails(r) PROVE Engaged'
  BY <1>13 DEF ContextReadFails, End, Release, Go
<1>14. ASSUME NEW r \in Run, MakeDeck(r) PROVE Engaged'
  BY <1>14 DEF MakeDeck, Go
<1>15. ASSUME NEW r \in Run, WorkFails(r) PROVE Engaged'
  BY <1>15 DEF WorkFails, Go
<1>16. ASSUME NEW r \in Run, Upload(r) PROVE Engaged'
  BY <1>16 DEF Upload, OneMore, Go
<1>17. ASSUME NEW r \in Run, SendRegenerated(r) PROVE Engaged'
  BY <1>17 DEF SendRegenerated, Regenerated, Go
<1>18. ASSUME NEW r \in Run, RegeneratedUnanswered(r) PROVE Engaged'
  BY <1>18 DEF RegeneratedUnanswered, Regenerated, CallbackTrouble, End, Release, Go
<1>19. ASSUME NEW r \in Run, RegeneratedRefused(r) PROVE Engaged'
  BY <1>19 DEF RegeneratedRefused, CallbackTrouble, End, Release, Go
<1>20. ASSUME NEW r \in Run, SendPreviewError(r) PROVE Engaged'
  BY <1>20 DEF SendPreviewError, PreviewError, End, Release, Go
<1>21. ASSUME NEW r \in Run, PreviewErrorUnanswered(r) PROVE Engaged'
  BY <1>21 DEF PreviewErrorUnanswered, PreviewError, End, Release, Go
<1>22. ASSUME NEW r \in Run, PreviewErrorRefused(r) PROVE Engaged'
  BY <1>22 DEF PreviewErrorRefused, End, Release, Go
<1>23. ASSUME NEW r \in Run, BackUp(r) PROVE Engaged'
  BY <1>23 DEF BackUp, OneMore, Go
<1>24. ASSUME NEW r \in Run, Copy(r) PROVE Engaged'
  BY <1>24 DEF Copy
<1>25. ASSUME NEW r \in Run, Promote(r) PROVE Engaged'
  BY <1>25 DEF Promote, End, Release, Go
<1>26. ASSUME NEW r \in Run, PromoteFails(r) PROVE Engaged'
  BY <1>26 DEF PromoteFails, Go
<1>27. ASSUME NEW r \in Run, Restore(r) PROVE Engaged'
  BY <1>27 DEF Restore
<1>28. ASSUME NEW r \in Run, PromoteGivenUp(r) PROVE Engaged'
  BY <1>28 DEF PromoteGivenUp, End, Release, Go
<1>29. ASSUME NEW r \in Run, Acknowledge(r) PROVE Engaged'
  BY <1>29 DEF Acknowledge, End, Release, Go
<1>30. ASSUME NEW r \in Run, AnswerUnheard(r) PROVE Engaged'
  BY <1>30 DEF AnswerUnheard, End, Release, Go
<1>31. CASE UNCHANGED vars
  BY <1>31 DEF vars
<1>32. QED
  BY <1>1, <1>2, <1>3, <1>4, <1>5, <1>6, <1>7, <1>8, <1>9, <1>10, <1>11,
     <1>12, <1>13, <1>14, <1>15, <1>16, <1>17, <1>18, <1>19, <1>20, <1>21,
     <1>22, <1>23, <1>24, <1>25, <1>26, <1>27, <1>28, <1>29, <1>30, <1>31 DEF Next, Step

(* A run keeps its claim from step to step.                                *)
LEMMA KeepHeld ==
  ASSUME Held, UNCHANGED <<claims, slideOf, taskOf, host>>,
         \A q \in Run : pc'[q] \in Claimed <=> pc[q] \in Claimed
  PROVE  Held'
<1>1. \A q \in Run : SlideOf(q)' = SlideOf(q)
  BY DEF SlideOf
<1>2. QED
  BY <1>1 DEF Held

(* The claim of a run is given back with the end of the run, and no other is. *)
LEMMA EndHeld ==
  ASSUME TypeOK, Engaged, Held, NEW r \in Run, pc[r] # "idle", NEW to \in {"acking", "done"},
         End(r, to), UNCHANGED slideOf
  PROVE  Held'
<1> USE DEF Engaged, SlideOf
<1>1. /\ pc' = [pc EXCEPT ![r] = to] /\ to \notin Claimed
      /\ UNCHANGED <<taskOf, host, slideOf>>
      /\ pc \in [Run -> Live \cup {"idle", "done"}]
      /\ claims \in [Host -> SUBSET Slide]
      /\ host[r] \in Host
  BY DEF TypeOK, End, Go, Claimed, Processing
<1>2. \A q \in Run : pc'[q] \in Claimed <=> q # r /\ pc[q] \in Claimed
  BY <1>1
<1>3. \A q \in Run : SlideOf(q)' = SlideOf(q)
  BY <1>1
<1>4. CASE pc[r] \in Claimed
  <2>1. claims' = [claims EXCEPT ![host[r]] = @ \ {SlideOf(r)}]
    BY <1>4 DEF End, Release
  <2>2. \A h \in Host, s \in Slide :
          s \in claims'[h] <=> s \in claims[h] /\ ~(h = host[r] /\ s = SlideOf(r))
    BY <1>1, <2>1
  <2>3. ASSUME NEW h \in Host, NEW s \in Slide
        PROVE  s \in claims'[h]
                 <=> \E q \in Run : pc'[q] \in Claimed /\ host'[q] = h /\ SlideOf(q)' = s
    <3>1. ASSUME s \in claims'[h]
          PROVE  \E q \in Run : pc'[q] \in Claimed /\ host'[q] = h /\ SlideOf(q)' = s
      <4>1. PICK q \in Run : pc[q] \in Claimed /\ host[q] = h /\ SlideOf(q) = s
        BY <3>1, <2>2 DEF Held
      <4>2. q # r
        BY <3>1, <4>1, <2>2
      <4>3. QED
        BY <1>1, <1>2, <4>1, <4>2
    <3>2. ASSUME NEW q \in Run, pc'[q] \in Claimed, host'[q] = h, SlideOf(q)' = s
          PROVE  s \in claims'[h]
      <4>1. q # r /\ pc[q] \in Claimed /\ host[q] = h /\ SlideOf(q) = s
        BY <1>1, <1>2, <3>2
      <4>2. ~(h = host[r] /\ s = SlideOf(r))
        BY <1>4, <4>1 DEF Held
      <4>3. s \in claims[h]
        BY <4>1 DEF Held
      <4>4. QED
        BY <2>2, <4>2, <4>3
    <3>3. QED
      BY <3>1, <3>2
  <2>4. ASSUME NEW p \in Run, NEW q \in Run, pc'[p] \in Claimed, pc'[q] \in Claimed,
               host'[p] = host'[q], SlideOf(p)' = SlideOf(q)'
        PROVE  p = q
    BY <1>1, <1>2, <2>4 DEF Held
  <2>5. QED
    BY <2>3, <2>4 DEF Held
<1>5. CASE pc[r] \notin Claimed
  <2>1. claims' = claims
    BY <1>5 DEF End, Release
  <2>2. QED
    BY <1>1, <1>2, <1>3, <1>5, <2>1 DEF Held
<1>6. QED
  BY <1>4, <1>5

(* A key enters the registry with a run and leaves it with the run.         *)
LEMMA HeldStep == TypeOK /\ Engaged /\ Inv /\ [Next]_vars => Held'
<1> SUFFICES ASSUME TypeOK, Engaged, Inv, [Next]_vars PROVE Held'
  OBVIOUS
<1> USE NoneAssumption
    DEF TypeOK, SlideOf, InProgress, Processing, Claimed, Live, rows, tasks, locals,
        bucket, history, Engaged, Inv
<1>1. ASSUME NEW t \in Task, NEW s \in Slide, Ask(t, s) PROVE Held'
  BY <1>1 DEF Ask, Busy, Held
<1>2. ASSUME NEW r \in Run, NEW t \in Task, NEW h \in Host, Deliver(r, t, h) PROVE Held'
  BY <1>2 DEF Deliver, Pushable, Arrives, Go, Held
<1>3. ASSUME NEW r \in Run, NEW t \in Task, NEW h \in Host, SkipInFlight(r, t, h) PROVE Held'
  BY <1>3 DEF SkipInFlight, Pushable, Arrives, Go, Held
<1>4. ASSUME NEW t \in Task, GiveUp(t) PROVE Held'
  BY <1>4 DEF GiveUp, Held
<1>5. ASSUME NEW s \in Slide, HealStuck(s) PROVE Held'
  BY <1>5 DEF HealStuck, Held
<1>6. ASSUME NEW h \in Host, Crash(h) PROVE Held'
  <2>1. \A q \in Run : pc'[q] \in Claimed <=> pc[q] \in Claimed /\ host[q] # h
    BY <1>6 DEF Crash
  <2>2. claims' = [claims EXCEPT ![h] = {}] /\ UNCHANGED <<taskOf, host, slideOf>>
    BY <1>6 DEF Crash
  <2>3. \A q \in Run : SlideOf(q)' = SlideOf(q)
    BY <2>2
  <2>4. \A g \in Host, s \in Slide : s \in claims'[g] <=> s \in claims[g] /\ g # h
    BY <2>2
  <2>5. ASSUME NEW g \in Host, NEW s \in Slide
        PROVE  s \in claims'[g]
                 <=> \E q \in Run : pc'[q] \in Claimed /\ host'[q] = g /\ SlideOf(q)' = s
    <3> HIDE DEF Claimed
    <3>1. s \in claims[g] <=> \E q \in Run : pc[q] \in Claimed /\ host[q] = g /\ SlideOf(q) = s
      BY DEF Inv, Held
    <3>2. QED
      BY <2>1, <2>2, <2>4, <3>1
  <2>6. ASSUME NEW p \in Run, NEW q \in Run, pc'[p] \in Claimed, pc'[q] \in Claimed,
               host'[p] = host'[q], SlideOf(p)' = SlideOf(q)'
        PROVE  p = q
    BY <2>1, <2>2, <2>6 DEF Held
  <2>7. QED
    BY <2>5, <2>6 DEF Held
<1>7. ASSUME NEW r \in Run, ReadStatus(r) PROVE Held'
  <2>1. UNCHANGED <<claims, slideOf, taskOf, host>>
    BY <1>7 DEF ReadStatus
  <2>2. \A q \in Run : pc'[q] \in Claimed <=> pc[q] \in Claimed
    BY <1>7 DEF ReadStatus, Go
  <2>3. QED
    BY <2>1, <2>2, KeepHeld DEF Inv
<1>8. ASSUME NEW r \in Run, SkipSettled(r) PROVE Held'
  BY <1>8, EndHeld DEF SkipSettled, Held
<1>9. ASSUME NEW r \in Run, StatusReadFails(r) PROVE Held'
  BY <1>9, EndHeld DEF StatusReadFails, Held
<1>10. ASSUME NEW r \in Run, Acquire(r) PROVE Held'
  BY <1>10 DEF Acquire, Go, Held
<1>11. ASSUME NEW r \in Run, AcquireRefused(r) PROVE Held'
  BY <1>11, EndHeld DEF AcquireRefused, Held
<1>12. ASSUME NEW r \in Run, ReadContext(r) PROVE Held'
  <2>1. UNCHANGED <<claims, slideOf, taskOf, host>>
    BY <1>12 DEF ReadContext
  <2>2. \A q \in Run : pc'[q] \in Claimed <=> pc[q] \in Claimed
    BY <1>12 DEF ReadContext, Go
  <2>3. QED
    BY <2>1, <2>2, KeepHeld DEF Inv
<1>13. ASSUME NEW r \in Run, ContextReadFails(r) PROVE Held'
  BY <1>13, EndHeld DEF ContextReadFails, Held
<1>14. ASSUME NEW r \in Run, MakeDeck(r) PROVE Held'
  <2>1. UNCHANGED <<claims, slideOf, taskOf, host>>
    BY <1>14 DEF MakeDeck
  <2>2. \A q \in Run : pc'[q] \in Claimed <=> pc[q] \in Claimed
    BY <1>14 DEF MakeDeck, Go
  <2>3. QED
    BY <2>1, <2>2, KeepHeld DEF Inv
<1>15. ASSUME NEW r \in Run, WorkFails(r) PROVE Held'
  <2>1. UNCHANGED <<claims, slideOf, taskOf, host>>
    BY <1>15 DEF WorkFails
  <2>2. \A q \in Run : pc'[q] \in Claimed <=> pc[q] \in Claimed
    BY <1>15 DEF WorkFails, Go
  <2>3. QED
    BY <2>1, <2>2, KeepHeld DEF Inv
<1>16. ASSUME NEW r \in Run, Upload(r) PROVE Held'
  <2>1. UNCHANGED <<claims, slideOf, taskOf, host>>
    BY <1>16 DEF Upload
  <2>2. \A q \in Run : pc'[q] \in Claimed <=> pc[q] \in Claimed
    BY <1>16 DEF Upload, Go
  <2>3. QED
    BY <2>1, <2>2, KeepHeld DEF Inv
<1>17. ASSUME NEW r \in Run, SendRegenerated(r) PROVE Held'
  <2>1. UNCHANGED <<claims, slideOf, taskOf, host>>
    BY <1>17 DEF SendRegenerated
  <2>2. \A q \in Run : pc'[q] \in Claimed <=> pc[q] \in Claimed
    BY <1>17 DEF SendRegenerated, Go
  <2>3. QED
    BY <2>1, <2>2, KeepHeld DEF Inv
<1>18. ASSUME NEW r \in Run, RegeneratedUnanswered(r) PROVE Held'
  <2>1. CASE End(r, "done")
    BY <1>18, <2>1, EndHeld DEF RegeneratedUnanswered, Inv
  <2>2. CASE ~End(r, "done")
    <3>1. UNCHANGED <<claims, slideOf, taskOf, host>>
      BY <1>18, <2>2 DEF RegeneratedUnanswered, CallbackTrouble
    <3>2. \A q \in Run : pc'[q] \in Claimed <=> pc[q] \in Claimed
      BY <1>18, <2>2 DEF RegeneratedUnanswered, Go, CallbackTrouble
    <3>3. QED
      BY <3>1, <3>2, KeepHeld DEF Inv
  <2>3. QED
    BY <2>1, <2>2
<1>19. ASSUME NEW r \in Run, RegeneratedRefused(r) PROVE Held'
  <2>1. CASE End(r, "done")
    BY <1>19, <2>1, EndHeld DEF RegeneratedRefused, Inv
  <2>2. CASE ~End(r, "done")
    <3>1. UNCHANGED <<claims, slideOf, taskOf, host>>
      BY <1>19, <2>2 DEF RegeneratedRefused, CallbackTrouble
    <3>2. \A q \in Run : pc'[q] \in Claimed <=> pc[q] \in Claimed
      BY <1>19, <2>2 DEF RegeneratedRefused, Go, CallbackTrouble
    <3>3. QED
      BY <3>1, <3>2, KeepHeld DEF Inv
  <2>3. QED
    BY <2>1, <2>2
<1>20. ASSUME NEW r \in Run, SendPreviewError(r) PROVE Held'
  BY <1>20, EndHeld DEF SendPreviewError, Held
<1>21. ASSUME NEW r \in Run, PreviewErrorUnanswered(r) PROVE Held'
  <2>1. CASE End(r, "done")
    BY <1>21, <2>1, EndHeld DEF PreviewErrorUnanswered, Inv
  <2>2. CASE ~End(r, "done")
    <3>1. UNCHANGED <<claims, slideOf, taskOf, host>>
      BY <1>21, <2>2 DEF PreviewErrorUnanswered
    <3>2. \A q \in Run : pc'[q] \in Claimed <=> pc[q] \in Claimed
      BY <1>21, <2>2 DEF PreviewErrorUnanswered, Go
    <3>3. QED
      BY <3>1, <3>2, KeepHeld DEF Inv
  <2>3. QED
    BY <2>1, <2>2
<1>22. ASSUME NEW r \in Run, PreviewErrorRefused(r) PROVE Held'
  BY <1>22, EndHeld DEF PreviewErrorRefused, Held
<1>23. ASSUME NEW r \in Run, BackUp(r) PROVE Held'
  <2>1. UNCHANGED <<claims, slideOf, taskOf, host>>
    BY <1>23 DEF BackUp
  <2>2. \A q \in Run : pc'[q] \in Claimed <=> pc[q] \in Claimed
    BY <1>23 DEF BackUp, Go
  <2>3. QED
    BY <2>1, <2>2, KeepHeld DEF Inv
<1>24. ASSUME NEW r \in Run, Copy(r) PROVE Held'
  <2>1. UNCHANGED <<claims, slideOf, taskOf, host>>
    BY <1>24 DEF Copy
  <2>2. \A q \in Run : pc'[q] \in Claimed <=> pc[q] \in Claimed
    BY <1>24 DEF Copy, Go
  <2>3. QED
    BY <2>1, <2>2, KeepHeld DEF Inv
<1>25. ASSUME NEW r \in Run, Promote(r) PROVE Held'
  BY <1>25, EndHeld DEF Promote, Held
<1>26. ASSUME NEW r \in Run, PromoteFails(r) PROVE Held'
  <2>1. UNCHANGED <<claims, slideOf, taskOf, host>>
    BY <1>26 DEF PromoteFails
  <2>2. \A q \in Run : pc'[q] \in Claimed <=> pc[q] \in Claimed
    BY <1>26 DEF PromoteFails, Go
  <2>3. QED
    BY <2>1, <2>2, KeepHeld DEF Inv
<1>27. ASSUME NEW r \in Run, Restore(r) PROVE Held'
  <2>1. UNCHANGED <<claims, slideOf, taskOf, host>>
    BY <1>27 DEF Restore
  <2>2. \A q \in Run : pc'[q] \in Claimed <=> pc[q] \in Claimed
    BY <1>27 DEF Restore, Go
  <2>3. QED
    BY <2>1, <2>2, KeepHeld DEF Inv
<1>28. ASSUME NEW r \in Run, PromoteGivenUp(r) PROVE Held'
  BY <1>28, EndHeld DEF PromoteGivenUp, Held
<1>29. ASSUME NEW r \in Run, Acknowledge(r) PROVE Held'
  BY <1>29, EndHeld DEF Acknowledge, Held
<1>30. ASSUME NEW r \in Run, AnswerUnheard(r) PROVE Held'
  BY <1>30, EndHeld DEF AnswerUnheard, Held
<1>31. CASE UNCHANGED vars
  BY <1>31 DEF vars, Held
<1>32. QED
  BY <1>1, <1>2, <1>3, <1>4, <1>5, <1>6, <1>7, <1>8, <1>9, <1>10, <1>11,
     <1>12, <1>13, <1>14, <1>15, <1>16, <1>17, <1>18, <1>19, <1>20, <1>21,
     <1>22, <1>23, <1>24, <1>25, <1>26, <1>27, <1>28, <1>29, <1>30, <1>31 DEF Next, Step

(* Every loop leaves the count at zero.                                    *)
LEMMA CountedStep == TypeOK /\ Engaged /\ Inv /\ [Next]_vars => Counted'
<1> SUFFICES ASSUME TypeOK, Engaged, Inv, [Next]_vars PROVE Counted'
  OBVIOUS
<1> USE NoneAssumption
    DEF TypeOK, SlideOf, InProgress, Processing, Claimed, Live, rows, tasks, locals,
        bucket, history, Inv, Counted
<1>1. ASSUME NEW t \in Task, NEW s \in Slide, Ask(t, s) PROVE Counted'
  BY <1>1 DEF Ask, Busy
<1>2. ASSUME NEW r \in Run, NEW t \in Task, NEW h \in Host, Deliver(r, t, h) PROVE Counted'
  BY <1>2 DEF Deliver, Pushable, Arrives, Go
<1>3. ASSUME NEW r \in Run, NEW t \in Task, NEW h \in Host, SkipInFlight(r, t, h) PROVE Counted'
  BY <1>3 DEF SkipInFlight, Pushable, Arrives, Go
<1>4. ASSUME NEW t \in Task, GiveUp(t) PROVE Counted'
  BY <1>4 DEF GiveUp
<1>5. ASSUME NEW s \in Slide, HealStuck(s) PROVE Counted'
  BY <1>5 DEF HealStuck
<1>6. ASSUME NEW h \in Host, Crash(h) PROVE Counted'
  BY <1>6 DEF Crash
<1>7. ASSUME NEW r \in Run, ReadStatus(r) PROVE Counted'
  BY <1>7 DEF ReadStatus, Go
<1>8. ASSUME NEW r \in Run, SkipSettled(r) PROVE Counted'
  BY <1>8 DEF SkipSettled, End, Release, Go
<1>9. ASSUME NEW r \in Run, StatusReadFails(r) PROVE Counted'
  BY <1>9 DEF StatusReadFails, End, Release, Go
<1>10. ASSUME NEW r \in Run, Acquire(r) PROVE Counted'
  BY <1>10 DEF Acquire, Go
<1>11. ASSUME NEW r \in Run, AcquireRefused(r) PROVE Counted'
  BY <1>11 DEF AcquireRefused, End, Release, Go
<1>12. ASSUME NEW r \in Run, ReadContext(r) PROVE Counted'
  BY <1>12 DEF ReadContext, Go
<1>13. ASSUME NEW r \in Run, ContextReadFails(r) PROVE Counted'
  BY <1>13 DEF ContextReadFails, End, Release, Go
<1>14. ASSUME NEW r \in Run, MakeDeck(r) PROVE Counted'
  BY <1>14 DEF MakeDeck, Go
<1>15. ASSUME NEW r \in Run, WorkFails(r) PROVE Counted'
  BY <1>15 DEF WorkFails, Go
<1>16. ASSUME NEW r \in Run, Upload(r) PROVE Counted'
  BY <1>16 DEF Upload, OneMore, Go
<1>17. ASSUME NEW r \in Run, SendRegenerated(r) PROVE Counted'
  BY <1>17 DEF SendRegenerated, Regenerated, Go
<1>18. ASSUME NEW r \in Run, RegeneratedUnanswered(r) PROVE Counted'
  BY <1>18 DEF RegeneratedUnanswered, Regenerated, CallbackTrouble, End, Release, Go
<1>19. ASSUME NEW r \in Run, RegeneratedRefused(r) PROVE Counted'
  BY <1>19 DEF RegeneratedRefused, CallbackTrouble, End, Release, Go
<1>20. ASSUME NEW r \in Run, SendPreviewError(r) PROVE Counted'
  BY <1>20 DEF SendPreviewError, PreviewError, End, Release, Go
<1>21. ASSUME NEW r \in Run, PreviewErrorUnanswered(r) PROVE Counted'
  BY <1>21 DEF PreviewErrorUnanswered, PreviewError, End, Release, Go
<1>22. ASSUME NEW r \in Run, PreviewErrorRefused(r) PROVE Counted'
  BY <1>22 DEF PreviewErrorRefused, End, Release, Go
<1>23. ASSUME NEW r \in Run, BackUp(r) PROVE Counted'
  BY <1>23 DEF BackUp, OneMore, Go
<1>24. ASSUME NEW r \in Run, Copy(r) PROVE Counted'
  BY <1>24 DEF Copy
<1>25. ASSUME NEW r \in Run, Promote(r) PROVE Counted'
  BY <1>25 DEF Promote, End, Release, Go
<1>26. ASSUME NEW r \in Run, PromoteFails(r) PROVE Counted'
  BY <1>26 DEF PromoteFails, Go
<1>27. ASSUME NEW r \in Run, Restore(r) PROVE Counted'
  BY <1>27 DEF Restore
<1>28. ASSUME NEW r \in Run, PromoteGivenUp(r) PROVE Counted'
  BY <1>28 DEF PromoteGivenUp, End, Release, Go
<1>29. ASSUME NEW r \in Run, Acknowledge(r) PROVE Counted'
  BY <1>29 DEF Acknowledge, End, Release, Go
<1>30. ASSUME NEW r \in Run, AnswerUnheard(r) PROVE Counted'
  BY <1>30 DEF AnswerUnheard, End, Release, Go
<1>31. CASE UNCHANGED vars
  BY <1>31 DEF vars
<1>32. QED
  BY <1>1, <1>2, <1>3, <1>4, <1>5, <1>6, <1>7, <1>8, <1>9, <1>10, <1>11,
     <1>12, <1>13, <1>14, <1>15, <1>16, <1>17, <1>18, <1>19, <1>20, <1>21,
     <1>22, <1>23, <1>24, <1>25, <1>26, <1>27, <1>28, <1>29, <1>30, <1>31 DEF Next, Step

(* Only Ask changes the last task of a slide.                                   *)
LEMMA TrackedStep == TypeOK /\ Engaged /\ Inv /\ [Next]_vars => Tracked'
<1> SUFFICES ASSUME TypeOK, Engaged, Inv, [Next]_vars PROVE Tracked'
  OBVIOUS
<1> USE NoneAssumption
    DEF TypeOK, SlideOf, InProgress, Processing, Claimed, Live, rows, tasks, locals,
        bucket, history, Engaged, Inv, Tracked
<1>1. ASSUME NEW t \in Task, NEW s \in Slide, Ask(t, s) PROVE Tracked'
  BY <1>1 DEF Ask, Busy
<1>2. ASSUME NEW r \in Run, NEW t \in Task, NEW h \in Host, Deliver(r, t, h) PROVE Tracked'
  BY <1>2 DEF Deliver, Pushable, Arrives, Go
<1>3. ASSUME NEW r \in Run, NEW t \in Task, NEW h \in Host, SkipInFlight(r, t, h) PROVE Tracked'
  BY <1>3 DEF SkipInFlight, Pushable, Arrives, Go
<1>4. ASSUME NEW t \in Task, GiveUp(t) PROVE Tracked'
  BY <1>4 DEF GiveUp
<1>5. ASSUME NEW s \in Slide, HealStuck(s) PROVE Tracked'
  BY <1>5 DEF HealStuck
<1>6. ASSUME NEW h \in Host, Crash(h) PROVE Tracked'
  BY <1>6 DEF Crash
<1>7. ASSUME NEW r \in Run, ReadStatus(r) PROVE Tracked'
  BY <1>7 DEF ReadStatus, Go
<1>8. ASSUME NEW r \in Run, SkipSettled(r) PROVE Tracked'
  BY <1>8 DEF SkipSettled, End, Release, Go
<1>9. ASSUME NEW r \in Run, StatusReadFails(r) PROVE Tracked'
  BY <1>9 DEF StatusReadFails, End, Release, Go
<1>10. ASSUME NEW r \in Run, Acquire(r) PROVE Tracked'
  BY <1>10 DEF Acquire, Go
<1>11. ASSUME NEW r \in Run, AcquireRefused(r) PROVE Tracked'
  BY <1>11 DEF AcquireRefused, End, Release, Go
<1>12. ASSUME NEW r \in Run, ReadContext(r) PROVE Tracked'
  BY <1>12 DEF ReadContext, Go
<1>13. ASSUME NEW r \in Run, ContextReadFails(r) PROVE Tracked'
  BY <1>13 DEF ContextReadFails, End, Release, Go
<1>14. ASSUME NEW r \in Run, MakeDeck(r) PROVE Tracked'
  BY <1>14 DEF MakeDeck, Go
<1>15. ASSUME NEW r \in Run, WorkFails(r) PROVE Tracked'
  BY <1>15 DEF WorkFails, Go
<1>16. ASSUME NEW r \in Run, Upload(r) PROVE Tracked'
  BY <1>16 DEF Upload, OneMore, Go
<1>17. ASSUME NEW r \in Run, SendRegenerated(r) PROVE Tracked'
  BY <1>17 DEF SendRegenerated, Regenerated, Go
<1>18. ASSUME NEW r \in Run, RegeneratedUnanswered(r) PROVE Tracked'
  BY <1>18 DEF RegeneratedUnanswered, Regenerated, CallbackTrouble, End, Release, Go
<1>19. ASSUME NEW r \in Run, RegeneratedRefused(r) PROVE Tracked'
  BY <1>19 DEF RegeneratedRefused, CallbackTrouble, End, Release, Go
<1>20. ASSUME NEW r \in Run, SendPreviewError(r) PROVE Tracked'
  BY <1>20 DEF SendPreviewError, PreviewError, End, Release, Go
<1>21. ASSUME NEW r \in Run, PreviewErrorUnanswered(r) PROVE Tracked'
  BY <1>21 DEF PreviewErrorUnanswered, PreviewError, End, Release, Go
<1>22. ASSUME NEW r \in Run, PreviewErrorRefused(r) PROVE Tracked'
  BY <1>22 DEF PreviewErrorRefused, End, Release, Go
<1>23. ASSUME NEW r \in Run, BackUp(r) PROVE Tracked'
  BY <1>23 DEF BackUp, OneMore, Go
<1>24. ASSUME NEW r \in Run, Copy(r) PROVE Tracked'
  BY <1>24 DEF Copy
<1>25. ASSUME NEW r \in Run, Promote(r) PROVE Tracked'
  BY <1>25 DEF Promote, End, Release, Go
<1>26. ASSUME NEW r \in Run, PromoteFails(r) PROVE Tracked'
  BY <1>26 DEF PromoteFails, Go
<1>27. ASSUME NEW r \in Run, Restore(r) PROVE Tracked'
  BY <1>27 DEF Restore
<1>28. ASSUME NEW r \in Run, PromoteGivenUp(r) PROVE Tracked'
  BY <1>28 DEF PromoteGivenUp, End, Release, Go
<1>29. ASSUME NEW r \in Run, Acknowledge(r) PROVE Tracked'
  BY <1>29 DEF Acknowledge, End, Release, Go
<1>30. ASSUME NEW r \in Run, AnswerUnheard(r) PROVE Tracked'
  BY <1>30 DEF AnswerUnheard, End, Release, Go
<1>31. CASE UNCHANGED vars
  BY <1>31 DEF vars
<1>32. QED
  BY <1>1, <1>2, <1>3, <1>4, <1>5, <1>6, <1>7, <1>8, <1>9, <1>10, <1>11,
     <1>12, <1>13, <1>14, <1>15, <1>16, <1>17, <1>18, <1>19, <1>20, <1>21,
     <1>22, <1>23, <1>24, <1>25, <1>26, <1>27, <1>28, <1>29, <1>30, <1>31 DEF Next, Step

(* A request that comes later is the slide's last.                             *)
LEMMA AnsweredStep == TypeOK /\ Engaged /\ Inv /\ [Next]_vars => Answered'
<1> SUFFICES ASSUME TypeOK, Engaged, Inv, [Next]_vars PROVE Answered'
  OBVIOUS
<1> USE NoneAssumption
    DEF TypeOK, SlideOf, InProgress, Processing, Claimed, Live, rows, tasks, locals,
        bucket, history, Engaged, Inv, Tracked, Answered
<1>1. ASSUME NEW t \in Task, NEW s \in Slide, Ask(t, s) PROVE Answered'
  BY <1>1 DEF Ask, Busy
<1>2. ASSUME NEW r \in Run, NEW t \in Task, NEW h \in Host, Deliver(r, t, h) PROVE Answered'
  BY <1>2 DEF Deliver, Pushable, Arrives, Go
<1>3. ASSUME NEW r \in Run, NEW t \in Task, NEW h \in Host, SkipInFlight(r, t, h) PROVE Answered'
  BY <1>3 DEF SkipInFlight, Pushable, Arrives, Go
<1>4. ASSUME NEW t \in Task, GiveUp(t) PROVE Answered'
  BY <1>4 DEF GiveUp
<1>5. ASSUME NEW s \in Slide, HealStuck(s) PROVE Answered'
  BY <1>5 DEF HealStuck
<1>6. ASSUME NEW h \in Host, Crash(h) PROVE Answered'
  BY <1>6 DEF Crash
<1>7. ASSUME NEW r \in Run, ReadStatus(r) PROVE Answered'
  BY <1>7 DEF ReadStatus, Go
<1>8. ASSUME NEW r \in Run, SkipSettled(r) PROVE Answered'
  BY <1>8 DEF SkipSettled, End, Release, Go
<1>9. ASSUME NEW r \in Run, StatusReadFails(r) PROVE Answered'
  BY <1>9 DEF StatusReadFails, End, Release, Go
<1>10. ASSUME NEW r \in Run, Acquire(r) PROVE Answered'
  BY <1>10 DEF Acquire, Go
<1>11. ASSUME NEW r \in Run, AcquireRefused(r) PROVE Answered'
  BY <1>11 DEF AcquireRefused, End, Release, Go
<1>12. ASSUME NEW r \in Run, ReadContext(r) PROVE Answered'
  BY <1>12 DEF ReadContext, Go
<1>13. ASSUME NEW r \in Run, ContextReadFails(r) PROVE Answered'
  BY <1>13 DEF ContextReadFails, End, Release, Go
<1>14. ASSUME NEW r \in Run, MakeDeck(r) PROVE Answered'
  BY <1>14 DEF MakeDeck, Go
<1>15. ASSUME NEW r \in Run, WorkFails(r) PROVE Answered'
  BY <1>15 DEF WorkFails, Go
<1>16. ASSUME NEW r \in Run, Upload(r) PROVE Answered'
  BY <1>16 DEF Upload, OneMore, Go
<1>17. ASSUME NEW r \in Run, SendRegenerated(r) PROVE Answered'
  BY <1>17 DEF SendRegenerated, Regenerated, Go
<1>18. ASSUME NEW r \in Run, RegeneratedUnanswered(r) PROVE Answered'
  BY <1>18 DEF RegeneratedUnanswered, Regenerated, CallbackTrouble, End, Release, Go
<1>19. ASSUME NEW r \in Run, RegeneratedRefused(r) PROVE Answered'
  BY <1>19 DEF RegeneratedRefused, CallbackTrouble, End, Release, Go
<1>20. ASSUME NEW r \in Run, SendPreviewError(r) PROVE Answered'
  BY <1>20 DEF SendPreviewError, PreviewError, End, Release, Go
<1>21. ASSUME NEW r \in Run, PreviewErrorUnanswered(r) PROVE Answered'
  BY <1>21 DEF PreviewErrorUnanswered, PreviewError, End, Release, Go
<1>22. ASSUME NEW r \in Run, PreviewErrorRefused(r) PROVE Answered'
  BY <1>22 DEF PreviewErrorRefused, End, Release, Go
<1>23. ASSUME NEW r \in Run, BackUp(r) PROVE Answered'
  BY <1>23 DEF BackUp, OneMore, Go
<1>24. ASSUME NEW r \in Run, Copy(r) PROVE Answered'
  BY <1>24 DEF Copy
<1>25. ASSUME NEW r \in Run, Promote(r) PROVE Answered'
  BY <1>25 DEF Promote, End, Release, Go
<1>26. ASSUME NEW r \in Run, PromoteFails(r) PROVE Answered'
  BY <1>26 DEF PromoteFails, Go
<1>27. ASSUME NEW r \in Run, Restore(r) PROVE Answered'
  BY <1>27 DEF Restore
<1>28. ASSUME NEW r \in Run, PromoteGivenUp(r) PROVE Answered'
  BY <1>28 DEF PromoteGivenUp, End, Release, Go
<1>29. ASSUME NEW r \in Run, Acknowledge(r) PROVE Answered'
  BY <1>29 DEF Acknowledge, End, Release, Go
<1>30. ASSUME NEW r \in Run, AnswerUnheard(r) PROVE Answered'
  BY <1>30 DEF AnswerUnheard, End, Release, Go
<1>31. CASE UNCHANGED vars
  BY <1>31 DEF vars
<1>32. QED
  BY <1>1, <1>2, <1>3, <1>4, <1>5, <1>6, <1>7, <1>8, <1>9, <1>10, <1>11,
     <1>12, <1>13, <1>14, <1>15, <1>16, <1>17, <1>18, <1>19, <1>20, <1>21,
     <1>22, <1>23, <1>24, <1>25, <1>26, <1>27, <1>28, <1>29, <1>30, <1>31 DEF Next, Step

(* What is removed from the queue is Answered.                                  *)
LEMMA WorkStep == TypeOK /\ Engaged /\ Inv /\ [Next]_vars => WorkNotDropped'
<1> SUFFICES ASSUME TypeOK, Engaged, Inv, [Next]_vars PROVE WorkNotDropped'
  OBVIOUS
<1> USE NoneAssumption
    DEF TypeOK, SlideOf, InProgress, Processing, Claimed, Live, rows, tasks, locals,
        bucket, history, Engaged, Inv, Tracked, Answered, WorkNotDropped
<1>1. ASSUME NEW t \in Task, NEW s \in Slide, Ask(t, s) PROVE WorkNotDropped'
  BY <1>1 DEF Ask, Busy
<1>2. ASSUME NEW r \in Run, NEW t \in Task, NEW h \in Host, Deliver(r, t, h) PROVE WorkNotDropped'
  BY <1>2 DEF Deliver, Pushable, Arrives, Go
<1>3. ASSUME NEW r \in Run, NEW t \in Task, NEW h \in Host, SkipInFlight(r, t, h) PROVE WorkNotDropped'
  BY <1>3 DEF SkipInFlight, Pushable, Arrives, Go
<1>4. ASSUME NEW t \in Task, GiveUp(t) PROVE WorkNotDropped'
  BY <1>4 DEF GiveUp
<1>5. ASSUME NEW s \in Slide, HealStuck(s) PROVE WorkNotDropped'
  BY <1>5 DEF HealStuck
<1>6. ASSUME NEW h \in Host, Crash(h) PROVE WorkNotDropped'
  BY <1>6 DEF Crash
<1>7. ASSUME NEW r \in Run, ReadStatus(r) PROVE WorkNotDropped'
  BY <1>7 DEF ReadStatus, Go
<1>8. ASSUME NEW r \in Run, SkipSettled(r) PROVE WorkNotDropped'
  BY <1>8 DEF SkipSettled, End, Release, Go
<1>9. ASSUME NEW r \in Run, StatusReadFails(r) PROVE WorkNotDropped'
  BY <1>9 DEF StatusReadFails, End, Release, Go
<1>10. ASSUME NEW r \in Run, Acquire(r) PROVE WorkNotDropped'
  BY <1>10 DEF Acquire, Go
<1>11. ASSUME NEW r \in Run, AcquireRefused(r) PROVE WorkNotDropped'
  BY <1>11 DEF AcquireRefused, End, Release, Go
<1>12. ASSUME NEW r \in Run, ReadContext(r) PROVE WorkNotDropped'
  BY <1>12 DEF ReadContext, Go
<1>13. ASSUME NEW r \in Run, ContextReadFails(r) PROVE WorkNotDropped'
  BY <1>13 DEF ContextReadFails, End, Release, Go
<1>14. ASSUME NEW r \in Run, MakeDeck(r) PROVE WorkNotDropped'
  BY <1>14 DEF MakeDeck, Go
<1>15. ASSUME NEW r \in Run, WorkFails(r) PROVE WorkNotDropped'
  BY <1>15 DEF WorkFails, Go
<1>16. ASSUME NEW r \in Run, Upload(r) PROVE WorkNotDropped'
  BY <1>16 DEF Upload, OneMore, Go
<1>17. ASSUME NEW r \in Run, SendRegenerated(r) PROVE WorkNotDropped'
  BY <1>17 DEF SendRegenerated, Regenerated, Go
<1>18. ASSUME NEW r \in Run, RegeneratedUnanswered(r) PROVE WorkNotDropped'
  BY <1>18 DEF RegeneratedUnanswered, Regenerated, CallbackTrouble, End, Release, Go
<1>19. ASSUME NEW r \in Run, RegeneratedRefused(r) PROVE WorkNotDropped'
  BY <1>19 DEF RegeneratedRefused, CallbackTrouble, End, Release, Go
<1>20. ASSUME NEW r \in Run, SendPreviewError(r) PROVE WorkNotDropped'
  BY <1>20 DEF SendPreviewError, PreviewError, End, Release, Go
<1>21. ASSUME NEW r \in Run, PreviewErrorUnanswered(r) PROVE WorkNotDropped'
  BY <1>21 DEF PreviewErrorUnanswered, PreviewError, End, Release, Go
<1>22. ASSUME NEW r \in Run, PreviewErrorRefused(r) PROVE WorkNotDropped'
  BY <1>22 DEF PreviewErrorRefused, End, Release, Go
<1>23. ASSUME NEW r \in Run, BackUp(r) PROVE WorkNotDropped'
  BY <1>23 DEF BackUp, OneMore, Go
<1>24. ASSUME NEW r \in Run, Copy(r) PROVE WorkNotDropped'
  BY <1>24 DEF Copy
<1>25. ASSUME NEW r \in Run, Promote(r) PROVE WorkNotDropped'
  BY <1>25 DEF Promote, End, Release, Go
<1>26. ASSUME NEW r \in Run, PromoteFails(r) PROVE WorkNotDropped'
  BY <1>26 DEF PromoteFails, Go
<1>27. ASSUME NEW r \in Run, Restore(r) PROVE WorkNotDropped'
  BY <1>27 DEF Restore
<1>28. ASSUME NEW r \in Run, PromoteGivenUp(r) PROVE WorkNotDropped'
  BY <1>28 DEF PromoteGivenUp, End, Release, Go
<1>29. ASSUME NEW r \in Run, Acknowledge(r) PROVE WorkNotDropped'
  BY <1>29 DEF Acknowledge, End, Release, Go
<1>30. ASSUME NEW r \in Run, AnswerUnheard(r) PROVE WorkNotDropped'
  BY <1>30 DEF AnswerUnheard, End, Release, Go
<1>31. CASE UNCHANGED vars
  BY <1>31 DEF vars
<1>32. QED
  BY <1>1, <1>2, <1>3, <1>4, <1>5, <1>6, <1>7, <1>8, <1>9, <1>10, <1>11,
     <1>12, <1>13, <1>14, <1>15, <1>16, <1>17, <1>18, <1>19, <1>20, <1>21,
     <1>22, <1>23, <1>24, <1>25, <1>26, <1>27, <1>28, <1>29, <1>30, <1>31 DEF Next, Step

-----------------------------------------------------------------------------
(* At the start nobody works and nothing is asked for.                     *)
LEMMA InitInv == Init => TypeOK /\ Engaged /\ Inv
<1> SUFFICES ASSUME Init PROVE TypeOK /\ Engaged /\ Inv
  OBVIOUS
<1>1. Blank \in Deck /\ BlankFiles \in Files
  BY DEF Blank, BlankFiles, Deck, Version, Files
<1>2. TypeOK
  <2>1. status \in [Slide -> InProgress \cup {"completed", "error"}] /\ fills \in Deck
    BY <1>1 DEF Init
  <2>2. /\ queue \subseteq Task /\ retries \subseteq Task
        /\ slideOf \in [Task -> Slide \cup {None}] /\ latest \in [Slide -> Task \cup {None}]
    BY DEF Init
  <2>3. LocalsTyped
    BY <1>1 DEF Init, LocalsTyped, Version
  <2>4. /\ attempt \in [Task -> Files] /\ backup \in [Task -> Files] /\ stored \in Files
        /\ pictured \subseteq Slide
    BY <1>1 DEF Init
  <2>5. accepted \subseteq Run /\ promoted \subseteq Run /\ overlap \in BOOLEAN /\ lost \subseteq Task
    BY DEF Init
  <2>6. QED
    BY <2>1, <2>2, <2>3, <2>4, <2>5 DEF LocalsTyped, TypeOK
<1>3. Engaged
  BY DEF Init, Engaged
<1>4. Held /\ Counted /\ Tracked /\ Answered /\ WorkNotDropped
  BY DEF Init, Held, Counted, Tracked, Answered, WorkNotDropped, InProgress, Claimed, Processing
<1>5. QED
  BY <1>2, <1>3, <1>4 DEF Inv

(* The inductive invariant: types, what an execution works on, the registry slide by
   slide, and what an acknowledgement leaves behind.                       *)
THEOREM Invariance == Spec => [](TypeOK /\ Engaged /\ Inv)
<1>1. TypeOK /\ Engaged /\ Inv /\ [Next]_vars => (TypeOK /\ Engaged /\ Inv)'
  BY TypeStep, EngagedStep, HeldStep, CountedStep, TrackedStep, AnsweredStep, WorkStep DEF Inv
<1>2. QED
  BY InitInv, <1>1, PTL DEF Spec

(* Every variable keeps its type.                                          *)
THEOREM TypeCorrect == Spec => []TypeOK
  BY Invariance, PTL

(* The in-flight registry of every process is exact, whatever fails, and two executions in
   a process never work on the same slide.                                 *)
THEOREM RegistryExactHolds == Spec => []RegistryExact
<1>1. TypeOK /\ Engaged /\ Inv => RegistryExact
  <2> SUFFICES ASSUME TypeOK, Engaged, Inv, NEW h \in Host
               PROVE  /\ claims[h] = {SlideOf(r) : r \in Holding(h)}
                      /\ \A q, r \in Holding(h) : q # r => SlideOf(q) # SlideOf(r)
    BY DEF RegistryExact
  <2> DEFINE keys == {SlideOf(r) : r \in Holding(h)}
  <2>1. claims[h] \subseteq Slide
    BY DEF TypeOK
  <2>2. claims[h] \subseteq keys
    BY <2>1 DEF Inv, Held, Holding
  <2>3. keys \subseteq claims[h]
    <3> SUFFICES ASSUME NEW r \in Holding(h) PROVE SlideOf(r) \in claims[h]
      OBVIOUS
    <3>1. r \in Run /\ pc[r] \in Claimed /\ host[r] = h
      BY DEF Holding
    <3>2. SlideOf(r) \in Slide
      BY <3>1 DEF Engaged, Claimed, Processing
    <3>3. QED
      BY <3>1, <3>2 DEF Inv, Held
  <2>4. QED
    BY <2>2, <2>3 DEF Inv, Held, Holding
<1>2. QED
  BY Invariance, <1>1, PTL

(* No answer of a worker takes the last task of a slide that is waited for from the queue,
   unless the task is known to be lost.                                    *)
THEOREM WorkNotDroppedHolds == Spec => []WorkNotDropped
<1>1. TypeOK /\ Engaged /\ Inv => WorkNotDropped
  BY DEF Inv
<1>2. QED
  BY Invariance, <1>1, PTL
-----------------------------------------------------------------------------
(* The files, for any faults: what holds of the bucket as long as no two   *)
(* executions of the job overlap.                                          *)
(*                                                                         *)
(* The argument: one execution works at a time (Single), what it has       *)
(* uploaded is its deck and what it has backed up is what was there        *)
(* (Carried), and its deck differs from the canonical one in its own slide *)
(* only (Alike), where it is what the main server is told (Told).          *)

(* Where a run may be that has sent slide_regenerated.                     *)
Late == {"sending", "backup", "copy", "restore", "failing", "acking", "done"}
Promoting == {"backup", "copy", "restore"}
HasDeck == {"uploading", "sending", "backup", "copy"}

(* The place of a file among the uploads, and among the back-ups and copies. *)
UploadAt(f) == CASE f = "preview" -> 1 [] f = "pptx" -> 2 [] OTHER -> 3
PromotionAt(f) == CASE f = "pptx" -> 1 [] f = "pdf" -> 2 [] OTHER -> 3

Uploaded(r, f) ==
  \/ pc[r] \in {"sending", "backup", "copy"}
  \/ pc[r] = "uploading" /\ UploadAt(f) <= at[r]
Saved(r, f) ==
  \/ pc[r] = "copy"
  \/ pc[r] \in {"backup", "restore"} /\ PromotionAt(f) <= at[r]

(* An accepted result of the slide, other than that of r, was not promoted. *)
UnpromotedBut(r, s) == \E q \in accepted \ promoted : q # r /\ SlideOf(q) = s

Single == \A q, r \in Run : pc[q] \in Processing /\ pc[r] \in Processing => q = r

(* Results are accepted late, and promoted last.                           *)
Order ==
  /\ \A r \in accepted : pc[r] \in Late
  /\ \A r \in promoted : pc[r] \in {"acking", "done"}
  /\ \A r \in Run : pc[r] \in Promoting => r \in accepted

(* Nothing but accepted edits, and in the deck at work its own.            *)
Clean ==
  /\ \A s \in Slide : fills[s] \subseteq accepted
  /\ \A f \in File, s \in Slide : stored[f][s] \subseteq accepted
  /\ \A r \in Run : pc[r] \in Processing => base[r] \subseteq accepted
  /\ \A r \in Run, s \in Slide : pc[r] \in HasDeck => deck[r][s] \subseteq accepted \cup {r}
  /\ \A r \in Run, f \in File, s \in Slide :
       Saved(r, f) => backup[taskOf[r]][f][s] \subseteq accepted

(* The attempt holds the deck.                                             *)
Carried ==
  \A r \in Run, f \in File : Uploaded(r, f) => attempt[taskOf[r]][f] = deck[r]

(* The other slides of the deck at work, and of its back-up.               *)
Alike ==
  \A r \in Run, x \in Slide : pc[r] \in Processing /\ x # SlideOf(r) =>
    /\ pc[r] \in HasDeck =>
         /\ deck[r][x] = stored["pptx"][x]
         /\ deck[r][x] = fills[x] \/ Unpromoted(x)
    /\ Saved(r, "pptx") => backup[taskOf[r]]["pptx"][x] = stored["pptx"][x]
    /\ \A f \in {"pptx", "pdf"} :
         Saved(r, f) => backup[taskOf[r]][f][x] = fills[x] \/ Unpromoted(x)

(* The slide of the deck at work, what the main server holds of it, and the files that are
   copied already.                                                         *)
Told ==
  \A r \in Run :
    /\ pc[r] \in {"reading", "uploading", "sending"} =>
         \/ r \notin accepted /\ base[r] = fills[SlideOf(r)]
         \/ r \in accepted /\ fills[SlideOf(r)] = Edited(r, base[r])
    /\ pc[r] \in {"uploading", "sending"} =>
         deck[r][SlideOf(r)] = Edited(r, base[r]) \/ UnpromotedBut(r, SlideOf(r))
    /\ pc[r] \in {"backup", "copy"} =>
         deck[r][SlideOf(r)] = fills[SlideOf(r)] \/ UnpromotedBut(r, SlideOf(r))
    /\ \A f \in File : pc[r] = "copy" /\ PromotionAt(f) <= at[r] =>
         stored[f][SlideOf(r)] = deck[r][SlideOf(r)]

Shown == \A s \in Slide : Unpromoted(s) \/ AsShown(s)

FilesInv ==
  /\ \A r \in accepted : pc[r] # "idle"
  /\ ~overlap => Single /\ Order /\ Clean /\ Carried /\ Alike /\ Told /\ Shown

-----------------------------------------------------------------------------
(* A step that touches no file, tells the main server no result and lets no execution
   go on with one.                                                         *)
Quiet ==
  /\ UNCHANGED <<fills, bucket, accepted, promoted, overlap>>
  /\ \A q \in Run : pc[q] # "idle" =>
       /\ pc'[q] # "idle" /\ taskOf'[q] = taskOf[q]
       /\ slideOf'[taskOf[q]] = slideOf[taskOf[q]]
       /\ taskOf[q] \in retries' <=> taskOf[q] \in retries
  /\ \A q \in Run : pc'[q] \in Processing =>
       pc[q] = pc'[q] /\ base'[q] = base[q] /\ deck'[q] = deck[q] /\ at'[q] = at[q]
  /\ \A q \in Run : pc[q] \in Late => pc'[q] \in Late
  /\ \A q \in Run : pc[q] \in {"acking", "done"} => pc'[q] \in {"acking", "done"}

(* The accepted results that were not promoted are the same.               *)
LEMMA SameUnpromoted ==
  ASSUME TypeOK, FilesInv, Quiet
  PROVE  /\ \A s \in Slide : Unpromoted(s) => Unpromoted(s)'
         /\ \A r \in Run, s \in Slide : UnpromotedBut(r, s) => UnpromotedBut(r, s)'
<1>1. accepted \subseteq Run /\ UNCHANGED <<accepted, promoted>>
  BY DEF TypeOK, Quiet
<1>2. \A q \in accepted : SlideOf(q)' = SlideOf(q)
  BY <1>1 DEF FilesInv, Quiet, SlideOf
<1>3. QED
  BY <1>1, <1>2 DEF Unpromoted, UnpromotedBut

(* Such a step keeps the invariant.                                        *)
LEMMA QuietStep ==
  ASSUME TypeOK, Engaged, FilesInv, Quiet
  PROVE  FilesInv'
<1>1. \A r \in accepted' : pc'[r] # "idle"
  BY DEF TypeOK, FilesInv, Quiet
<1> SUFFICES ASSUME ~overlap PROVE (Single /\ Order /\ Clean /\ Carried /\ Alike /\ Told /\ Shown)'
  BY <1>1 DEF FilesInv, Quiet
<1>2. Single /\ Order /\ Clean /\ Carried /\ Alike /\ Told /\ Shown
  BY DEF FilesInv
<1>3. \A r \in Run : pc'[r] \in Processing =>
        /\ pc[r] = pc'[r] /\ base'[r] = base[r] /\ deck'[r] = deck[r] /\ at'[r] = at[r]
        /\ taskOf'[r] = taskOf[r] /\ SlideOf(r)' = SlideOf(r) /\ SlideOf(r) \in Slide
        /\ \A v \in Version : Edited(r, v)' = Edited(r, v)
  BY DEF Quiet, Engaged, Processing, SlideOf, Edited, IsRetry
<1>4. UNCHANGED <<fills, attempt, backup, stored, pictured, accepted, promoted>>
  BY DEF Quiet, bucket
<1>5. Single'
  BY <1>2, <1>3 DEF Single
<1>6. Order'
  BY <1>2, <1>3, <1>4 DEF Order, Quiet, TypeOK, Promoting, Processing
<1>7. Clean'
  BY <1>2, <1>3, <1>4 DEF Clean, HasDeck, Saved, Processing
<1>8. Carried'
  BY <1>2, <1>3, <1>4 DEF Carried, Uploaded, Processing
<1>9. Alike'
  BY <1>2, <1>3, <1>4, SameUnpromoted DEF Alike, HasDeck, Saved, Processing
<1>10. Told'
  BY <1>2, <1>3, <1>4, SameUnpromoted DEF Told, TypeOK, Processing
<1>11. Shown'
  BY <1>2, <1>4, SameUnpromoted DEF Shown, AsShown
<1>12. QED
  BY <1>5, <1>6, <1>7, <1>8, <1>9, <1>10, <1>11

(* The steps of a run that only move it, or end it.                        *)
QuietRun(r) ==
  \/ ReadStatus(r) \/ SkipSettled(r) \/ StatusReadFails(r)
  \/ Acquire(r) \/ AcquireRefused(r) \/ ContextReadFails(r) \/ WorkFails(r)
  \/ RegeneratedRefused(r) \/ SendPreviewError(r) \/ PreviewErrorUnanswered(r)
  \/ PreviewErrorRefused(r) \/ PromoteGivenUp(r) \/ Acknowledge(r) \/ AnswerUnheard(r)

(* Most steps are of that kind.                                            *)
LEMMA QuietSteps ==
  ASSUME TypeOK, Engaged
  PROVE  /\ \A t \in Task, s \in Slide : Ask(t, s) => Quiet
         /\ \A r \in Run, t \in Task, h \in Host : Deliver(r, t, h) \/ SkipInFlight(r, t, h) => Quiet
         /\ \A t \in Task : GiveUp(t) => Quiet
         /\ \A s \in Slide : HealStuck(s) => Quiet
         /\ \A h \in Host : Crash(h) => Quiet
         /\ \A r \in Run : QuietRun(r) => Quiet
         /\ UNCHANGED vars => Quiet
<1> USE NoneAssumption
    DEF TypeOK, Engaged, SlideOf, Processing, Late, Live, Claimed, rows, tasks, locals, bucket,
        history, Quiet
<1>1. ASSUME NEW t \in Task, NEW s \in Slide, Ask(t, s) PROVE Quiet
  BY <1>1 DEF Ask, Busy
<1>2. ASSUME NEW r \in Run, NEW t \in Task, NEW h \in Host, Deliver(r, t, h) PROVE Quiet
  BY <1>2 DEF Deliver, Pushable, Arrives, Go
<1>3. ASSUME NEW r \in Run, NEW t \in Task, NEW h \in Host, SkipInFlight(r, t, h) PROVE Quiet
  BY <1>3 DEF SkipInFlight, Pushable, Arrives, Go
<1>4. ASSUME NEW t \in Task, GiveUp(t) PROVE Quiet
  BY <1>4 DEF GiveUp
<1>5. ASSUME NEW s \in Slide, HealStuck(s) PROVE Quiet
  BY <1>5 DEF HealStuck
<1>6. ASSUME NEW h \in Host, Crash(h) PROVE Quiet
  BY <1>6 DEF Crash
<1>7. ASSUME NEW r \in Run, ReadStatus(r) PROVE Quiet
  BY <1>7 DEF ReadStatus, Go
<1>8. ASSUME NEW r \in Run, SkipSettled(r) PROVE Quiet
  BY <1>8 DEF SkipSettled, End, Release, Go
<1>9. ASSUME NEW r \in Run, StatusReadFails(r) PROVE Quiet
  BY <1>9 DEF StatusReadFails, End, Release, Go
<1>10. ASSUME NEW r \in Run, Acquire(r) PROVE Quiet
  BY <1>10 DEF Acquire, Go
<1>11. ASSUME NEW r \in Run, AcquireRefused(r) PROVE Quiet
  BY <1>11 DEF AcquireRefused, End, Release, Go
<1>12. ASSUME NEW r \in Run, ContextReadFails(r) PROVE Quiet
  BY <1>12 DEF ContextReadFails, End, Release, Go
<1>13. ASSUME NEW r \in Run, WorkFails(r) PROVE Quiet
  BY <1>13 DEF WorkFails, Go
<1>14. ASSUME NEW r \in Run, RegeneratedRefused(r) PROVE Quiet
  BY <1>14 DEF RegeneratedRefused, CallbackTrouble, End, Release, Go
<1>15. ASSUME NEW r \in Run, SendPreviewError(r) PROVE Quiet
  BY <1>15 DEF SendPreviewError, PreviewError, End, Release, Go
<1>16. ASSUME NEW r \in Run, PreviewErrorUnanswered(r) PROVE Quiet
  BY <1>16 DEF PreviewErrorUnanswered, PreviewError, End, Release, Go
<1>17. ASSUME NEW r \in Run, PreviewErrorRefused(r) PROVE Quiet
  BY <1>17 DEF PreviewErrorRefused, End, Release, Go
<1>18. ASSUME NEW r \in Run, PromoteGivenUp(r) PROVE Quiet
  BY <1>18 DEF PromoteGivenUp, End, Release, Go
<1>19. ASSUME NEW r \in Run, Acknowledge(r) PROVE Quiet
  BY <1>19 DEF Acknowledge, End, Release, Go
<1>20. ASSUME NEW r \in Run, AnswerUnheard(r) PROVE Quiet
  BY <1>20 DEF AnswerUnheard, End, Release, Go
<1>21. CASE UNCHANGED vars
  BY <1>21 DEF vars
<1>22. QED
  BY <1>1, <1>2, <1>3, <1>4, <1>5, <1>6, <1>7, <1>8, <1>9, <1>10, <1>11,
     <1>12, <1>13, <1>14, <1>15, <1>16, <1>17, <1>18, <1>19, <1>20, <1>21 DEF QuietRun

-----------------------------------------------------------------------------
(* A run that begins is the only one, and reads the fills of its slide.    *)
LEMMA ReadContextStep ==
  ASSUME TypeOK, Engaged, FilesInv, NEW r \in Run, ReadContext(r)
  PROVE  FilesInv'
<1> USE DEF locals, rows, tasks, bucket
<1>1. \A q \in accepted' : pc'[q] # "idle"
  BY DEF TypeOK, FilesInv, ReadContext, Go
<1> SUFFICES ASSUME ~overlap'
             PROVE  (Single /\ Order /\ Clean /\ Carried /\ Alike /\ Told /\ Shown)'
  BY <1>1 DEF FilesInv
<1>2. ~overlap /\ \A q \in Run : pc[q] \notin Processing
  BY DEF ReadContext
<1>3. Order /\ Clean /\ Shown
  BY <1>2 DEF FilesInv
<1>4. /\ taskOf[r] \in Task /\ SlideOf(r) \in Slide /\ pc[r] = "claimed"
      /\ pc' = [pc EXCEPT ![r] = "reading"] /\ base' = [base EXCEPT ![r] = fills[SlideOf(r)]]
      /\ UNCHANGED <<taskOf, slideOf, retries, fills, stored, pictured, accepted, promoted>>
  BY DEF Engaged, ReadContext, Go
<1>5. \A q \in Run : SlideOf(q)' = SlideOf(q)
  BY <1>4 DEF SlideOf
<1>6. \A q \in Run : pc'[q] \in Processing => q = r /\ pc'[q] = "reading"
  BY <1>2, <1>4 DEF TypeOK
<1>7. Single' /\ Carried' /\ Alike'
  BY <1>6 DEF Single, Carried, Uploaded, Alike, HasDeck, Saved, Processing
<1>8. Order'
  BY <1>3, <1>4 DEF Order, TypeOK, Late, Promoting
<1>9. Clean'
  BY <1>3, <1>4, <1>6 DEF Clean, TypeOK, HasDeck, Saved, Processing
<1>10. Told'
  BY <1>3, <1>4, <1>5, <1>6 DEF Told, Order, TypeOK, Processing, Late
<1>11. Shown'
  BY <1>3, <1>4, <1>5 DEF Shown, AsShown, Unpromoted, TypeOK
<1>12. QED
  BY <1>7, <1>8, <1>9, <1>10, <1>11

(* The deck is the canonical one with the slide edited.                     *)
LEMMA MakeDeckStep ==
  ASSUME TypeOK, Engaged, Counted, FilesInv, NEW r \in Run, MakeDeck(r)
  PROVE  FilesInv'
<1> USE DEF locals, rows, tasks, bucket, history
<1>1. \A q \in accepted' : pc'[q] # "idle"
  BY DEF TypeOK, FilesInv, MakeDeck, Go
<1> SUFFICES ASSUME ~overlap'
             PROVE  (Single /\ Order /\ Clean /\ Carried /\ Alike /\ Told /\ Shown)'
  BY <1>1 DEF FilesInv
<1>2. ~overlap /\ Single /\ Order /\ Clean /\ Carried /\ Alike /\ Told /\ Shown
  BY DEF FilesInv, MakeDeck
<1>3. /\ taskOf[r] \in Task /\ SlideOf(r) \in Slide /\ pc[r] \in Processing
      /\ UNCHANGED <<taskOf, slideOf, retries>>
  BY DEF Engaged, Processing, MakeDeck, Go
<1>4. /\ \A q \in Run : SlideOf(q)' = SlideOf(q)
      /\ \A q \in Run, v \in Version : Edited(q, v)' = Edited(q, v)
  BY <1>3 DEF SlideOf, Edited, IsRetry
<1>5. \A q \in Run : q # r => pc'[q] = pc[q] /\ pc[q] \notin Processing
  BY <1>2, <1>3 DEF Single, TypeOK, MakeDeck, Go
<1>6. /\ pc[r] = "reading" /\ pc' = [pc EXCEPT ![r] = "uploading"]
      /\ deck' = [deck EXCEPT ![r] = EditedDeck(r, stored["pptx"])] /\ at[r] = 0
      /\ UNCHANGED <<fills, base, at, attempt, backup, stored, pictured, accepted, promoted>>
  BY DEF MakeDeck, Go, TypeOK, Counted
<1>7. /\ deck'[r][SlideOf(r)] = Edited(r, stored["pptx"][SlideOf(r)])
      /\ \A x \in Slide : x # SlideOf(r) => deck'[r][x] = stored["pptx"][x]
  BY <1>3, <1>6 DEF TypeOK, EditedDeck, Files, File, Deck
<1>8. Single' /\ Order'
  BY <1>2, <1>3, <1>4, <1>5, <1>6 DEF Single, Order, TypeOK, Late, Promoting, Processing
<1>9. Clean'
  <2>1. \A x \in Slide : stored["pptx"][x] \subseteq accepted
    BY <1>2 DEF Clean, File
  <2>2. \A x \in Slide : deck'[r][x] \subseteq accepted \cup {r}
    BY <1>3, <1>7, <2>1 DEF Edited
  <2>3. \A q \in Run : q # r => deck'[q] = deck[q]
    BY <1>6
  <2>4. QED
    BY <1>2, <1>3, <1>5, <1>6, <2>2, <2>3 DEF Clean, HasDeck, Saved, Processing, TypeOK
<1>10. Carried'
  BY <1>3, <1>5, <1>6 DEF Carried, Uploaded, UploadAt, TypeOK, Processing
<1>11. Alike'
  <2>1. \A x \in Slide : stored["pptx"][x] = fills[x] \/ Unpromoted(x)
    BY <1>2 DEF Shown, AsShown, File
  <2>2. \A x \in Slide : Unpromoted(x) => Unpromoted(x)'
    BY <1>4, <1>6 DEF Unpromoted, TypeOK
  <2>3. \A q \in Run : pc'[q] \in Processing => q = r /\ pc'[q] = "uploading"
    BY <1>5, <1>6 DEF TypeOK
  <2>4. QED
    BY <1>4, <1>6, <1>7, <2>1, <2>2, <2>3 DEF Alike, HasDeck, Saved
<1>12. Told'
  BY <1>2, <1>3, <1>4, <1>5, <1>6, <1>7 DEF Told, TypeOK, Processing, Shown, AsShown, Unpromoted, UnpromotedBut, Order, Late, File
<1>13. Shown'
  BY <1>2, <1>4, <1>6 DEF Shown, AsShown, Unpromoted, TypeOK
<1>14. QED
  BY <1>8, <1>9, <1>10, <1>11, <1>12, <1>13

(* A file of the attempt is the deck.                                       *)
LEMMA UploadStep ==
  ASSUME TypeOK, Engaged, Counted, FilesInv, NEW r \in Run, Upload(r)
  PROVE  FilesInv'
<1> USE DEF locals, rows, tasks, bucket, history
<1>1. \A q \in accepted' : pc'[q] # "idle"
  BY DEF TypeOK, FilesInv, Upload, Go, OneMore
<1> SUFFICES ASSUME ~overlap'
             PROVE  (Single /\ Order /\ Clean /\ Carried /\ Alike /\ Told /\ Shown)'
  BY <1>1 DEF FilesInv
<1>2. ~overlap /\ Single /\ Order /\ Clean /\ Carried /\ Alike /\ Told /\ Shown
  BY DEF FilesInv, Upload
<1>3. /\ taskOf[r] \in Task /\ SlideOf(r) \in Slide /\ pc[r] \in Processing
      /\ UNCHANGED <<taskOf, slideOf, retries>>
  BY DEF Engaged, Processing, Upload, Go, OneMore
<1>4. /\ \A q \in Run : SlideOf(q)' = SlideOf(q)
      /\ \A q \in Run, v \in Version : Edited(q, v)' = Edited(q, v)
  BY <1>3 DEF SlideOf, Edited, IsRetry
<1>5. \A q \in Run : q # r => pc'[q] = pc[q] /\ pc[q] \notin Processing
  BY <1>2, <1>3 DEF Single, TypeOK, Upload, Go, OneMore
<1>6. /\ pc[r] = "uploading" /\ pc' = [pc EXCEPT ![r] = IF at[r] = 2 THEN "sending" ELSE "uploading"]
      /\ at[r] \in 0..2 /\ at' = [at EXCEPT ![r] = (@ + 1) % 3]
      /\ UNCHANGED <<fills, base, deck, backup, stored, pictured, accepted, promoted>>
  BY DEF Upload, Go, OneMore, TypeOK
<1>7. /\ \A q \in Task \ {taskOf[r]} : attempt'[q] = attempt[q]
      /\ \A f \in File : attempt'[taskOf[r]][f] =
           IF UploadAt(f) = at[r] + 1 THEN deck[r] ELSE attempt[taskOf[r]][f]
  BY <1>3, <1>6 DEF Upload, TypeOK, Files, File, Uploads, UploadAt, Rendered
<1>8. Single' /\ Order'
  BY <1>2, <1>3, <1>4, <1>5, <1>6 DEF Single, Order, TypeOK, Late, Promoting, Processing
<1>9. Clean'
  BY <1>2, <1>3, <1>5, <1>6 DEF Clean, HasDeck, Saved, Processing, TypeOK
<1>10. Carried'
  BY <1>2, <1>3, <1>5, <1>6, <1>7 DEF Carried, Uploaded, UploadAt, TypeOK, Processing
<1>11. Alike'
  BY <1>2, <1>3, <1>4, <1>5, <1>6 DEF Alike, HasDeck, Saved, Processing, Unpromoted, TypeOK
<1>12. Told'
  BY <1>2, <1>3, <1>4, <1>5, <1>6 DEF Told, TypeOK, Processing, UnpromotedBut, Version
<1>13. Shown'
  BY <1>2, <1>4, <1>6 DEF Shown, AsShown, Unpromoted, TypeOK
<1>14. QED
  BY <1>8, <1>9, <1>10, <1>11, <1>12, <1>13

(* An accepted result is what the main server shows from then on, and waits for its
   promotion.                                                              *)
LEMMA RegeneratedStep ==
  ASSUME TypeOK, Engaged, Counted, FilesInv, NEW r \in Run, pc[r] = "sending", Regenerated(r),
         UNCHANGED <<tasks, taskOf, bucket, promoted, overlap>>,
         NEW to \in {"sending", "backup", "failing", "done"}, Go(r, to),
         to \in {"sending", "backup"} => UNCHANGED <<base, deck, at>>
  PROVE  FilesInv'
<1> USE DEF tasks, bucket
<1>1. \A q \in accepted' : pc'[q] # "idle"
  BY DEF TypeOK, FilesInv, Regenerated, Go
<1> SUFFICES ASSUME ~overlap'
             PROVE  (Single /\ Order /\ Clean /\ Carried /\ Alike /\ Told /\ Shown)'
  BY <1>1 DEF FilesInv
<1>2. ~overlap /\ Single /\ Order /\ Clean /\ Carried /\ Alike /\ Told /\ Shown
  BY DEF FilesInv
<1>3. /\ taskOf[r] \in Task /\ SlideOf(r) \in Slide /\ pc[r] \in Processing /\ at[r] = 0
      /\ r \notin promoted
  BY <1>2 DEF Engaged, Processing, Counted, Order
<1>4. /\ \A q \in Run : SlideOf(q)' = SlideOf(q)
      /\ \A q \in Run, v \in Version : Edited(q, v)' = Edited(q, v)
  BY DEF SlideOf, Edited, IsRetry
<1>5. \A q \in Run : q # r => pc'[q] = pc[q] /\ pc[q] \notin Processing
  BY <1>2, <1>3 DEF Single, TypeOK, Go
<1>6. /\ pc' = [pc EXCEPT ![r] = to] /\ pc'[r] = to /\ accepted' = accepted \cup {r}
      /\ fills'[SlideOf(r)] = Edited(r, base[r])
      /\ \A x \in Slide : x # SlideOf(r) => fills'[x] = fills[x]
      /\ UNCHANGED <<attempt, backup, stored, pictured, promoted>>
  BY <1>3 DEF Regenerated, Go, TypeOK, Deck
<1>7. \A x \in Slide : Unpromoted(x) \/ x = SlideOf(r) => Unpromoted(x)'
  BY <1>3, <1>4, <1>6 DEF Unpromoted, TypeOK
<1>8. Single' /\ Order'
  BY <1>2, <1>3, <1>4, <1>5, <1>6 DEF Single, Order, TypeOK, Late, Promoting, Processing
<1>9. Clean'
  <2>1. \A x \in Slide : fills'[x] \subseteq accepted'
    BY <1>2, <1>3, <1>6 DEF Clean, Edited
  <2>2. pc'[r] \in Processing => base'[r] = base[r] /\ deck'[r] = deck[r] /\ at'[r] = 0
    BY <1>3, <1>6 DEF Processing
  <2>3. QED
    BY <1>2, <1>3, <1>5, <1>6, <2>1, <2>2
       DEF Clean, HasDeck, Saved, PromotionAt, Processing
<1>10. Carried'
  BY <1>2, <1>3, <1>5, <1>6 DEF Carried, Uploaded, Processing
<1>11. Alike'
  <2>1. pc'[r] \in Processing => deck'[r] = deck[r] /\ at'[r] = 0 /\ to \in {"sending", "backup"}
    BY <1>3, <1>6 DEF Processing
  <2>2. \A q \in Run : pc'[q] \in Processing => q = r
    BY <1>5
  <2>3. QED
    BY <1>2, <1>3, <1>4, <1>6, <1>7, <2>1, <2>2 DEF Alike, HasDeck, Saved, PromotionAt
<1>12. Told'
  <2>1. \A q \in Run : pc'[q] \in Processing => q = r
    BY <1>5
  <2>2. deck[r][SlideOf(r)] = Edited(r, base[r]) \/ UnpromotedBut(r, SlideOf(r))
    BY <1>2 DEF Told
  <2>3. UnpromotedBut(r, SlideOf(r)) => UnpromotedBut(r, SlideOf(r))'
    BY <1>4, <1>6 DEF UnpromotedBut, TypeOK
  <2>4. base[r] \in Version
    BY DEF TypeOK
  <2>5. QED
    BY <1>4, <1>6, <2>1, <2>2, <2>3, <2>4 DEF Told, Processing
<1>13. Shown'
  BY <1>2, <1>6, <1>7 DEF Shown, AsShown
<1>14. QED
  BY <1>8, <1>9, <1>10, <1>11, <1>12, <1>13

(* Its answer may be lost: the run then may end, give up or ask again.     *)
LEMMA SendStep ==
  ASSUME TypeOK, Engaged, Counted, FilesInv, NEW r \in Run,
         SendRegenerated(r) \/ RegeneratedUnanswered(r)
  PROVE  FilesInv'
<1> USE DEF locals, tasks, bucket
<1>1. CASE SendRegenerated(r)
  <2>1. /\ pc[r] = "sending" /\ Regenerated(r) /\ Go(r, "backup")
        /\ UNCHANGED <<tasks, taskOf, bucket, promoted, overlap, base, deck, at>>
    BY <1>1 DEF SendRegenerated
  <2>2. QED
    BY <2>1, RegeneratedStep
<1>2. CASE RegeneratedUnanswered(r)
  <2>1. /\ pc[r] = "sending" /\ Regenerated(r) /\ CallbackTrouble(r)
        /\ UNCHANGED <<tasks, bucket, promoted, overlap>>
    BY <1>2 DEF RegeneratedUnanswered
  <2>2. CASE UNCHANGED <<claims, locals>>
    <3>1. Go(r, "sending")
      BY <2>1, <2>2 DEF Go, TypeOK
    <3>2. QED
      BY <2>1, <2>2, <3>1, RegeneratedStep
  <2>3. CASE End(r, "done")
    BY <2>1, <2>3, RegeneratedStep DEF End
  <2>4. CASE Go(r, "failing") /\ UNCHANGED <<claims, taskOf, host, base, deck, at>>
    BY <2>1, <2>4, RegeneratedStep
  <2>5. QED
    BY <2>1, <2>2, <2>3, <2>4 DEF CallbackTrouble
<1>3. QED
  BY <1>1, <1>2

(* A back-up is the canonical file.                                        *)
LEMMA BackUpStep ==
  ASSUME TypeOK, Engaged, Counted, FilesInv, NEW r \in Run, BackUp(r)
  PROVE  FilesInv'
<1> USE DEF locals, rows, tasks, bucket, history
<1>1. \A q \in accepted' : pc'[q] # "idle"
  BY DEF TypeOK, FilesInv, BackUp, Go, OneMore
<1> SUFFICES ASSUME ~overlap'
             PROVE  (Single /\ Order /\ Clean /\ Carried /\ Alike /\ Told /\ Shown)'
  BY <1>1 DEF FilesInv
<1>2. ~overlap /\ Single /\ Order /\ Clean /\ Carried /\ Alike /\ Told /\ Shown
  BY DEF FilesInv, BackUp
<1>3. /\ taskOf[r] \in Task /\ SlideOf(r) \in Slide /\ pc[r] \in Processing
      /\ UNCHANGED <<taskOf, slideOf, retries>>
  BY DEF Engaged, Processing, BackUp, Go, OneMore
<1>4. /\ \A q \in Run : SlideOf(q)' = SlideOf(q)
      /\ \A q \in Run, v \in Version : Edited(q, v)' = Edited(q, v)
  BY <1>3 DEF SlideOf, Edited, IsRetry
<1>5. \A q \in Run : q # r => pc'[q] = pc[q] /\ pc[q] \notin Processing
  BY <1>2, <1>3 DEF Single, TypeOK, BackUp, Go, OneMore
<1>6. /\ pc[r] = "backup" /\ pc' = [pc EXCEPT ![r] = IF at[r] = 2 THEN "copy" ELSE "backup"]
      /\ at[r] \in 0..2 /\ at' = [at EXCEPT ![r] = (@ + 1) % 3]
      /\ UNCHANGED <<fills, base, deck, attempt, stored, pictured, accepted, promoted>>
  BY DEF BackUp, Go, OneMore, TypeOK
<1>7. /\ \A q \in Task \ {taskOf[r]} : backup'[q] = backup[q]
      /\ \A f \in File : backup'[taskOf[r]][f] =
           IF PromotionAt(f) = at[r] + 1 THEN stored[f] ELSE backup[taskOf[r]][f]
  BY <1>3, <1>6 DEF BackUp, TypeOK, Files, File, Promotions, PromotionAt, Turn
<1>8. \A f \in File : Saved(r, f)' => Saved(r, f) \/ PromotionAt(f) = at[r] + 1
  BY <1>6 DEF Saved, PromotionAt, TypeOK
<1>9. \A q \in Run : pc'[q] \in Processing => q = r /\ pc'[q] \in {"backup", "copy"}
  BY <1>5, <1>6 DEF TypeOK
<1>10. \A x \in Slide : Unpromoted(x) => Unpromoted(x)'
  BY <1>4, <1>6 DEF Unpromoted, TypeOK
<1>11. Single' /\ Order'
  BY <1>2, <1>3, <1>4, <1>5, <1>6 DEF Single, Order, TypeOK, Late, Promoting, Processing
<1>12. Clean'
  <2>1. \A q \in Run, f \in File, x \in Slide :
           Saved(q, f)' => backup'[taskOf'[q]][f][x] \subseteq accepted'
    BY <1>2, <1>3, <1>6, <1>7, <1>8, <1>9 DEF Clean, Saved, Processing
  <2>2. QED
    BY <1>2, <1>6, <1>9, <2>1 DEF Clean, HasDeck, Processing
<1>13. Carried'
  BY <1>2, <1>3, <1>6, <1>9 DEF Carried, Uploaded, Processing
<1>14. Alike'
  <2>1. ASSUME NEW x \in Slide, x # SlideOf(r)
        PROVE  /\ deck[r][x] = stored["pptx"][x]
               /\ deck[r][x] = fills[x] \/ Unpromoted(x)
               /\ Saved(r, "pptx")' => backup'[taskOf[r]]["pptx"][x] = stored["pptx"][x]
               /\ \A f \in {"pptx", "pdf"} :
                    Saved(r, f)' => backup'[taskOf[r]][f][x] = fills[x] \/ Unpromoted(x)
    <3>1. /\ \A f \in {"pptx", "pdf"} : f \in File
          /\ \A f \in {"pptx", "pdf"} : stored[f][x] = fills[x] \/ Unpromoted(x)
      BY <1>2 DEF Shown, AsShown, File
    <3>2. QED
      BY <1>2, <1>3, <1>6, <1>7, <1>8, <2>1, <3>1 DEF Alike, HasDeck
  <2>2. QED
    BY <1>3, <1>4, <1>6, <1>9, <1>10, <2>1 DEF Alike
<1>15. Told'
  BY <1>2, <1>3, <1>4, <1>6, <1>9 DEF Told, TypeOK, Processing, UnpromotedBut, PromotionAt
<1>16. Shown'
  BY <1>2, <1>6, <1>10 DEF Shown, AsShown
<1>17. QED
  BY <1>11, <1>12, <1>13, <1>14, <1>15, <1>16

(* What a copy of the deck changes.                                        *)
LEMMA CopyEffect ==
  ASSUME TypeOK, Engaged, Carried, NEW r \in Run, pc[r] = "copy", CopiedTo(r)
  PROVE  /\ at[r] \in 0..2
         /\ \A g \in File, x \in Slide :
              stored'[g][x] = IF PromotionAt(g) = at[r] + 1 /\ (g = "preview" => x = SlideOf(r))
                              THEN deck[r][x] ELSE stored[g][x]
         /\ pictured' = IF at[r] = 2 THEN pictured \cup {SlideOf(r)} ELSE pictured
<1>1. at[r] \in 0..2 /\ taskOf[r] \in Task /\ SlideOf(r) \in Slide
  BY DEF TypeOK, Engaged
<1>2. Turn(r) \in File /\ \A g \in File : PromotionAt(g) = at[r] + 1 <=> g = Turn(r)
  BY <1>1 DEF Turn, Promotions, PromotionAt, File
<1>3. attempt[taskOf[r]][Turn(r)] = deck[r] /\ deck[r] \in Deck
  BY <1>2 DEF Carried, Uploaded, TypeOK
<1>4. at[r] = 2 <=> Turn(r) = "preview"
  BY <1>1 DEF Turn, Promotions
<1>5. stored' = Overwritten(Turn(r), deck[r], SlideOf(r))
  BY <1>3 DEF CopiedTo
<1>6. \A g \in File : stored[g] \in Deck
  BY DEF TypeOK, Files
<1>7. \A g \in File, x \in Slide :
        stored'[g][x] = IF g = Turn(r) /\ (g = "preview" => x = SlideOf(r))
                        THEN deck[r][x] ELSE stored[g][x]
  BY <1>1, <1>2, <1>3, <1>5, <1>6 DEF Overwritten, TypeOK, Files, Deck
<1>8. QED
  BY <1>1, <1>2, <1>4, <1>7 DEF CopiedTo

(* A copy, made by a run that goes on or does not, publishes accepted edits only and leaves
   the other slides as they were.                                          *)
LEMMA CopyKeeps ==
  ASSUME TypeOK, Engaged, Order, Clean, Carried, Alike, Shown, NEW r \in Run, pc[r] = "copy",
         CopiedTo(r)
  PROVE  /\ \A f \in File, x \in Slide : stored'[f][x] \subseteq accepted
         /\ \A x \in Slide : x # SlideOf(r) =>
              /\ stored'["pptx"][x] = stored["pptx"][x]
              /\ \/ Unpromoted(x)
                 \/ \A f \in File : \/ stored'[f][x] = fills[x]
                                    \/ f = "preview" /\ x \notin pictured'
<1>1. r \in accepted /\ \A x \in Slide : deck[r][x] \subseteq accepted
  BY DEF Order, Promoting, Clean, HasDeck
<1>2. \A x \in Slide : x # SlideOf(r) =>
        deck[r][x] = stored["pptx"][x] /\ (deck[r][x] = fills[x] \/ Unpromoted(x))
  BY DEF Alike, HasDeck, Processing
<1>3. \A f \in File, x \in Slide : stored'[f][x] \subseteq accepted
  BY <1>1, CopyEffect DEF Clean
<1>4. ASSUME NEW x \in Slide, x # SlideOf(r)
      PROVE  stored'["pptx"][x] = stored["pptx"][x]
  BY <1>2, <1>4, CopyEffect DEF File
<1>5. ASSUME NEW x \in Slide, x # SlideOf(r), ~Unpromoted(x), NEW f \in File
      PROVE  stored'[f][x] = fills[x] \/ (f = "preview" /\ x \notin pictured')
  <2>1. stored[f][x] = fills[x] \/ (f = "preview" /\ x \notin pictured)
    BY <1>5 DEF Shown, AsShown
  <2>2. x \in pictured' <=> x \in pictured
    BY <1>5, CopyEffect
  <2>3. stored'[f][x] = deck[r][x] \/ stored'[f][x] = stored[f][x]
    BY CopyEffect
  <2>4. stored'[f][x] = stored[f][x] \/ f # "preview"
    BY <1>5, CopyEffect
  <2>5. QED
    BY <1>2, <1>5, <2>1, <2>2, <2>3, <2>4
<1>6. QED
  BY <1>3, <1>4, <1>5

(* A copied file holds the deck's version of the slide.                     *)
LEMMA CopyStep ==
  ASSUME TypeOK, Engaged, Counted, FilesInv, NEW r \in Run, Copy(r)
  PROVE  FilesInv'
<1> USE DEF locals, rows, tasks, bucket, history
<1>1. \A q \in accepted' : pc'[q] # "idle"
  BY DEF TypeOK, FilesInv, Copy, Go
<1> SUFFICES ASSUME ~overlap'
             PROVE  (Single /\ Order /\ Clean /\ Carried /\ Alike /\ Told /\ Shown)'
  BY <1>1 DEF FilesInv
<1>2. ~overlap /\ Single /\ Order /\ Clean /\ Carried /\ Alike /\ Told /\ Shown
  BY DEF FilesInv, Copy
<1>3. /\ taskOf[r] \in Task /\ SlideOf(r) \in Slide /\ pc[r] \in Processing
      /\ UNCHANGED <<taskOf, slideOf, retries>>
  BY DEF Engaged, Processing, Copy, Go
<1>4. /\ \A q \in Run : SlideOf(q)' = SlideOf(q)
      /\ \A q \in Run, v \in Version : Edited(q, v)' = Edited(q, v)
  BY <1>3 DEF SlideOf, Edited, IsRetry
<1>5. \A q \in Run : q # r => pc'[q] = pc[q] /\ pc[q] \notin Processing
  BY <1>2, <1>3 DEF Single, TypeOK, Copy, Go
<1>6. /\ pc[r] = "copy" /\ at[r] \in 0..1 /\ at' = [at EXCEPT ![r] = @ + 1] /\ CopiedTo(r)
      /\ UNCHANGED <<pc, fills, base, deck, attempt, backup, accepted, promoted>>
  BY DEF Copy, TypeOK
<1>7. \A q \in Run : pc'[q] \in Processing => q = r
  BY <1>5, <1>6
<1>8. \A x \in Slide : Unpromoted(x) => Unpromoted(x)'
  BY <1>4, <1>6 DEF Unpromoted, TypeOK
<1>9. Single' /\ Order'
  BY <1>2, <1>4, <1>6 DEF Single, Order
<1>10. Clean'
  BY <1>2, <1>3, <1>6, <1>7, CopyKeeps DEF Clean, HasDeck, Saved, Processing
<1>11. Carried'
  BY <1>2, <1>3, <1>6, <1>7 DEF Carried, Uploaded, Processing
<1>12. Alike'
  BY <1>2, <1>3, <1>4, <1>6, <1>7, <1>8, CopyKeeps DEF Alike, HasDeck, Saved, Processing
<1>13. Told'
  <2>1. \A f \in File : PromotionAt(f) <= at[r] + 1 => stored'[f][SlideOf(r)] = deck[r][SlideOf(r)]
    <3> SUFFICES ASSUME NEW f \in File, PromotionAt(f) <= at[r] + 1
                 PROVE  stored'[f][SlideOf(r)] = deck[r][SlideOf(r)]
      OBVIOUS
    <3>1. CASE PromotionAt(f) = at[r] + 1
      BY <1>2, <1>3, <1>6, <3>1, CopyEffect
    <3>2. CASE PromotionAt(f) <= at[r]
      BY <1>2, <1>3, <1>6, <3>2, CopyEffect DEF Told
    <3>3. QED
      BY <1>6, <3>1, <3>2 DEF PromotionAt
  <2>2. UnpromotedBut(r, SlideOf(r)) => UnpromotedBut(r, SlideOf(r))'
    BY <1>4, <1>6 DEF UnpromotedBut, TypeOK
  <2>3. QED
    BY <1>2, <1>3, <1>4, <1>6, <1>7, <2>1, <2>2 DEF Told, TypeOK, Processing
<1>14. Shown'
  <2>1. Unpromoted(SlideOf(r))
    BY <1>2, <1>6 DEF Unpromoted, Order, Promoting
  <2>2. QED
    BY <1>2, <1>6, <1>8, <2>1, CopyKeeps DEF Shown, AsShown
<1>15. QED
  BY <1>9, <1>10, <1>11, <1>12, <1>13, <1>14

(* With the last copy all three files are the deck's.                       *)
LEMMA PromoteStep ==
  ASSUME TypeOK, Engaged, Counted, FilesInv, NEW r \in Run, Promote(r)
  PROVE  FilesInv'
<1> USE DEF locals, rows, tasks, bucket, history
<1>1. \A q \in accepted' : pc'[q] # "idle"
  BY DEF TypeOK, FilesInv, Promote, End, Go
<1> SUFFICES ASSUME ~overlap'
             PROVE  (Single /\ Order /\ Clean /\ Carried /\ Alike /\ Told /\ Shown)'
  BY <1>1 DEF FilesInv
<1>2. ~overlap /\ Single /\ Order /\ Clean /\ Carried /\ Alike /\ Told /\ Shown
  BY DEF FilesInv, Promote
<1>3. /\ taskOf[r] \in Task /\ SlideOf(r) \in Slide /\ pc[r] \in Processing
      /\ UNCHANGED <<taskOf, slideOf, retries>>
  BY DEF Engaged, Processing, Promote, End, Go
<1>4. /\ \A q \in Run : SlideOf(q)' = SlideOf(q)
      /\ \A q \in Run, v \in Version : Edited(q, v)' = Edited(q, v)
  BY <1>3 DEF SlideOf, Edited, IsRetry
<1>5. \A q \in Run : q # r => pc'[q] = pc[q] /\ pc[q] \notin Processing
  BY <1>2, <1>3 DEF Single, TypeOK, Promote, End, Go
<1>6. /\ pc[r] = "copy" /\ at[r] = 2 /\ pc' = [pc EXCEPT ![r] = "acking"] /\ CopiedTo(r)
      /\ promoted' = promoted \cup {r}
      /\ UNCHANGED <<fills, attempt, backup, accepted>>
  BY DEF Promote, End, Go
<1>7. \A q \in Run : pc'[q] \notin Processing
  BY <1>5, <1>6 DEF TypeOK, Processing
<1>8. Single' /\ Carried' /\ Alike' /\ Told'
  BY <1>7 DEF Single, Carried, Uploaded, Alike, Told, Processing
<1>9. Order'
  BY <1>2, <1>6 DEF Order, TypeOK, Late, Promoting
<1>10. Clean'
  BY <1>2, <1>6, <1>7, CopyKeeps DEF Clean, HasDeck, Saved, Processing
<1>11. \A x \in Slide : x # SlideOf(r) /\ Unpromoted(x) => Unpromoted(x)'
  BY <1>4, <1>6 DEF Unpromoted, TypeOK
<1>12. \A x \in Slide : UnpromotedBut(r, x) => Unpromoted(x)'
  BY <1>4, <1>6 DEF Unpromoted, UnpromotedBut, TypeOK
<1>13. \A f \in File : stored'[f][SlideOf(r)] = deck[r][SlideOf(r)]
  <2> SUFFICES ASSUME NEW f \in File PROVE stored'[f][SlideOf(r)] = deck[r][SlideOf(r)]
    OBVIOUS
  <2>1. CASE PromotionAt(f) = at[r] + 1
    BY <1>2, <1>3, <1>6, <2>1, CopyEffect
  <2>2. CASE PromotionAt(f) <= at[r]
    BY <1>2, <1>3, <1>6, <2>2, CopyEffect DEF Told
  <2>3. QED
    BY <1>6, <2>1, <2>2 DEF PromotionAt
<1>14. Shown'
  <2> SUFFICES ASSUME NEW x \in Slide
               PROVE  \/ Unpromoted(x)'
                      \/ \A f \in File : \/ stored'[f][x] = fills'[x]
                                         \/ f = "preview" /\ x \notin pictured'
    BY DEF Shown, AsShown
  <2>1. CASE x = SlideOf(r)
    <3>1. ASSUME ~UnpromotedBut(r, x), NEW f \in File PROVE stored'[f][x] = fills'[x]
      <4>1. deck[r][x] = fills[x] \/ UnpromotedBut(r, x)
        BY <1>2, <1>6, <2>1 DEF Told
      <4>2. QED
        BY <1>6, <1>13, <2>1, <3>1, <4>1
    <3>2. QED
      BY <1>12, <2>1, <3>1
  <2>2. CASE x # SlideOf(r)
    <3>1. \/ Unpromoted(x)
          \/ \A f \in File : stored'[f][x] = fills[x] \/ (f = "preview" /\ x \notin pictured')
      BY <1>2, <1>6, <2>2, CopyKeeps
    <3>2. QED
      BY <1>6, <1>11, <2>2, <3>1
  <2>3. QED
    BY <2>1, <2>2
<1>15. QED
  BY <1>8, <1>9, <1>10, <1>14

(* A promotion that fails keeps its back-ups.                              *)
LEMMA PromoteFailsStep ==
  ASSUME TypeOK, Engaged, Counted, FilesInv, NEW r \in Run, PromoteFails(r)
  PROVE  FilesInv'
<1> USE DEF locals, rows, tasks, bucket, history
<1>1. \A q \in accepted' : pc'[q] # "idle"
  BY DEF TypeOK, FilesInv, PromoteFails, Go
<1> SUFFICES ASSUME ~overlap'
             PROVE  (Single /\ Order /\ Clean /\ Carried /\ Alike /\ Told /\ Shown)'
  BY <1>1 DEF FilesInv
<1>2. ~overlap /\ Single /\ Order /\ Clean /\ Carried /\ Alike /\ Told /\ Shown
  BY DEF FilesInv, PromoteFails
<1>3. /\ taskOf[r] \in Task /\ SlideOf(r) \in Slide /\ pc[r] \in Processing
      /\ UNCHANGED <<taskOf, slideOf, retries>>
  BY DEF Engaged, Processing, PromoteFails, Go
<1>4. /\ \A q \in Run : SlideOf(q)' = SlideOf(q)
      /\ \A q \in Run, v \in Version : Edited(q, v)' = Edited(q, v)
  BY <1>3 DEF SlideOf, Edited, IsRetry
<1>5. \A q \in Run : q # r => pc'[q] = pc[q] /\ pc[q] \notin Processing
  BY <1>2, <1>3 DEF Single, TypeOK, PromoteFails, Go
<1>6. /\ pc' = [pc EXCEPT ![r] = "restore"]
      /\ UNCHANGED <<fills, base, deck, attempt, backup, accepted, promoted>>
      /\ \/ /\ pc[r] = "backup" /\ UNCHANGED <<at, stored, pictured>>
         \/ /\ pc[r] = "copy" /\ (CopiedTo(r) \/ UNCHANGED <<stored, pictured>>)
  BY DEF PromoteFails, Go
<1>7. /\ \A q \in Run : pc'[q] \in Processing => q = r /\ pc'[q] = "restore"
      /\ \A f \in File : Saved(r, f)' => Saved(r, f)
      /\ pc[r] \in Promoting
  <2>1. \A q \in Run : pc'[q] \in Processing => q = r /\ pc'[q] = "restore"
    BY <1>5, <1>6 DEF TypeOK
  <2>2. pc'[r] = "restore" /\ pc[r] \in {"backup", "copy"} /\ (pc[r] = "backup" => at' = at)
    BY <1>6 DEF TypeOK
  <2>3. \A f \in File : Saved(r, f)' => Saved(r, f)
    BY <2>2 DEF Saved
  <2>4. QED
    BY <2>1, <2>2, <2>3 DEF Promoting
<1>8. \A x \in Slide : Unpromoted(x) => Unpromoted(x)'
  BY <1>4, <1>6 DEF Unpromoted, TypeOK
<1>9. Single' /\ Carried' /\ Told'
  BY <1>7 DEF Single, Carried, Uploaded, Told, Processing
<1>10. Order'
  BY <1>2, <1>6, <1>7 DEF Order, TypeOK, Late, Promoting
<1>11. \/ UNCHANGED <<stored, pictured>>
       \/ pc[r] = "copy" /\ CopiedTo(r)
  BY <1>6
<1>12. /\ \A f \in File, x \in Slide : stored'[f][x] \subseteq accepted
       /\ \A x \in Slide : x # SlideOf(r) => stored'["pptx"][x] = stored["pptx"][x]
  <2>1. CASE UNCHANGED <<stored, pictured>>
    BY <1>2, <2>1 DEF Clean
  <2>2. CASE pc[r] = "copy" /\ CopiedTo(r)
    BY <1>2, <2>2, CopyKeeps
  <2>3. QED
    BY <1>11, <2>1, <2>2
<1>13. Clean'
  <2>1. \A q \in Run, f \in File : Saved(q, f)' => q = r /\ Saved(r, f)
    BY <1>7 DEF Saved, Processing
  <2>2. QED
    BY <1>2, <1>3, <1>6, <1>7, <1>12, <2>1 DEF Clean, HasDeck, Processing
<1>14. Alike'
  BY <1>2, <1>3, <1>4, <1>6, <1>7, <1>8, <1>12 DEF Alike, HasDeck, File
<1>15. Shown'
  <2>1. Unpromoted(SlideOf(r))
    BY <1>2, <1>7 DEF Unpromoted, Order, Promoting
  <2>2. CASE UNCHANGED <<stored, pictured>>
    BY <1>2, <1>6, <1>8, <2>2 DEF Shown, AsShown
  <2>3. CASE pc[r] = "copy" /\ CopiedTo(r)
    BY <1>2, <1>6, <1>8, <2>1, <2>3, CopyKeeps DEF Shown, AsShown
  <2>4. QED
    BY <1>11, <2>2, <2>3
<1>16. QED
  BY <1>9, <1>10, <1>13, <1>14, <1>15

(* A restored file is the one that was backed up.                          *)
LEMMA RestoreEffect ==
  ASSUME TypeOK, Engaged, NEW r \in Run, Restore(r)
  PROVE  \E f \in File :
           /\ PromotionAt(f) = at[r]
           /\ \A g \in File, x \in Slide :
                \/ stored'[g][x] = stored[g][x]
                \/ g = f /\ (g = "preview" => x = SlideOf(r))
                   /\ stored'[g][x] = backup[taskOf[r]][f][x]
<1>1. at[r] \in 1..3 /\ taskOf[r] \in Task /\ SlideOf(r) \in Slide
  BY DEF Restore, TypeOK, Engaged
<1> DEFINE f == Promotions[at[r]]
<1>2. f \in File /\ PromotionAt(f) = at[r]
  BY <1>1 DEF Promotions, PromotionAt, File
<1>3. backup[taskOf[r]][f] \in Deck /\ \A g \in File : stored[g] \in Deck
  BY <1>1, <1>2 DEF TypeOK, Files
<1>4. stored' = stored \/ stored' = Overwritten(f, backup[taskOf[r]][f], SlideOf(r))
  BY DEF Restore
<1>5. ASSUME NEW g \in File, NEW x \in Slide, NEW d \in Deck
      PROVE  Overwritten(f, d, SlideOf(r))[g][x] =
               IF g = f /\ (g = "preview" => x = SlideOf(r)) THEN d[x] ELSE stored[g][x]
  BY <1>1, <1>2, <1>3 DEF Overwritten, TypeOK, Files, Deck
<1>6. \A g \in File, x \in Slide :
        \/ stored'[g][x] = stored[g][x]
        \/ g = f /\ (g = "preview" => x = SlideOf(r)) /\ stored'[g][x] = backup[taskOf[r]][f][x]
  BY <1>3, <1>4, <1>5
<1>7. QED
  BY <1>2, <1>6

(* The restored files have accepted edits, and the other slides as shown.  *)
LEMMA RestoreStep ==
  ASSUME TypeOK, Engaged, Counted, FilesInv, NEW r \in Run, Restore(r)
  PROVE  FilesInv'
<1> USE DEF locals, rows, tasks, bucket, history
<1>1. \A q \in accepted' : pc'[q] # "idle"
  BY DEF TypeOK, FilesInv, Restore, Go
<1> SUFFICES ASSUME ~overlap'
             PROVE  (Single /\ Order /\ Clean /\ Carried /\ Alike /\ Told /\ Shown)'
  BY <1>1 DEF FilesInv
<1>2. ~overlap /\ Single /\ Order /\ Clean /\ Carried /\ Alike /\ Told /\ Shown
  BY DEF FilesInv, Restore
<1>3. /\ taskOf[r] \in Task /\ SlideOf(r) \in Slide /\ pc[r] \in Processing
      /\ UNCHANGED <<taskOf, slideOf, retries>>
  BY DEF Engaged, Processing, Restore, Go
<1>4. /\ \A q \in Run : SlideOf(q)' = SlideOf(q)
      /\ \A q \in Run, v \in Version : Edited(q, v)' = Edited(q, v)
  BY <1>3 DEF SlideOf, Edited, IsRetry
<1>5. \A q \in Run : q # r => pc'[q] = pc[q] /\ pc[q] \notin Processing
  BY <1>2, <1>3 DEF Single, TypeOK, Restore, Go
<1>6. /\ pc[r] = "restore" /\ at[r] \in 1..3 /\ at' = [at EXCEPT ![r] = @ - 1]
      /\ UNCHANGED <<pc, fills, base, deck, attempt, backup, pictured, accepted, promoted>>
  BY DEF Restore, TypeOK
<1>7. /\ \A q \in Run : pc'[q] \in Processing => q = r
      /\ \A f \in File : Saved(r, f)' => Saved(r, f)
      /\ \A f \in File : PromotionAt(f) = at[r] => Saved(r, f)
  BY <1>3, <1>5, <1>6 DEF TypeOK, Saved, PromotionAt
<1>8. \A x \in Slide : Unpromoted(x) => Unpromoted(x)'
  BY <1>4, <1>6 DEF Unpromoted, TypeOK
<1>9. Single' /\ Order' /\ Carried' /\ Told'
  BY <1>2, <1>4, <1>6, <1>7 DEF Single, Order, Carried, Uploaded, Told, Processing
<1>10. PICK f \in File :
         /\ PromotionAt(f) = at[r]
         /\ \A g \in File, x \in Slide :
              \/ stored'[g][x] = stored[g][x]
              \/ g = f /\ (g = "preview" => x = SlideOf(r))
                 /\ stored'[g][x] = backup[taskOf[r]][f][x]
  BY RestoreEffect
<1>11. Clean'
  <2>1. \A g \in File, x \in Slide : stored'[g][x] \subseteq accepted
    BY <1>2, <1>7, <1>10 DEF Clean
  <2>2. \A q \in Run, g \in File : Saved(q, g)' => q = r /\ Saved(r, g)
    BY <1>6, <1>7 DEF Saved, Processing
  <2>3. QED
    BY <1>2, <1>3, <1>6, <1>7, <2>1, <2>2 DEF Clean, HasDeck, Processing
<1>12. \A x \in Slide : x # SlideOf(r) => stored'["pptx"][x] = stored["pptx"][x]
  BY <1>2, <1>3, <1>7, <1>10 DEF Alike, File
<1>13. Alike'
  BY <1>2, <1>3, <1>4, <1>6, <1>7, <1>8, <1>12 DEF Alike, HasDeck, File
<1>14. Shown'
  <2>1. Unpromoted(SlideOf(r))
    BY <1>2, <1>6 DEF Unpromoted, Order, Promoting
  <2>2. ASSUME NEW x \in Slide, x # SlideOf(r), ~Unpromoted(x), NEW g \in File
        PROVE  stored'[g][x] = fills[x] \/ (g = "preview" /\ x \notin pictured)
    <3>1. stored[g][x] = fills[x] \/ (g = "preview" /\ x \notin pictured)
      BY <1>2, <2>2 DEF Shown, AsShown
    <3>2. CASE stored'[g][x] = stored[g][x]
      BY <3>1, <3>2
    <3>3. CASE g = f /\ (g = "preview" => x = SlideOf(r)) /\ stored'[g][x] = backup[taskOf[r]][f][x]
      <4>1. g \in {"pptx", "pdf"} /\ Saved(r, g)
        BY <1>7, <1>10, <2>2, <3>3 DEF File
      <4>2. QED
        BY <1>2, <1>3, <2>2, <3>3, <4>1 DEF Alike
    <3>4. QED
      BY <1>10, <3>2, <3>3
  <2>3. QED
    BY <1>6, <1>8, <2>1, <2>2 DEF Shown, AsShown
<1>15. QED
  BY <1>9, <1>11, <1>13, <1>14

-----------------------------------------------------------------------------
(* The invariant of the files is inductive.                                *)
LEMMA FilesStep == TypeOK /\ Engaged /\ Inv /\ FilesInv /\ [Next]_vars => FilesInv'
<1> SUFFICES ASSUME TypeOK, Engaged, Inv, FilesInv, [Next]_vars PROVE FilesInv'
  OBVIOUS
<1>1. CASE \E t \in Task, s \in Slide : Ask(t, s)
  BY <1>1, QuietSteps, QuietStep
<1>2. CASE \E r \in Run, t \in Task, h \in Host : Deliver(r, t, h) \/ SkipInFlight(r, t, h)
  BY <1>2, QuietSteps, QuietStep
<1>3. CASE \E r \in Run : Step(r)
  <2> SUFFICES ASSUME NEW r \in Run, Step(r) PROVE FilesInv'
    BY <1>3
  <2>1. Counted
    BY DEF Inv
  <2>2. CASE QuietRun(r)
    BY <2>2, QuietSteps, QuietStep
  <2>3. CASE ReadContext(r)
    BY <2>3, ReadContextStep
  <2>4. CASE MakeDeck(r)
    BY <2>1, <2>4, MakeDeckStep
  <2>5. CASE Upload(r)
    BY <2>1, <2>5, UploadStep
  <2>6. CASE SendRegenerated(r) \/ RegeneratedUnanswered(r)
    BY <2>1, <2>6, SendStep
  <2>7. CASE BackUp(r)
    BY <2>1, <2>7, BackUpStep
  <2>8. CASE Copy(r)
    BY <2>1, <2>8, CopyStep
  <2>9. CASE Promote(r)
    BY <2>1, <2>9, PromoteStep
  <2>10. CASE PromoteFails(r)
    BY <2>1, <2>10, PromoteFailsStep
  <2>11. CASE Restore(r)
    BY <2>1, <2>11, RestoreStep
  <2>12. QED
    BY <2>2, <2>3, <2>4, <2>5, <2>6, <2>7, <2>8, <2>9, <2>10, <2>11
       DEF Step, QuietRun
<1>4. CASE \E t \in Task : GiveUp(t)
  BY <1>4, QuietSteps, QuietStep
<1>5. CASE \E s \in Slide : HealStuck(s)
  BY <1>5, QuietSteps, QuietStep
<1>6. CASE \E h \in Host : Crash(h)
  BY <1>6, QuietSteps, QuietStep
<1>7. CASE UNCHANGED vars
  BY <1>7, QuietSteps, QuietStep
<1>8. QED
  BY <1>1, <1>2, <1>3, <1>4, <1>5, <1>6, <1>7 DEF Next

(* At the start all files are those of phase 1.                            *)
LEMMA InitFiles == Init => FilesInv
<1> SUFFICES ASSUME Init PROVE FilesInv
  OBVIOUS
<1>1. \A r \in Run : pc[r] = "idle"
  BY DEF Init
<1>2. accepted = {} /\ promoted = {}
  BY DEF Init
<1>3. \A s \in Slide : fills[s] = {} /\ \A f \in File : stored[f][s] = {}
  BY DEF Init, Blank, BlankFiles
<1>4. Single /\ Order /\ Carried /\ Alike /\ Told
  BY <1>1, <1>2 DEF Single, Order, Carried, Uploaded, Alike, Told, Processing, Promoting
<1>5. Clean
  BY <1>1, <1>2, <1>3 DEF Clean, HasDeck, Saved, Processing
<1>6. Shown
  BY <1>3 DEF Shown, AsShown
<1>7. QED
  BY <1>2, <1>4, <1>5, <1>6 DEF FilesInv

(* The inductive invariant of the files: as long as no two executions overlap, what an
   execution carries from step to step is what it found, but for its own slide. *)
THEOREM FilesInvariance == Spec => []FilesInv
<1>1. TypeOK /\ Engaged /\ Inv /\ FilesInv /\ [Next]_vars => FilesInv'
  BY FilesStep
<1>2. QED
  BY Invariance, InitFiles, <1>1, PTL DEF Spec

(* The canonical files hold no edit the main server has not accepted, whatever fails on the
   way, unless two executions of the job overlap.                          *)
THEOREM AcceptedOnlyHolds == Spec => []AcceptedOnly
<1>1. FilesInv => AcceptedOnly
  BY DEF FilesInv, Clean, AcceptedOnly
<1>2. QED
  BY FilesInvariance, <1>1, PTL

(* Deck, PDF and preview are what the main server shows, unless a result it accepted was
   not promoted or two executions of the job overlap.                      *)
THEOREM ShownIsStoredHolds == Spec => []ShownIsStored
<1>1. FilesInv => ShownIsStored
  BY DEF FilesInv, Shown, ShownIsStored
<1>2. QED
  BY FilesInvariance, <1>1, PTL

(* A slide of the canonical deck changes only by the promotion, or its undoing, of an
   accepted run of that slide, unless two executions of the job overlap.   *)
THEOREM OthersUntouchedHolds == Spec => OthersUntouched
<1> DEFINE Untouched(s) ==
      ~overlap /\ stored'["pptx"][s] # stored["pptx"][s]
        => \E r \in accepted : pc[r] \in {"copy", "restore"} /\ SlideOf(r) = s
<1>1. ASSUME TypeOK, Engaged, Inv, FilesInv, [Next]_vars
      PROVE  \A s \in Slide : Untouched(s)
  <2> SUFFICES ASSUME NEW s \in Slide, ~overlap, stored'["pptx"][s] # stored["pptx"][s]
               PROVE  \E r \in accepted : pc[r] \in {"copy", "restore"} /\ SlideOf(r) = s
    OBVIOUS
  <2>1. Single /\ Order /\ Clean /\ Carried /\ Alike /\ Told /\ Shown
    BY <1>1 DEF FilesInv
  <2>2. stored' # stored
    OBVIOUS
  <2>3. ~Quiet
    BY <2>2 DEF Quiet, bucket
  <2>4. PICK r \in Run : Step(r) /\ ~QuietRun(r)
    <3>1. ~UNCHANGED vars
      BY <1>1, <2>3, QuietSteps
    <3>2. PICK r \in Run : Step(r)
      BY <1>1, <2>3, <3>1, QuietSteps DEF Next
    <3>3. QED
      BY <1>1, <2>3, <3>2, QuietSteps
  <2>5. \/ ReadContext(r) \/ MakeDeck(r) \/ Upload(r)
        \/ SendRegenerated(r) \/ RegeneratedUnanswered(r) \/ BackUp(r)
        \/ Copy(r) \/ Promote(r) \/ PromoteFails(r) \/ Restore(r)
    BY <2>4 DEF Step, QuietRun
  <2>6. ~(ReadContext(r) \/ MakeDeck(r) \/ Upload(r) \/ SendRegenerated(r)
          \/ RegeneratedUnanswered(r) \/ BackUp(r))
    BY <2>2 DEF ReadContext, MakeDeck, Upload, SendRegenerated, RegeneratedUnanswered, BackUp,
       bucket
  <2>7. CASE pc[r] = "copy" /\ CopiedTo(r)
    <3>1. s = SlideOf(r)
      BY <1>1, <2>1, <2>7, CopyKeeps
    <3>2. QED
      BY <2>1, <2>7, <3>1 DEF Order, Promoting
  <2>8. CASE Restore(r)
    <3>1. pc[r] = "restore" /\ SlideOf(r) \in Slide
      BY <1>1, <2>8 DEF Restore, Engaged
    <3>2. \A f \in File : PromotionAt(f) = at[r] => Saved(r, f)
      BY <1>1, <3>1 DEF Saved, TypeOK, PromotionAt
    <3>3. s # SlideOf(r) => stored'["pptx"][s] = stored["pptx"][s]
      BY <1>1, <2>1, <2>8, <3>1, <3>2, RestoreEffect DEF Alike, Processing, File
    <3>4. QED
      BY <2>1, <3>1, <3>3 DEF Order, Promoting
  <2>9. Copy(r) \/ Promote(r) \/ PromoteFails(r) => pc[r] = "copy" /\ CopiedTo(r)
    BY <2>2 DEF Copy, Promote, PromoteFails
  <2>10. QED
    BY <2>5, <2>6, <2>7, <2>8, <2>9
<1>2. QED
  BY Invariance, FilesInvariance, <1>1, PTL DEF Spec, OthersUntouched
=============================================================================
