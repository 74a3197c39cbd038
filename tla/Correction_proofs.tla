--------------------------- MODULE Correction_proofs ---------------------------
(***************************************************************************)
(* Proofs about Correction, for any set of tasks, any names and any        *)
(* bounds.                                                                 *)
(***************************************************************************)
EXTENDS Correction, SequenceTheorems, TLAPS

-----------------------------------------------------------------------------
(* Types *)

Statuses == {"NOT_STARTED", "DOING_RAG", "COMPANY_INSIGHT", "GENERATING", "DONE",
             "FAILED", "DELETED"}
Outcomes == {"open", "corrected", "failed"}

Results == Seq(Outcomes)
Names == Seq(Name)

Records ==
  [status : Statuses, insight : BOOLEAN, rag : {"none", "found", "empty"},
   result : Results, items : Names]

Marks == Seq([is : Outcomes, tries : Nat])

Works ==
  [stream : BOOLEAN, here : BOOLEAN, ended : BOOLEAN, found : BOOLEAN,
   saved : BOOLEAN, shown : Names, mark : Marks]

Places ==
  {"over", "rag", "search", "insight", "save_rag", "analyse", "save_insight",
   "generate", "correct", "summary", "save_result", "failing",
   "ask_rag", "ask_results", "regenerate", "reanalyse", "search_again",
   "extract", "save", "report", "completed"}

(* Every variable has its type.                                            *)
TypeOK ==
  /\ main \in Records
  /\ pc \in [Task -> Places]
  /\ work \in [Task -> Works]
  /\ faults \in Nat

-----------------------------------------------------------------------------
(* The inductive invariant *)

AllCorrected(mark) == mark # <<>> /\ \A p \in DOMAIN mark : mark[p].is = "corrected"

(* What a task is about to save as the result: nothing but corrections.    *)
Marked ==
  \A t \in Task :
    /\ pc[t] = "correct" => work[t].mark # <<>>
    /\ pc[t] \in {"summary", "save_result"} => AllCorrected(work[t].mark)

Distinct(s) == \A i, j \in DOMAIN s : s[i] = s[j] => i = j

(* What an extraction has in hand: distinct activities, and no more than   *)
(* allowed once they are to be saved.                                      *)
InHand ==
  \A t \in Task :
    /\ Distinct(work[t].shown)
    /\ pc[t] = "save" => Len(work[t].shown) <= MaxActivities

(* The record holds what some extraction had in hand.                      *)
Held == Distinct(main.items) /\ Len(main.items) <= MaxActivities

(* An extraction that has ended is being saved, saved, or was never to be. *)
Ended ==
  \A t \in Task :
    /\ pc[t] = "completed" => work[t].saved
    /\ pc[t] = "extract" => ~work[t].ended
    /\ work[t].ended /\ pc[t] # "save" /\ faults = 0 /\ Exists => work[t].saved

Inv == ResultIsComplete /\ Marked /\ NeverStuck /\ InHand /\ Held /\ Ended

-----------------------------------------------------------------------------
(* Types are kept *)

(* Another status makes a record of the same type.                         *)
LEMMA StatusTyped ==
  ASSUME main \in Records, NEW s \in Statuses
  PROVE  [main EXCEPT !.status = s] \in Records
BY DEF Records

(* So does every other change of the record.                               *)
LEMMA RecordTyped ==
  ASSUME main \in Records
  PROVE  /\ NewRecord \in Records /\ [NewRecord EXCEPT !.status = "DELETED"] \in Records
         /\ \A r \in {"found", "empty"} : [main EXCEPT !.rag = r] \in Records
         /\ [main EXCEPT !.status = "COMPANY_INSIGHT", !.insight = TRUE] \in Records
         /\ \A res \in Results : [main EXCEPT !.status = "DONE", !.result = res] \in Records
         /\ \A its \in Names : [main EXCEPT !.items = its] \in Records
<1>1. <<>> \in Results /\ <<>> \in Names
  BY DEF Results, Names
<1>2. QED
  BY <1>1 DEF Records, Statuses, NewRecord

(* A call leaves the record typed, and sends the task somewhere.           *)
LEMMA CallTyped ==
  ASSUME TypeOK, NEW t \in Task, NEW accepted, NEW new, accepted => new \in Records,
         NEW then \in Places, NEW else \in Places, Call(t, accepted, new, then, else)
  PROVE  main' \in Records /\ pc' \in [Task -> Places] /\ faults' \in Nat
BY DEF TypeOK, Call, Go

(* Setting the status keeps a job a job.                                   *)
LEMMA SetStatusTyped ==
  ASSUME TypeOK, NEW t \in Task, NEW s \in Statuses,
         NEW then \in Places, NEW else \in Places, SetStatus(t, s, then, else)
  PROVE  main' \in Records /\ pc' \in [Task -> Places] /\ faults' \in Nat
BY CallTyped, StatusTyped DEF SetStatus, TypeOK

(* What a task may have in hand.                                           *)
LEMMA WorkTyped ==
  ASSUME TypeOK, NEW t \in Task
  PROVE  /\ Empty \in Works
         /\ \A s \in BOOLEAN : [Empty EXCEPT !.stream = s, !.here = s] \in Works
         /\ \A w \in Works : [work EXCEPT ![t] = w] \in [Task -> Works]
         /\ \A b \in BOOLEAN : [work EXCEPT ![t].found = b] \in [Task -> Works]
         /\ [work EXCEPT ![t].saved = TRUE] \in [Task -> Works]
         /\ [work EXCEPT ![t].here = FALSE] \in [Task -> Works]
         /\ \A m \in Marks : [work EXCEPT ![t].mark = m] \in [Task -> Works]
         /\ \A s \in Names : /\ [work EXCEPT ![t].shown = s] \in [Task -> Works]
                                 /\ [work EXCEPT ![t].shown = s, ![t].ended = TRUE]
                                      \in [Task -> Works]
<1>1. <<>> \in Names /\ <<>> \in Marks
  BY DEF Marks, Names
<1>2. QED
  BY <1>1 DEF TypeOK, Works, Empty

(* What an execution has in hand is a job.                                 *)
LEMMA InHandTyped ==
  ASSUME TypeOK, NEW t \in Task
  PROVE  /\ work[t] \in Works /\ work[t].shown \in Names /\ work[t].mark \in Marks
         /\ \A p \in DOMAIN work[t].mark :
               work[t].mark[p].tries \in Nat /\ work[t].mark[p].is \in Outcomes
<1>1. work[t] \in Works
  BY DEF TypeOK
<1>2. work[t].shown \in Names /\ work[t].mark \in Marks
  BY <1>1 DEF Works
<1>3. ASSUME NEW p \in DOMAIN work[t].mark
      PROVE  work[t].mark[p].tries \in Nat /\ work[t].mark[p].is \in Outcomes
  <2>1. /\ work[t].mark \in Seq([is : Outcomes, tries : Nat])
        /\ DOMAIN work[t].mark = 1..Len(work[t].mark)
    BY <1>2, LenProperties DEF Marks
  <2>2. work[t].mark[p] \in [is : Outcomes, tries : Nat]
    BY <2>1, ElementOfSeq
  <2>3. QED
    BY <2>2
<1>4. QED
  BY <1>1, <1>2, <1>3

(* A portfolio of a correction is marked.                                  *)
LEMMA MarkTyped ==
  ASSUME TypeOK, NEW t \in Task, NEW p \in DOMAIN work[t].mark,
         NEW m \in Outcomes, NEW n \in Nat, Mark(t, p, m, n)
  PROVE  TypeOK'
<1>1. [work[t].mark EXCEPT ![p] = [is |-> m, tries |-> n]] \in Marks
  <2>1. work[t].mark \in Seq([is : Outcomes, tries : Nat]) /\ p \in 1..Len(work[t].mark)
    BY InHandTyped, LenProperties DEF Marks
  <2>2. QED
    BY <2>1, ExceptSeq DEF Marks
<1>2. [work EXCEPT ![t].mark[p] = [is |-> m, tries |-> n]] \in [Task -> Works]
  BY <1>1, WorkTyped
<1>3. QED
  BY <1>2 DEF TypeOK, Mark

(* Every step keeps the types.                                             *)
LEMMA TypeStep == TypeOK /\ [Next]_vars => TypeOK'
<1> SUFFICES ASSUME TypeOK, [Next]_vars PROVE TypeOK'
  OBVIOUS
<1> USE DEF TypeOK, Places, Statuses, Outcomes, vars
<1>1. ASSUME NEW t \in Task, StartRag(t) PROVE TypeOK'
  BY <1>1, SetStatusTyped, WorkTyped DEF StartRag, Starts
<1>2. ASSUME NEW t \in Task, StartGeneration(t) PROVE TypeOK'
  BY <1>2, SetStatusTyped, WorkTyped DEF StartGeneration, Starts
<1>3. ASSUME NEW t \in Task, EditInsight(t) PROVE TypeOK'
  BY <1>3, CallTyped, StatusTyped, WorkTyped DEF EditInsight, Starts
<1>4. ASSUME NEW t \in Task, DeleteCorrection(t) PROVE TypeOK'
  BY <1>4, CallTyped, RecordTyped, WorkTyped DEF DeleteCorrection, Starts
<1>5. ASSUME NEW t \in Task, Retry(t) PROVE TypeOK'
  BY <1>5, WorkTyped DEF Retry, Starts, Go
<1>6. ASSUME NEW t \in Task, NEW stream \in BOOLEAN, NEW valid \in BOOLEAN,
             StartExtraction(t, stream, valid)
      PROVE  TypeOK'
  BY <1>6, WorkTyped DEF StartExtraction, Starts, Go
<1>7. ASSUME NEW t \in Task, AskRag(t) PROVE TypeOK'
  BY <1>7 DEF AskRag, Local, Go, At
<1>8. ASSUME NEW t \in Task, AskResults(t) PROVE TypeOK'
  BY <1>8 DEF AskResults, Local, Go, At
<1>9. ASSUME NEW t \in Task, RetryGeneration(t) PROVE TypeOK'
  BY <1>9, SetStatusTyped, WorkTyped DEF RetryGeneration
<1>10. ASSUME NEW t \in Task, RetryAnalysis(t) PROVE TypeOK'
  BY <1>10, SetStatusTyped, WorkTyped DEF RetryAnalysis
<1>11. ASSUME NEW t \in Task, RetrySearch(t) PROVE TypeOK'
  BY <1>11, SetStatusTyped, WorkTyped DEF RetrySearch
<1>12. ASSUME NEW t \in Task, RetryFails(t) PROVE TypeOK'
  BY <1>12 DEF RetryFails, Local, Go, At
<1>13. ASSUME NEW t \in Task, ExtractKeywords(t) PROVE TypeOK'
  BY <1>13 DEF ExtractKeywords, Local, Go, At
<1>14. ASSUME NEW t \in Task, Search(t) PROVE TypeOK'
  <2>1. PICK found \in BOOLEAN : work' = [work EXCEPT ![t].found = found]
    BY <1>14 DEF Search
  <2>2. QED
    BY <1>14, <2>1, WorkTyped DEF Search, Go
<1>15. ASSUME NEW t \in Task, GenerateInsight(t) PROVE TypeOK'
  BY <1>15 DEF GenerateInsight, Local, Go, At
<1>16. ASSUME NEW t \in Task, SaveRag(t) PROVE TypeOK'
  BY <1>16, CallTyped, RecordTyped, WorkTyped DEF SaveRag
<1>17. ASSUME NEW t \in Task, RunFromSearchResults(t) PROVE TypeOK'
  BY <1>17 DEF RunFromSearchResults, Local, Go, At
<1>18. ASSUME NEW t \in Task, SaveInsight(t) PROVE TypeOK'
  BY <1>18, CallTyped, RecordTyped, WorkTyped DEF SaveInsight
<1>19. ASSUME NEW t \in Task, ReadForGeneration(t) PROVE TypeOK'
  <2>1. ASSUME NEW n \in Nat PROVE [p \in 1..n |-> [is |-> "open", tries |-> 0]] \in Marks
    BY DEF Marks, Outcomes
  <2>2. Len(main.items) \in Nat
    BY DEF Records, Names
  <2>3. QED
    BY <1>19, <2>1, <2>2, WorkTyped DEF ReadForGeneration, Go
<1>20. ASSUME NEW t \in Task, NEW p \in DOMAIN work[t].mark, CorrectPortfolio(t, p)
       PROVE  TypeOK'
  BY <1>20, MarkTyped DEF CorrectPortfolio
<1>21. ASSUME NEW t \in Task, NEW p \in DOMAIN work[t].mark, AnswerIsInvalid(t, p)
       PROVE  TypeOK'
  BY <1>21, MarkTyped, InHandTyped DEF AnswerIsInvalid
<1>22. ASSUME NEW t \in Task, NEW p \in DOMAIN work[t].mark, PortfolioFails(t, p)
       PROVE  TypeOK'
  BY <1>22, MarkTyped DEF PortfolioFails
<1>23. ASSUME NEW t \in Task, Gather(t) PROVE TypeOK'
  BY <1>23, WorkTyped DEF Gather, Gathered, Go
<1>24. ASSUME NEW t \in Task, Summary(t) PROVE TypeOK'
  BY <1>24 DEF Summary, Local, Go, At
<1>25. ASSUME NEW t \in Task, SaveResult(t) PROVE TypeOK'
  <2>1. [p \in DOMAIN work[t].mark |-> work[t].mark[p].is] \in Results
    <3>1. DOMAIN work[t].mark = 1..Len(work[t].mark) /\ Len(work[t].mark) \in Nat
      BY InHandTyped, LenProperties DEF Marks
    <3>2. QED
      BY <3>1, InHandTyped DEF Results
  <2>2. QED
    BY <1>25, <2>1, CallTyped, RecordTyped, WorkTyped DEF SaveResult
<1>26. ASSUME NEW t \in Task, Raises(t) PROVE TypeOK'
  BY <1>26, WorkTyped DEF Raises, Go
<1>27. ASSUME NEW t \in Task, MarkFailed(t) PROVE TypeOK'
  BY <1>27, SetStatusTyped, WorkTyped DEF MarkFailed
<1>28. ASSUME NEW t \in Task, Activity(t) PROVE TypeOK'
  <2>1. \A name \in Name : Accept(work[t].shown, name) \in Names
    BY InHandTyped DEF Accept, Names
  <2>2. QED
    <3>1. PICK name \in Name : work' = [work EXCEPT ![t].shown = Accept(@, name)]
      BY <1>28 DEF Activity
    <3>2. work' = [work EXCEPT ![t].shown = Accept(work[t].shown, name)]
      BY <3>1
    <3>3. QED
      BY <1>28, <2>1, <3>2, WorkTyped DEF Activity
<1>29. ASSUME NEW t \in Task, ExtractionEnds(t) PROVE TypeOK'
  <2>1. Cut(work[t].shown) \in Names
    BY InHandTyped, BoundAssumption DEF Cut, Names
  <2>2. QED
    <3>1. CASE work[t].shown = <<>>
      BY <1>29, <3>1 DEF ExtractionEnds, Local, Go
    <3>2. CASE work[t].shown # <<>>
      <4>1. work' = [work EXCEPT ![t].shown = Cut(work[t].shown), ![t].ended = TRUE]
        BY <1>29, <3>2 DEF ExtractionEnds
      <4>2. QED
        BY <1>29, <3>2, <4>1, <2>1, WorkTyped DEF ExtractionEnds, Go
    <3>3. QED
      BY <3>1, <3>2
<1>30. ASSUME NEW t \in Task, ExtractionRaises(t) PROVE TypeOK'
  BY <1>30 DEF ExtractionRaises, Local, Go, At
<1>31. ASSUME NEW t \in Task, SaveActivities(t) PROVE TypeOK'
  <2>1. main' \in Records /\ pc' \in [Task -> Places] /\ faults' \in Nat
    BY <1>31, InHandTyped, CallTyped, RecordTyped DEF SaveActivities
  <2>2. QED
    BY <1>31, <2>1, WorkTyped DEF SaveActivities
<1>32. ASSUME NEW t \in Task, ReportFailure(t) PROVE TypeOK'
  BY <1>32, CallTyped DEF ReportFailure
<1>33. ASSUME NEW t \in Task, StreamEnds(t) PROVE TypeOK'
  BY <1>33, WorkTyped DEF StreamEnds, Go
<1>34. ASSUME NEW t \in Task, Leaves(t) PROVE TypeOK'
  BY <1>34, WorkTyped DEF Leaves, Go
<1>35. CASE Crash
  BY <1>35 DEF Crash, At
<1>36. CASE UNCHANGED vars
  BY <1>36
<1>37. QED
  BY <1>1, <1>2, <1>3, <1>4, <1>5, <1>6, <1>7, <1>8, <1>9, <1>10, <1>11,
     <1>12, <1>13, <1>14, <1>15, <1>16, <1>17, <1>18, <1>19, <1>20, <1>21,
     <1>22, <1>23, <1>24, <1>25, <1>26, <1>27, <1>28, <1>29, <1>30, <1>31,
     <1>32, <1>33, <1>34, <1>35, <1>36 DEF Next, Request, RetryStep,
     CorrectionStep, ExtractionStep

-----------------------------------------------------------------------------
(* The invariant is kept *)

(* Only a task with nothing but corrections in hand makes a result.         *)
LEMMA MarkedStep ==
  TypeOK /\ ResultIsComplete /\ Marked /\ [Next]_vars => ResultIsComplete' /\ Marked'
<1> SUFFICES ASSUME TypeOK, ResultIsComplete, Marked, [Next]_vars
             PROVE  ResultIsComplete' /\ Marked'
  OBVIOUS
<1> USE DEF ResultIsComplete, Marked, AllCorrected, TypeOK, Records, Works, vars
<1>1. ASSUME NEW t \in Task, StartRag(t) PROVE ResultIsComplete' /\ Marked'
  BY <1>1 DEF StartRag, Starts, Empty, SetStatus, May, Transitions, Call, Go,
     At
<1>2. ASSUME NEW t \in Task, StartGeneration(t) PROVE ResultIsComplete' /\ Marked'
  BY <1>2 DEF StartGeneration, Starts, Empty, SetStatus, May, Transitions,
     Call, Go, At
<1>3. ASSUME NEW t \in Task, EditInsight(t) PROVE ResultIsComplete' /\ Marked'
  BY <1>3 DEF EditInsight, Starts, Empty, May, Transitions, Call, Go, At
<1>4. ASSUME NEW t \in Task, DeleteCorrection(t) PROVE ResultIsComplete' /\ Marked'
  BY <1>4 DEF DeleteCorrection, Starts, Empty, NewRecord, Call, Go, At
<1>5. ASSUME NEW t \in Task, Retry(t) PROVE ResultIsComplete' /\ Marked'
  BY <1>5 DEF Retry, Starts, Empty, Go, At
<1>6. ASSUME NEW t \in Task, NEW stream \in BOOLEAN, NEW valid \in BOOLEAN,
             StartExtraction(t, stream, valid)
      PROVE  ResultIsComplete' /\ Marked'
  BY <1>6 DEF StartExtraction, Starts, Empty, Go, At
<1>7. ASSUME NEW t \in Task, AskRag(t) PROVE ResultIsComplete' /\ Marked'
  BY <1>7 DEF AskRag, Local, Go, At
<1>8. ASSUME NEW t \in Task, AskResults(t) PROVE ResultIsComplete' /\ Marked'
  BY <1>8 DEF AskResults, Local, Go, At
<1>9. ASSUME NEW t \in Task, RetryGeneration(t) PROVE ResultIsComplete' /\ Marked'
  BY <1>9 DEF RetryGeneration, SetStatus, May, Transitions, Call, Go, At
<1>10. ASSUME NEW t \in Task, RetryAnalysis(t) PROVE ResultIsComplete' /\ Marked'
  BY <1>10 DEF RetryAnalysis, SetStatus, May, Transitions, Call, Go, At
<1>11. ASSUME NEW t \in Task, RetrySearch(t) PROVE ResultIsComplete' /\ Marked'
  BY <1>11 DEF RetrySearch, SetStatus, May, Transitions, Call, Go, At
<1>12. ASSUME NEW t \in Task, RetryFails(t) PROVE ResultIsComplete' /\ Marked'
  BY <1>12 DEF RetryFails, Local, Go, At
<1>13. ASSUME NEW t \in Task, ExtractKeywords(t) PROVE ResultIsComplete' /\ Marked'
  BY <1>13 DEF ExtractKeywords, Local, Go, At
<1>14. ASSUME NEW t \in Task, Search(t) PROVE ResultIsComplete' /\ Marked'
  BY <1>14 DEF Search, Go, At
<1>15. ASSUME NEW t \in Task, GenerateInsight(t) PROVE ResultIsComplete' /\ Marked'
  BY <1>15 DEF GenerateInsight, Local, Go, At
<1>16. ASSUME NEW t \in Task, SaveRag(t) PROVE ResultIsComplete' /\ Marked'
  BY <1>16 DEF SaveRag, Call, Go, At
<1>17. ASSUME NEW t \in Task, RunFromSearchResults(t) PROVE ResultIsComplete' /\ Marked'
  BY <1>17 DEF RunFromSearchResults, Local, Go, At
<1>18. ASSUME NEW t \in Task, SaveInsight(t) PROVE ResultIsComplete' /\ Marked'
  <2>1. main'.status = "DONE" => main.status = "DONE" /\ main'.result = main.result
    BY <1>18 DEF SaveInsight, Call
  <2>2. \A u \in Task : pc'[u] = pc[u] \/ pc'[u] \in {"over", "failing"}
    BY <1>18 DEF SaveInsight, Call, Go
  <2>3. QED
    BY <1>18, <2>1, <2>2 DEF SaveInsight
<1>19. ASSUME NEW t \in Task, ReadForGeneration(t) PROVE ResultIsComplete' /\ Marked'
  BY <1>19 DEF ReadForGeneration, Go, At
<1>20. ASSUME NEW t \in Task, NEW p \in DOMAIN work[t].mark, CorrectPortfolio(t, p)
       PROVE  ResultIsComplete' /\ Marked'
  BY <1>20 DEF CorrectPortfolio, Open, Mark, Go, At
<1>21. ASSUME NEW t \in Task, NEW p \in DOMAIN work[t].mark, AnswerIsInvalid(t, p)
       PROVE  ResultIsComplete' /\ Marked'
  BY <1>21 DEF AnswerIsInvalid, Open, Mark, Go, At
<1>22. ASSUME NEW t \in Task, NEW p \in DOMAIN work[t].mark, PortfolioFails(t, p)
       PROVE  ResultIsComplete' /\ Marked'
  BY <1>22 DEF PortfolioFails, Open, Mark, Go, At
<1>23. ASSUME NEW t \in Task, Gather(t) PROVE ResultIsComplete' /\ Marked'
  <2>1. CASE Gathered(work[t].mark) = "failing"
    BY <1>23, <2>1 DEF Gather, Empty, Go, At
  <2>2. CASE Gathered(work[t].mark) # "failing"
    <3>1. \A p \in DOMAIN work[t].mark : work[t].mark[p].is \in {"corrected", "failed"}
      BY <1>23, InHandTyped DEF Gather, Open, At, Outcomes
    <3>2. AllCorrected(work[t].mark)
      BY <1>23, <2>2, <3>1 DEF Gather, Gathered, At
    <3>3. QED
      BY <1>23, <2>2, <3>2 DEF Gather, Go
  <2>3. QED
    BY <2>1, <2>2
<1>24. ASSUME NEW t \in Task, Summary(t) PROVE ResultIsComplete' /\ Marked'
  BY <1>24 DEF Summary, Local, Go, At
<1>25. ASSUME NEW t \in Task, SaveResult(t) PROVE ResultIsComplete' /\ Marked'
  <2> DEFINE res == [p \in DOMAIN work[t].mark |-> work[t].mark[p].is]
  <2>1. res # <<>> /\ \A p \in DOMAIN res : res[p] = "corrected"
    <3>1. AllCorrected(work[t].mark)
      BY <1>25 DEF SaveResult, At
    <3>2. DOMAIN res = 1..Len(work[t].mark) /\ work[t].mark # <<>> /\ work[t].mark \in Marks
      BY <3>1, InHandTyped, LenProperties DEF Marks
    <3>3. 1 \in DOMAIN res
      BY <3>2, EmptySeq, LenProperties DEF Marks
    <3>4. QED
      BY <3>1, <3>3
  <2>2. \/ main' = main
        \/ main' = [main EXCEPT !.status = "DONE", !.result = res]
    BY <1>25 DEF SaveResult, Call
  <2>3. main'.status = "DONE" => main'.result = res \/ main' = main
    BY <2>2
  <2>4. ResultIsComplete'
    BY <2>1, <2>3
  <2>5. \A u \in Task : \/ pc'[u] = pc[u] /\ u # t
                      \/ pc'[u] \in {"over", "failing"}
    BY <1>25 DEF SaveResult, Call, Go
  <2>6. work' = [work EXCEPT ![t] = Empty]
    BY <1>25 DEF SaveResult
  <2>7. Marked'
    BY <2>5, <2>6
  <2>8. QED
    BY <2>4, <2>7
<1>26. ASSUME NEW t \in Task, Raises(t) PROVE ResultIsComplete' /\ Marked'
  BY <1>26 DEF Raises, Working, Empty, Go, At
<1>27. ASSUME NEW t \in Task, MarkFailed(t) PROVE ResultIsComplete' /\ Marked'
  BY <1>27 DEF MarkFailed, SetStatus, May, Transitions, Call, Go, At
<1>28. ASSUME NEW t \in Task, Activity(t) PROVE ResultIsComplete' /\ Marked'
  BY <1>28 DEF Activity, Go, At
<1>29. ASSUME NEW t \in Task, ExtractionEnds(t) PROVE ResultIsComplete' /\ Marked'
  BY <1>29 DEF ExtractionEnds, Local, Go, At
<1>30. ASSUME NEW t \in Task, ExtractionRaises(t) PROVE ResultIsComplete' /\ Marked'
  BY <1>30 DEF ExtractionRaises, Local, Go, At
<1>31. ASSUME NEW t \in Task, SaveActivities(t) PROVE ResultIsComplete' /\ Marked'
  BY <1>31 DEF SaveActivities, Empty, Call, Go, At
<1>32. ASSUME NEW t \in Task, ReportFailure(t) PROVE ResultIsComplete' /\ Marked'
  BY <1>32 DEF ReportFailure, Call, Go, At
<1>33. ASSUME NEW t \in Task, StreamEnds(t) PROVE ResultIsComplete' /\ Marked'
  BY <1>33 DEF StreamEnds, Empty, Go, At
<1>34. ASSUME NEW t \in Task, Leaves(t) PROVE ResultIsComplete' /\ Marked'
  BY <1>34 DEF Leaves, Go, At
<1>35. CASE Crash
  BY <1>35 DEF Crash, At
<1>36. CASE UNCHANGED vars
  BY <1>36
<1>37. QED
  BY <1>1, <1>2, <1>3, <1>4, <1>5, <1>6, <1>7, <1>8, <1>9, <1>10, <1>11,
     <1>12, <1>13, <1>14, <1>15, <1>16, <1>17, <1>18, <1>19, <1>20, <1>21,
     <1>22, <1>23, <1>24, <1>25, <1>26, <1>27, <1>28, <1>29, <1>30, <1>31,
     <1>32, <1>33, <1>34, <1>35, <1>36 DEF Next, Request, RetryStep,
     CorrectionStep, ExtractionStep

(* Whoever leaves the work on a correction leaves a status that says so.     *)
LEMMA StuckStep == TypeOK /\ NeverStuck /\ [Next]_vars => NeverStuck'
<1> SUFFICES ASSUME TypeOK, NeverStuck, [Next]_vars
             PROVE  NeverStuck'
  OBVIOUS
<1> USE DEF NeverStuck, Analysing, Correcting, TypeOK, Records, vars
<1>1. ASSUME NEW t \in Task, StartRag(t) PROVE NeverStuck'
  BY <1>1 DEF StartRag, Starts, Empty, SetStatus, May, Transitions, Call, Go,
     At
<1>2. ASSUME NEW t \in Task, StartGeneration(t) PROVE NeverStuck'
  BY <1>2 DEF StartGeneration, Starts, Empty, SetStatus, May, Transitions,
     Call, Go, At
<1>3. ASSUME NEW t \in Task, EditInsight(t) PROVE NeverStuck'
  BY <1>3 DEF EditInsight, Starts, Empty, May, Transitions, Call, Go, At
<1>4. ASSUME NEW t \in Task, DeleteCorrection(t) PROVE NeverStuck'
  BY <1>4 DEF DeleteCorrection, Starts, Empty, NewRecord, Call, Go, At
<1>5. ASSUME NEW t \in Task, Retry(t) PROVE NeverStuck'
  BY <1>5 DEF Retry, Starts, Empty, Go, At
<1>6. ASSUME NEW t \in Task, NEW stream \in BOOLEAN, NEW valid \in BOOLEAN,
             StartExtraction(t, stream, valid)
      PROVE  NeverStuck'
  BY <1>6 DEF StartExtraction, Starts, Empty, Go, At
<1>7. ASSUME NEW t \in Task, AskRag(t) PROVE NeverStuck'
  BY <1>7 DEF AskRag, Local, Go, At
<1>8. ASSUME NEW t \in Task, AskResults(t) PROVE NeverStuck'
  BY <1>8 DEF AskResults, Local, Go, At
<1>9. ASSUME NEW t \in Task, RetryGeneration(t) PROVE NeverStuck'
  BY <1>9 DEF RetryGeneration, SetStatus, May, Transitions, Call, Go, At
<1>10. ASSUME NEW t \in Task, RetryAnalysis(t) PROVE NeverStuck'
  BY <1>10 DEF RetryAnalysis, SetStatus, May, Transitions, Call, Go, At
<1>11. ASSUME NEW t \in Task, RetrySearch(t) PROVE NeverStuck'
  BY <1>11 DEF RetrySearch, SetStatus, May, Transitions, Call, Go, At
<1>12. ASSUME NEW t \in Task, RetryFails(t) PROVE NeverStuck'
  BY <1>12 DEF RetryFails, Local, Go, At
<1>13. ASSUME NEW t \in Task, ExtractKeywords(t) PROVE NeverStuck'
  BY <1>13 DEF ExtractKeywords, Local, Go, At
<1>14. ASSUME NEW t \in Task, Search(t) PROVE NeverStuck'
  BY <1>14 DEF Search, Go, At
<1>15. ASSUME NEW t \in Task, GenerateInsight(t) PROVE NeverStuck'
  BY <1>15 DEF GenerateInsight, Local, Go, At
<1>16. ASSUME NEW t \in Task, SaveRag(t) PROVE NeverStuck'
  BY <1>16 DEF SaveRag, Call, Go, At
<1>17. ASSUME NEW t \in Task, RunFromSearchResults(t) PROVE NeverStuck'
  BY <1>17 DEF RunFromSearchResults, Local, Go, At
<1>18. ASSUME NEW t \in Task, SaveInsight(t) PROVE NeverStuck'
  BY <1>18 DEF SaveInsight, May, Transitions, Call, Go, At
<1>19. ASSUME NEW t \in Task, ReadForGeneration(t) PROVE NeverStuck'
  BY <1>19 DEF ReadForGeneration, Go, At
<1>20. ASSUME NEW t \in Task, NEW p \in DOMAIN work[t].mark, CorrectPortfolio(t, p)
       PROVE  NeverStuck'
  BY <1>20 DEF CorrectPortfolio, Open, Mark, Go, At
<1>21. ASSUME NEW t \in Task, NEW p \in DOMAIN work[t].mark, AnswerIsInvalid(t, p)
       PROVE  NeverStuck'
  BY <1>21 DEF AnswerIsInvalid, Open, Mark, Go, At
<1>22. ASSUME NEW t \in Task, NEW p \in DOMAIN work[t].mark, PortfolioFails(t, p)
       PROVE  NeverStuck'
  BY <1>22 DEF PortfolioFails, Open, Mark, Go, At
<1>23. ASSUME NEW t \in Task, Gather(t) PROVE NeverStuck'
  BY <1>23 DEF Gather, Gathered, Open, Empty, Go, At
<1>24. ASSUME NEW t \in Task, Summary(t) PROVE NeverStuck'
  BY <1>24 DEF Summary, Local, Go, At
<1>25. ASSUME NEW t \in Task, SaveResult(t) PROVE NeverStuck'
  BY <1>25 DEF SaveResult, Empty, May, Transitions, Call, Go, At
<1>26. ASSUME NEW t \in Task, Raises(t) PROVE NeverStuck'
  BY <1>26 DEF Raises, Working, Empty, Go, At
<1>27. ASSUME NEW t \in Task, MarkFailed(t) PROVE NeverStuck'
  BY <1>27 DEF MarkFailed, SetStatus, May, Transitions, Call, Go, At
<1>28. ASSUME NEW t \in Task, Activity(t) PROVE NeverStuck'
  BY <1>28 DEF Activity, Go, At
<1>29. ASSUME NEW t \in Task, ExtractionEnds(t) PROVE NeverStuck'
  BY <1>29 DEF ExtractionEnds, Local, Go, At
<1>30. ASSUME NEW t \in Task, ExtractionRaises(t) PROVE NeverStuck'
  BY <1>30 DEF ExtractionRaises, Local, Go, At
<1>31. ASSUME NEW t \in Task, SaveActivities(t) PROVE NeverStuck'
  BY <1>31 DEF SaveActivities, Empty, Call, Go, At
<1>32. ASSUME NEW t \in Task, ReportFailure(t) PROVE NeverStuck'
  BY <1>32 DEF ReportFailure, Call, Go, At
<1>33. ASSUME NEW t \in Task, StreamEnds(t) PROVE NeverStuck'
  BY <1>33 DEF StreamEnds, Empty, Go, At
<1>34. ASSUME NEW t \in Task, Leaves(t) PROVE NeverStuck'
  BY <1>34 DEF Leaves, Go, At
<1>35. CASE Crash
  BY <1>35 DEF Crash, At
<1>36. CASE UNCHANGED vars
  BY <1>36
<1>37. QED
  BY <1>1, <1>2, <1>3, <1>4, <1>5, <1>6, <1>7, <1>8, <1>9, <1>10, <1>11,
     <1>12, <1>13, <1>14, <1>15, <1>16, <1>17, <1>18, <1>19, <1>20, <1>21,
     <1>22, <1>23, <1>24, <1>25, <1>26, <1>27, <1>28, <1>29, <1>30, <1>31,
     <1>32, <1>33, <1>34, <1>35, <1>36 DEF Next, Request, RetryStep,
     CorrectionStep, ExtractionStep

(* Nothing in hand is as it should be.                                     *)
LEMMA NothingInHand == Distinct(<<>>) /\ Len(<<>>) <= MaxActivities
BY BoundAssumption DEF Distinct

(* A name seen before is dropped.                                          *)
LEMMA AcceptDistinct ==
  ASSUME NEW s \in Names, NEW name \in Name, Distinct(s)
  PROVE  Distinct(Accept(s, name))
<1>1. CASE \E i \in DOMAIN s : s[i] = name
  BY <1>1 DEF Accept
<1>2. CASE ~\E i \in DOMAIN s : s[i] = name
  <2>1. Accept(s, name) = Append(s, name) /\ s \in Seq(Name)
    BY <1>2 DEF Accept, Names
  <2>2. QED
    BY <1>2, <2>1, AppendProperties, LenProperties DEF Distinct
<1>3. QED
  BY <1>1, <1>2

(* What is cut is a beginning of what was shown, and short enough.         *)
LEMMA CutDistinct ==
  ASSUME NEW s \in Names, Distinct(s)
  PROVE  Distinct(Cut(s)) /\ Len(Cut(s)) <= MaxActivities
<1> DEFINE n == IF Len(s) < MaxActivities THEN Len(s) ELSE MaxActivities
<1>1. s \in Seq(Name) /\ Len(s) \in Nat /\ DOMAIN s = 1..Len(s)
  BY LenProperties DEF Names
<1>2. n \in 0..Len(s) /\ n <= MaxActivities /\ Cut(s) = SubSeq(s, 1, n)
  BY <1>1, BoundAssumption DEF Cut
<1>3. Len(Cut(s)) = n /\ DOMAIN Cut(s) = 1..n /\ \A i \in 1..n : Cut(s)[i] = s[i]
  BY <1>1, <1>2, SubSeqProperties
<1>4. QED
  BY <1>1, <1>2, <1>3 DEF Distinct

(* Every step of an extraction keeps what it has in hand as it should be.  *)
LEMMA InHandStep == TypeOK /\ InHand /\ Held /\ [Next]_vars => InHand' /\ Held'
<1> SUFFICES ASSUME TypeOK, InHand, Held, [Next]_vars
             PROVE  InHand' /\ Held'
  OBVIOUS
<1> USE DEF InHand, Held, TypeOK, Records, Works, vars
<1>1. ASSUME NEW t \in Task, StartRag(t) PROVE InHand' /\ Held'
  BY <1>1, NothingInHand DEF StartRag, Starts, Empty, SetStatus, May, Transitions, Call, Go,
     At
<1>2. ASSUME NEW t \in Task, StartGeneration(t) PROVE InHand' /\ Held'
  BY <1>2, NothingInHand DEF StartGeneration, Starts, Empty, SetStatus, May, Transitions,
     Call, Go, At
<1>3. ASSUME NEW t \in Task, EditInsight(t) PROVE InHand' /\ Held'
  BY <1>3, NothingInHand DEF EditInsight, Starts, Empty, May, Transitions, Call, Go, At
<1>4. ASSUME NEW t \in Task, DeleteCorrection(t) PROVE InHand' /\ Held'
  BY <1>4, NothingInHand DEF DeleteCorrection, Starts, Empty, NewRecord, Call, Go, At
<1>5. ASSUME NEW t \in Task, Retry(t) PROVE InHand' /\ Held'
  BY <1>5, NothingInHand DEF Retry, Starts, Empty, Go, At
<1>6. ASSUME NEW t \in Task, NEW stream \in BOOLEAN, NEW valid \in BOOLEAN,
             StartExtraction(t, stream, valid)
      PROVE  InHand' /\ Held'
  BY <1>6, NothingInHand DEF StartExtraction, Starts, Empty, Go, At
<1>7. ASSUME NEW t \in Task, AskRag(t) PROVE InHand' /\ Held'
  BY <1>7 DEF AskRag, Local, Go, At
<1>8. ASSUME NEW t \in Task, AskResults(t) PROVE InHand' /\ Held'
  BY <1>8 DEF AskResults, Local, Go, At
<1>9. ASSUME NEW t \in Task, RetryGeneration(t) PROVE InHand' /\ Held'
  BY <1>9 DEF RetryGeneration, SetStatus, May, Transitions, Call, Go, At
<1>10. ASSUME NEW t \in Task, RetryAnalysis(t) PROVE InHand' /\ Held'
  BY <1>10 DEF RetryAnalysis, SetStatus, May, Transitions, Call, Go, At
<1>11. ASSUME NEW t \in Task, RetrySearch(t) PROVE InHand' /\ Held'
  BY <1>11 DEF RetrySearch, SetStatus, May, Transitions, Call, Go, At
<1>12. ASSUME NEW t \in Task, RetryFails(t) PROVE InHand' /\ Held'
  BY <1>12 DEF RetryFails, Local, Go, At
<1>13. ASSUME NEW t \in Task, ExtractKeywords(t) PROVE InHand' /\ Held'
  BY <1>13 DEF ExtractKeywords, Local, Go, At
<1>14. ASSUME NEW t \in Task, Search(t) PROVE InHand' /\ Held'
  BY <1>14 DEF Search, Go, At
<1>15. ASSUME NEW t \in Task, GenerateInsight(t) PROVE InHand' /\ Held'
  BY <1>15 DEF GenerateInsight, Local, Go, At
<1>16. ASSUME NEW t \in Task, SaveRag(t) PROVE InHand' /\ Held'
  BY <1>16 DEF SaveRag, Call, Go, At
<1>17. ASSUME NEW t \in Task, RunFromSearchResults(t) PROVE InHand' /\ Held'
  BY <1>17 DEF RunFromSearchResults, Local, Go, At
<1>18. ASSUME NEW t \in Task, SaveInsight(t) PROVE InHand' /\ Held'
  BY <1>18 DEF SaveInsight, May, Transitions, Call, Go, At
<1>19. ASSUME NEW t \in Task, ReadForGeneration(t) PROVE InHand' /\ Held'
  BY <1>19 DEF ReadForGeneration, Go, At
<1>20. ASSUME NEW t \in Task, NEW p \in DOMAIN work[t].mark, CorrectPortfolio(t, p)
       PROVE  InHand' /\ Held'
  BY <1>20 DEF CorrectPortfolio, Open, Mark, Go, At
<1>21. ASSUME NEW t \in Task, NEW p \in DOMAIN work[t].mark, AnswerIsInvalid(t, p)
       PROVE  InHand' /\ Held'
  BY <1>21, NothingInHand DEF AnswerIsInvalid, Open, Mark, Go, At
<1>22. ASSUME NEW t \in Task, NEW p \in DOMAIN work[t].mark, PortfolioFails(t, p)
       PROVE  InHand' /\ Held'
  BY <1>22 DEF PortfolioFails, Open, Mark, Go, At
<1>23. ASSUME NEW t \in Task, Gather(t) PROVE InHand' /\ Held'
  BY <1>23, NothingInHand DEF Gather, Gathered, Open, Empty, Go, At
<1>24. ASSUME NEW t \in Task, Summary(t) PROVE InHand' /\ Held'
  BY <1>24 DEF Summary, Local, Go, At
<1>25. ASSUME NEW t \in Task, SaveResult(t) PROVE InHand' /\ Held'
  BY <1>25, NothingInHand DEF SaveResult, Empty, May, Transitions, Call, Go, At
<1>26. ASSUME NEW t \in Task, Raises(t) PROVE InHand' /\ Held'
  BY <1>26, NothingInHand DEF Raises, Working, Empty, Go, At
<1>27. ASSUME NEW t \in Task, MarkFailed(t) PROVE InHand' /\ Held'
  BY <1>27 DEF MarkFailed, SetStatus, May, Transitions, Call, Go, At
<1>28. ASSUME NEW t \in Task, Activity(t) PROVE InHand' /\ Held'
  <2>1. PICK name \in Name : work' = [work EXCEPT ![t].shown = Accept(@, name)]
    BY <1>28 DEF Activity
  <2>2. Distinct(Accept(work[t].shown, name))
    BY AcceptDistinct, InHandTyped
  <2>3. pc[t] = "extract" /\ pc' = pc /\ main' = main
    BY <1>28 DEF Activity, At
  <2>4. QED
    BY <2>1, <2>2, <2>3
<1>29. ASSUME NEW t \in Task, ExtractionEnds(t) PROVE InHand' /\ Held'
  <2>1. CASE work[t].shown = <<>>
    BY <1>29, <2>1 DEF ExtractionEnds, Local, Go
  <2>2. CASE work[t].shown # <<>>
    <3>1. Distinct(Cut(work[t].shown)) /\ Len(Cut(work[t].shown)) <= MaxActivities
      BY CutDistinct, InHandTyped
    <3>2. work' = [work EXCEPT ![t].shown = Cut(work[t].shown), ![t].ended = TRUE]
      BY <1>29, <2>2 DEF ExtractionEnds
    <3>3. QED
      BY <1>29, <2>2, <3>1, <3>2 DEF ExtractionEnds, Go
  <2>3. QED
    BY <2>1, <2>2
<1>30. ASSUME NEW t \in Task, ExtractionRaises(t) PROVE InHand' /\ Held'
  BY <1>30 DEF ExtractionRaises, Local, Go, At
<1>31. ASSUME NEW t \in Task, SaveActivities(t) PROVE InHand' /\ Held'
  BY <1>31, NothingInHand DEF SaveActivities, Empty, Call, Go, At
<1>32. ASSUME NEW t \in Task, ReportFailure(t) PROVE InHand' /\ Held'
  BY <1>32 DEF ReportFailure, Call, Go, At
<1>33. ASSUME NEW t \in Task, StreamEnds(t) PROVE InHand' /\ Held'
  BY <1>33, NothingInHand DEF StreamEnds, Empty, Go, At
<1>34. ASSUME NEW t \in Task, Leaves(t) PROVE InHand' /\ Held'
  BY <1>34 DEF Leaves, Go, At
<1>35. CASE Crash
  BY <1>35 DEF Crash, At
<1>36. CASE UNCHANGED vars
  BY <1>36
<1>37. QED
  BY <1>1, <1>2, <1>3, <1>4, <1>5, <1>6, <1>7, <1>8, <1>9, <1>10, <1>11,
     <1>12, <1>13, <1>14, <1>15, <1>16, <1>17, <1>18, <1>19, <1>20, <1>21,
     <1>22, <1>23, <1>24, <1>25, <1>26, <1>27, <1>28, <1>29, <1>30, <1>31,
     <1>32, <1>33, <1>34, <1>35, <1>36 DEF Next, Request, RetryStep,
     CorrectionStep, ExtractionStep

(* An extraction that has ended is never left unsaved without a fault.      *)
LEMMA EndedStep == TypeOK /\ Ended /\ [Next]_vars => Ended'
<1> SUFFICES ASSUME TypeOK, Ended, [Next]_vars
             PROVE  Ended'
  OBVIOUS
<1> USE DEF Ended, Exists, TypeOK, Records, Works, vars
<1>1. ASSUME NEW t \in Task, StartRag(t) PROVE Ended'
  BY <1>1 DEF StartRag, Starts, Empty, SetStatus, May, Transitions, Call, Go,
     At
<1>2. ASSUME NEW t \in Task, StartGeneration(t) PROVE Ended'
  BY <1>2 DEF StartGeneration, Starts, Empty, SetStatus, May, Transitions,
     Call, Go, At
<1>3. ASSUME NEW t \in Task, EditInsight(t) PROVE Ended'
  BY <1>3 DEF EditInsight, Starts, Empty, May, Transitions, Call, Go, At
<1>4. ASSUME NEW t \in Task, DeleteCorrection(t) PROVE Ended'
  BY <1>4 DEF DeleteCorrection, Starts, Empty, NewRecord, Call, Go, At
<1>5. ASSUME NEW t \in Task, Retry(t) PROVE Ended'
  BY <1>5 DEF Retry, Starts, Empty, Go, At
<1>6. ASSUME NEW t \in Task, NEW stream \in BOOLEAN, NEW valid \in BOOLEAN,
             StartExtraction(t, stream, valid)
      PROVE  Ended'
  BY <1>6 DEF StartExtraction, Starts, Empty, Go, At
<1>7. ASSUME NEW t \in Task, AskRag(t) PROVE Ended'
  BY <1>7 DEF AskRag, Local, Go, At
<1>8. ASSUME NEW t \in Task, AskResults(t) PROVE Ended'
  BY <1>8 DEF AskResults, Local, Go, At
<1>9. ASSUME NEW t \in Task, RetryGeneration(t) PROVE Ended'
  BY <1>9 DEF RetryGeneration, SetStatus, May, Transitions, Call, Go, At
<1>10. ASSUME NEW t \in Task, RetryAnalysis(t) PROVE Ended'
  BY <1>10 DEF RetryAnalysis, SetStatus, May, Transitions, Call, Go, At
<1>11. ASSUME NEW t \in Task, RetrySearch(t) PROVE Ended'
  BY <1>11 DEF RetrySearch, SetStatus, May, Transitions, Call, Go, At
<1>12. ASSUME NEW t \in Task, RetryFails(t) PROVE Ended'
  BY <1>12 DEF RetryFails, Local, Go, At
<1>13. ASSUME NEW t \in Task, ExtractKeywords(t) PROVE Ended'
  BY <1>13 DEF ExtractKeywords, Local, Go, At
<1>14. ASSUME NEW t \in Task, Search(t) PROVE Ended'
  BY <1>14 DEF Search, Go, At
<1>15. ASSUME NEW t \in Task, GenerateInsight(t) PROVE Ended'
  BY <1>15 DEF GenerateInsight, Local, Go, At
<1>16. ASSUME NEW t \in Task, SaveRag(t) PROVE Ended'
  BY <1>16 DEF SaveRag, Call, Go, At
<1>17. ASSUME NEW t \in Task, RunFromSearchResults(t) PROVE Ended'
  BY <1>17 DEF RunFromSearchResults, Local, Go, At
<1>18. ASSUME NEW t \in Task, SaveInsight(t) PROVE Ended'
  BY <1>18 DEF SaveInsight, May, Transitions, Call, Go, At
<1>19. ASSUME NEW t \in Task, ReadForGeneration(t) PROVE Ended'
  BY <1>19 DEF ReadForGeneration, Go, At
<1>20. ASSUME NEW t \in Task, NEW p \in DOMAIN work[t].mark, CorrectPortfolio(t, p)
       PROVE  Ended'
  BY <1>20 DEF CorrectPortfolio, Open, Mark, Go, At
<1>21. ASSUME NEW t \in Task, NEW p \in DOMAIN work[t].mark, AnswerIsInvalid(t, p)
       PROVE  Ended'
  BY <1>21 DEF AnswerIsInvalid, Open, Mark, Go, At
<1>22. ASSUME NEW t \in Task, NEW p \in DOMAIN work[t].mark, PortfolioFails(t, p)
       PROVE  Ended'
  BY <1>22 DEF PortfolioFails, Open, Mark, Go, At
<1>23. ASSUME NEW t \in Task, Gather(t) PROVE Ended'
  BY <1>23 DEF Gather, Gathered, Open, Empty, Go, At
<1>24. ASSUME NEW t \in Task, Summary(t) PROVE Ended'
  BY <1>24 DEF Summary, Local, Go, At
<1>25. ASSUME NEW t \in Task, SaveResult(t) PROVE Ended'
  BY <1>25 DEF SaveResult, Empty, May, Transitions, Call, Go, At
<1>26. ASSUME NEW t \in Task, Raises(t) PROVE Ended'
  BY <1>26 DEF Raises, Working, Empty, Go, At
<1>27. ASSUME NEW t \in Task, MarkFailed(t) PROVE Ended'
  BY <1>27 DEF MarkFailed, SetStatus, May, Transitions, Call, Go, At
<1>28. ASSUME NEW t \in Task, Activity(t) PROVE Ended'
  BY <1>28 DEF Activity, Go, At
<1>29. ASSUME NEW t \in Task, ExtractionEnds(t) PROVE Ended'
  BY <1>29 DEF ExtractionEnds, Local, Go, At
<1>30. ASSUME NEW t \in Task, ExtractionRaises(t) PROVE Ended'
  BY <1>30 DEF ExtractionRaises, Local, Go, At
<1>31. ASSUME NEW t \in Task, SaveActivities(t) PROVE Ended'
  BY <1>31 DEF SaveActivities, Empty, Call, Go, At
<1>32. ASSUME NEW t \in Task, ReportFailure(t) PROVE Ended'
  BY <1>32 DEF ReportFailure, Call, Go, At
<1>33. ASSUME NEW t \in Task, StreamEnds(t) PROVE Ended'
  BY <1>33 DEF StreamEnds, Empty, Go, At
<1>34. ASSUME NEW t \in Task, Leaves(t) PROVE Ended'
  BY <1>34 DEF Leaves, Go, At
<1>35. CASE Crash
  BY <1>35 DEF Crash, At
<1>36. CASE UNCHANGED vars
  BY <1>36
<1>37. QED
  BY <1>1, <1>2, <1>3, <1>4, <1>5, <1>6, <1>7, <1>8, <1>9, <1>10, <1>11,
     <1>12, <1>13, <1>14, <1>15, <1>16, <1>17, <1>18, <1>19, <1>20, <1>21,
     <1>22, <1>23, <1>24, <1>25, <1>26, <1>27, <1>28, <1>29, <1>30, <1>31,
     <1>32, <1>33, <1>34, <1>35, <1>36 DEF Next, Request, RetryStep,
     CorrectionStep, ExtractionStep

-----------------------------------------------------------------------------
(* The theorems *)

(* The record is new and nothing is in hand.                               *)
LEMMA Initially == Init => TypeOK /\ Inv
<1> SUFFICES ASSUME Init PROVE TypeOK /\ Inv
  OBVIOUS
<1>1. NewRecord \in Records /\ Empty \in Works
  <2>1. <<>> \in Results /\ <<>> \in Names /\ <<>> \in Marks
    BY DEF Results, Names, Marks
  <2>2. QED
    BY <2>1 DEF Records, Works, Statuses, NewRecord, Empty
<1>2. TypeOK
  BY <1>1 DEF Init, TypeOK, Places
<1>3. InHand /\ Held
  BY NothingInHand DEF Init, InHand, Held, NewRecord, Empty
<1>4. ResultIsComplete /\ Marked /\ NeverStuck /\ Ended
  BY DEF Init, NewRecord, Empty, ResultIsComplete, Marked, NeverStuck, Ended
<1>5. QED
  BY <1>2, <1>3, <1>4 DEF Inv

(* The record, the tasks and what they have in hand stay as Inv says: the
   inductive invariant of the correction and the extraction.                *)
THEOREM Invariance == Spec => [](TypeOK /\ Inv)
<1>1. Init => TypeOK /\ Inv
  BY Initially
<1>2. TypeOK /\ Inv /\ [Next]_vars => (TypeOK /\ Inv)'
  BY TypeStep, MarkedStep, StuckStep, InHandStep, EndedStep DEF Inv
<1>3. QED
  BY <1>1, <1>2, PTL DEF Spec

(* The record holds what the main server's schema allows, and a task is
   always at one of the steps of its request.                               *)
THEOREM TypeCorrect == Spec => []TypeOK
BY Invariance, PTL

(* A correction that is done has every portfolio corrected, and at least one:
   however many requests overlap and whatever is lost, a part of them is
   never saved as the result.                                               *)
THEOREM ResultIsCompleteHolds == Spec => []ResultIsComplete
<1>1. Inv => ResultIsComplete
  BY DEF Inv
<1>2. QED
  BY <1>1, Invariance, PTL

(* While no call is lost and nothing crashes, a correction said to be under
   way has a task that works on it.                                         *)
THEOREM NeverStuckHolds == Spec => []NeverStuck
<1>1. Inv => NeverStuck
  BY DEF Inv
<1>2. QED
  BY <1>1, Invariance, PTL

(* What an extraction has shown to its end is what the record holds:
   distinct, cut to the bound, and saved although the client may have left. *)
THEOREM ExtractionIsSavedHolds == Spec => []ExtractionIsSaved
<1>1. Inv => ExtractionIsSaved
  BY DEF Inv, Held, Ended, Distinct, ExtractionIsSaved, At
<1>2. QED
  BY <1>1, Invariance, PTL

=============================================================================
