------------------------------ MODULE Correction ------------------------------
(***************************************************************************)
(* The correction of a portfolio: the analysis of the company, the         *)
(* correction itself, their retry (features/correction) and the extraction *)
(* of the portfolio's activities from a PDF, in the background or streamed  *)
(* (features/portfolio/pdf_extraction).                                    *)
(*                                                                         *)
(* The record of a correction is the main server's: it checks every change *)
(* of the status, and every access is a call that may get lost or whose    *)
(* answer may.  A task is a request and the background work it starts.     *)
(*                                                                         *)
(* Texts are left out.  An activity is its name; a portfolio, made by the  *)
(* main server of one activity, is the activity's index.                   *)
(***************************************************************************)
EXTENDS Naturals, Sequences

CONSTANTS
  Task,           \* bound: requests and their background work at a time
  Name,           \* names the model gives activities
  MaxActivities,  \* max_activity_count
  MaxPortfolios,  \* _MAX_PORTFOLIO_COUNT
  MaxTries,       \* max_retries + 1
  MaxFaults       \* bound: lost calls, lost answers and crashes

ASSUME BoundAssumption ==
  /\ MaxPortfolios \in Nat /\ MaxFaults \in Nat
  /\ MaxActivities \in Nat \ {0} /\ MaxTries \in Nat \ {0}

VARIABLES
  main,   \* the correction's record at the main server
  pc,     \* what each task does next
  work,   \* what each task has in hand
  faults

vars == <<main, pc, work, faults>>

(* The main server's table of transitions, with those the service asks for
   when a task fails, when a failed analysis is repeated and when the user
   edits the analysis.                                                      *)
Transitions ==
  {<<"NOT_STARTED", "DOING_RAG">>, <<"DOING_RAG", "COMPANY_INSIGHT">>,
   <<"COMPANY_INSIGHT", "GENERATING">>, <<"GENERATING", "DONE">>,
   <<"DOING_RAG", "FAILED">>, <<"GENERATING", "FAILED">>,
   <<"FAILED", "GENERATING">>, <<"FAILED", "DOING_RAG">>,
   <<"COMPANY_INSIGHT", "COMPANY_INSIGHT">>}

NewRecord ==
  [status |-> "NOT_STARTED", insight |-> FALSE, rag |-> "none", result |-> <<>>,
   items |-> <<>>]

Empty == [stream |-> FALSE, here |-> FALSE, ended |-> FALSE, found |-> FALSE,
          saved |-> FALSE, shown |-> <<>>, mark |-> <<>>]

Init ==
  /\ main = NewRecord
  /\ pc = [t \in Task |-> "over"] /\ work = [t \in Task |-> Empty]
  /\ faults = 0

At(t, where) == pc[t] = where

Go(t, where) == pc' = [pc EXCEPT ![t] = where]

Exists == main.status # "DELETED"

May(s) == <<main.status, s>> \in Transitions

(* A call that changes the record: answered, refused, lost, or applied
   although the answer is lost.                                            *)
Call(t, accepted, new, then, else) ==
  \/ accepted /\ main' = new /\ Go(t, then) /\ UNCHANGED faults
  \/ ~accepted /\ main' = main /\ Go(t, else) /\ UNCHANGED faults
  \/ /\ faults < MaxFaults /\ faults' = faults + 1
     /\ main' = main \/ (accepted /\ main' = new)
     /\ Go(t, else)

SetStatus(t, s, then, else) == Call(t, May(s), [main EXCEPT !.status = s], then, else)

(* A request: a new task in the place of one that is over.                 *)
Starts(t, new) == At(t, "over") /\ work' = [work EXCEPT ![t] = new]

Local(t, where) == Go(t, where) /\ UNCHANGED <<main, work, faults>>

-----------------------------------------------------------------------------
(* Requests *)

StartRag(t) == Starts(t, Empty) /\ SetStatus(t, "DOING_RAG", "rag", "over")

StartGeneration(t) == Starts(t, Empty) /\ SetStatus(t, "GENERATING", "generate", "over")

(* The user's own text of the analysis.                                    *)
EditInsight(t) ==
  /\ Starts(t, Empty) /\ main.insight
  /\ Call(t, May("COMPANY_INSIGHT"), [main EXCEPT !.status = "COMPANY_INSIGHT"], "over", "over")

DeleteCorrection(t) ==
  /\ Starts(t, Empty) /\ Exists
  /\ Call(t, TRUE, [NewRecord EXCEPT !.status = "DELETED"], "over", "over")

(* retry reads the record and, in calls of their own, the saved search.    *)
Retry(t) ==
  /\ Starts(t, Empty)
  /\ Go(t, IF main.status # "FAILED" THEN "over"
           ELSE IF main.insight THEN "ask_rag" ELSE "ask_results")
  /\ UNCHANGED <<main, faults>>

AskRag(t) ==
  At(t, "ask_rag") /\ Local(t, IF main.rag # "none" THEN "regenerate" ELSE "ask_results")

AskResults(t) ==
  At(t, "ask_results") /\ Local(t, IF main.rag = "found" THEN "reanalyse" ELSE "search_again")

RetryGeneration(t) ==
  At(t, "regenerate") /\ SetStatus(t, "GENERATING", "generate", "over") /\ UNCHANGED work

RetryAnalysis(t) ==
  At(t, "reanalyse") /\ SetStatus(t, "DOING_RAG", "analyse", "over") /\ UNCHANGED work

RetrySearch(t) ==
  At(t, "search_again") /\ SetStatus(t, "DOING_RAG", "rag", "over") /\ UNCHANGED work

(* A read that fails ends the request.                                     *)
RetryFails(t) ==
  pc[t] \in {"ask_rag", "ask_results"} /\ Local(t, "over")

-----------------------------------------------------------------------------
(* The analysis of the company *)

(* A model that names no valid keywords has them made from the job.        *)
ExtractKeywords(t) == At(t, "rag") /\ Exists /\ Local(t, "search")

(* One search per keyword, which may find nothing.                         *)
Search(t) ==
  /\ At(t, "search")
  /\ \E found \in BOOLEAN : work' = [work EXCEPT ![t].found = found]
  /\ Go(t, "insight") /\ UNCHANGED <<main, faults>>

(* An analysis that is too long is asked for once more, then cut.          *)
GenerateInsight(t) == At(t, "insight") /\ Local(t, "save_rag")

SaveRag(t) ==
  /\ At(t, "save_rag")
  /\ Call(t, Exists, [main EXCEPT !.rag = IF work[t].found THEN "found" ELSE "empty"],
          "save_insight", "failing")
  /\ work' = [work EXCEPT ![t].found = FALSE]

(* Only the analysis, of the search the retry has read.                    *)
RunFromSearchResults(t) == At(t, "analyse") /\ Exists /\ Local(t, "save_insight")

SaveInsight(t) ==
  /\ At(t, "save_insight")
  /\ Call(t, May("COMPANY_INSIGHT"),
          [main EXCEPT !.status = "COMPANY_INSIGHT", !.insight = TRUE], "over", "failing")
  /\ UNCHANGED work

-----------------------------------------------------------------------------
(* The correction *)

ReadForGeneration(t) ==
  /\ At(t, "generate") /\ Exists
  /\ LET n == Len(main.items) IN
     /\ n \in 1..MaxPortfolios
     /\ work' = [work EXCEPT ![t].mark = [p \in 1..n |-> [is |-> "open", tries |-> 0]]]
     /\ Go(t, "correct") /\ UNCHANGED <<main, faults>>

Open(t, p) == At(t, "correct") /\ work[t].mark[p].is = "open"

Mark(t, p, m, tries) ==
  /\ work' = [work EXCEPT ![t].mark[p] = [is |-> m, tries |-> tries]]
  /\ UNCHANGED <<main, pc, faults>>

(* All portfolios at once.                                                 *)
CorrectPortfolio(t, p) ==
  Open(t, p) /\ Mark(t, p, "corrected", 0)

(* No answer, one that does not parse, or one that leaves out, repeats or
   makes up a line.                                                        *)
AnswerIsInvalid(t, p) ==
  LET tries == work[t].mark[p].tries + 1 IN
  /\ Open(t, p)
  /\ \/ tries < MaxTries /\ Mark(t, p, "open", tries)
     \/ tries = MaxTries /\ Mark(t, p, "failed", 0)

(* The portfolio cannot be read, or has no line to correct.                *)
PortfolioFails(t, p) ==
  Open(t, p) /\ work[t].mark[p].tries = 0 /\ Mark(t, p, "failed", 0)

(* Fault: the portfolios that failed are left out.                         *)
GatheredWithout(mark) ==
  IF \E p \in DOMAIN mark : mark[p].is = "corrected" THEN "summary" ELSE "failing"

(* One failure fails the correction.                                       *)
Gathered(mark) ==
  IF \E p \in DOMAIN mark : mark[p].is = "failed" THEN "failing" ELSE "summary"

Gather(t) ==
  /\ At(t, "correct") /\ \A p \in DOMAIN work[t].mark : ~Open(t, p)
  /\ Go(t, Gathered(work[t].mark))
  /\ work' = IF Gathered(work[t].mark) = "failing" THEN [work EXCEPT ![t] = Empty] ELSE work
  /\ UNCHANGED <<main, faults>>

Summary(t) == At(t, "summary") /\ Local(t, "save_result")

SaveResult(t) ==
  /\ At(t, "save_result")
  /\ Call(t, May("DONE"),
          [main EXCEPT !.status = "DONE",
                       !.result = [p \in DOMAIN work[t].mark |-> work[t].mark[p].is]],
          "over", "failing")
  /\ work' = [work EXCEPT ![t] = Empty]

Working == {"rag", "search", "insight", "analyse", "generate", "correct", "summary"}

(* Fault: the failure is logged only.                                      *)
OnlyLogged(t) ==
  /\ pc[t] \in Working
  /\ work' = [work EXCEPT ![t] = Empty] /\ Go(t, "over") /\ UNCHANGED <<main, faults>>

(* Whatever raises in a task, the correction is to fail.                   *)
Raises(t) ==
  /\ pc[t] \in Working
  /\ work' = [work EXCEPT ![t] = Empty] /\ Go(t, "failing") /\ UNCHANGED <<main, faults>>

(* A lost or refused report is logged only.                                *)
MarkFailed(t) ==
  At(t, "failing") /\ SetStatus(t, "FAILED", "over", "over") /\ UNCHANGED work

-----------------------------------------------------------------------------
(* The PDF *)

(* A file that is no PDF: the background request is answered 400, the
   stream reports the failure.                                             *)
StartExtraction(t, stream, valid) ==
  /\ Starts(t, [Empty EXCEPT !.stream = stream, !.here = stream])
  /\ Go(t, IF valid THEN "extract" ELSE IF stream THEN "report" ELSE "over")
  /\ UNCHANGED <<main, faults>>

(* _normalize_activity drops a name seen before; an activity that does not
   parse is skipped.                                                       *)
Accept(shown, name) ==
  IF \E i \in DOMAIN shown : shown[i] = name THEN shown ELSE Append(shown, name)

Full(t) == work[t].stream /\ Len(work[t].shown) >= MaxActivities

Activity(t) ==
  /\ At(t, "extract") /\ ~Full(t) /\ Len(work[t].shown) <= MaxActivities
  /\ \E name \in Name : work' = [work EXCEPT ![t].shown = Accept(@, name)]
  /\ UNCHANGED <<main, pc, faults>>

(* The background task drops duplicates first and cuts after that; the
   stream ends with the last activity there is room for.                   *)
Cut(shown) ==
  SubSeq(shown, 1, IF Len(shown) < MaxActivities THEN Len(shown) ELSE MaxActivities)

ExtractionEnds(t) ==
  /\ At(t, "extract")
  /\ IF work[t].shown = <<>>
     THEN Local(t, "report")
     ELSE /\ work' = [work EXCEPT ![t].shown = Cut(@), ![t].ended = TRUE]
          /\ Go(t, "save") /\ UNCHANGED <<main, faults>>

ExtractionRaises(t) == At(t, "extract") /\ Local(t, "report")

(* The main server replaces all activities at once.  A stream that is still
   listened to reports a failure; the background task only logs it.        *)
SaveActivities(t) ==
  /\ At(t, "save")
  /\ Call(t, Exists, [main EXCEPT !.items = work[t].shown],
          IF work[t].here THEN "completed" ELSE "over",
          IF work[t].here THEN "report" ELSE "over")
  /\ work' = IF main'.items # work[t].shown THEN work
             ELSE IF work[t].here THEN [work EXCEPT ![t].saved = TRUE]
             ELSE [work EXCEPT ![t] = Empty]

ReportFailure(t) ==
  /\ At(t, "report")
  /\ Call(t, Exists, main, "over", "over")
  /\ UNCHANGED work

(* The event extraction_completed is the last.                             *)
StreamEnds(t) ==
  /\ At(t, "completed")
  /\ work' = [work EXCEPT ![t] = Empty] /\ Go(t, "over") /\ UNCHANGED <<main, faults>>

(* Fault: the client takes the request to save along.                      *)
LeavesWithTheSave(t) ==
  /\ work[t].here /\ pc[t] \in {"extract", "save", "report", "completed"}
  /\ work' = [work EXCEPT ![t].here = FALSE]
  /\ Go(t, "over") /\ UNCHANGED <<main, faults>>

(* The client leaves: the stream stops where it waits, without an error.
   The request to save is a task of its own and goes on (shield).          *)
Leaves(t) ==
  /\ work[t].here /\ pc[t] \in {"extract", "save", "report", "completed"}
  /\ work' = [work EXCEPT ![t].here = FALSE]
  /\ Go(t, IF At(t, "save") THEN "save" ELSE "over") /\ UNCHANGED <<main, faults>>

-----------------------------------------------------------------------------

(* A restart of the process ends its tasks.                                *)
Crash ==
  /\ faults < MaxFaults /\ faults' = faults + 1
  /\ \E t \in Task : ~At(t, "over")
  /\ pc' = [t \in Task |-> "over"]
  /\ UNCHANGED <<main, work>>

Request(t) ==
  \/ StartRag(t)
  \/ StartGeneration(t)
  \/ EditInsight(t)
  \/ DeleteCorrection(t)
  \/ Retry(t)
  \/ \E stream, valid \in BOOLEAN : StartExtraction(t, stream, valid)

RetryStep(t) ==
  \/ AskRag(t)
  \/ AskResults(t)
  \/ RetryGeneration(t)
  \/ RetryAnalysis(t)
  \/ RetrySearch(t)
  \/ RetryFails(t)

CorrectionStep(t) ==
  \/ ExtractKeywords(t)
  \/ Search(t)
  \/ GenerateInsight(t)
  \/ SaveRag(t)
  \/ RunFromSearchResults(t)
  \/ SaveInsight(t)
  \/ ReadForGeneration(t)
  \/ \E p \in DOMAIN work[t].mark : 
       CorrectPortfolio(t, p) \/ AnswerIsInvalid(t, p) \/ PortfolioFails(t, p)
  \/ Gather(t)
  \/ Summary(t)
  \/ SaveResult(t)
  \/ Raises(t)
  \/ MarkFailed(t)

ExtractionStep(t) ==
  \/ Activity(t)
  \/ ExtractionEnds(t)
  \/ ExtractionRaises(t)
  \/ SaveActivities(t)
  \/ ReportFailure(t)
  \/ StreamEnds(t)
  \/ Leaves(t)

Next ==
  \/ \E t \in Task : Request(t) \/ RetryStep(t) \/ CorrectionStep(t) \/ ExtractionStep(t)
  \/ Crash

Spec == Init /\ [][Next]_vars

-----------------------------------------------------------------------------
(* Properties *)

(* A correction that is done has every portfolio corrected that it was asked
   for: a part of them is never a result (service.py _run_generation).     *)
ResultIsComplete ==
  main.status = "DONE" =>
    /\ main.result # <<>>
    /\ \A p \in DOMAIN main.result : main.result[p] = "corrected"

Analysing == {"rag", "search", "insight", "save_rag", "analyse", "save_insight", "failing"}
Correcting == {"generate", "correct", "summary", "save_result", "failing"}

(* While no call is lost and nothing crashes, whatever else fails and
   whichever requests overlap, a correction that is said to be under way has
   a task that works on it: it never gets stuck (service.py _run_rag,
   _run_generation, retry).                                                *)
NeverStuck ==
  faults = 0 =>
    /\ main.status = "DOING_RAG" => \E t \in Task : pc[t] \in Analysing
    /\ main.status = "GENERATING" => \E t \in Task : pc[t] \in Correcting

(* An extraction that has come to its end is saved as it was shown, distinct
   activities and no more than allowed, although the client may have left
   while it was being saved (service.py stream_extraction); and the stream
   says so only when it is.                                                *)
ExtractionIsSaved ==
  /\ \A t \in Task :
       /\ At(t, "completed") => work[t].saved
       /\ work[t].ended /\ At(t, "over") /\ faults = 0 /\ Exists => work[t].saved
  /\ Len(main.items) <= MaxActivities
  /\ \A i, j \in DOMAIN main.items : main.items[i] = main.items[j] => i = j
=============================================================================
