------------------------------ MODULE Portfolio ------------------------------
(***************************************************************************)
(* The portfolio made of an interview (features/portfolio): the request    *)
(* checks the session, ends a running extension, and leaves the generation *)
(* to a background task, which reports the outcome to the main server.     *)
(*                                                                         *)
(* A call to the main server that times out or is answered 5xx is repeated *)
(* (common/http_client); one that breaks otherwise is not.  Either may     *)
(* have been applied all the same, or be applied later.  The interview     *)
(* goes on meanwhile.  Texts are left out.                                 *)
(***************************************************************************)
EXTENDS Interview

CONSTANTS
  MaxRetries,     \* MAX_RETRIES of the client
  MaxCalls,       \* call_max_retries
  MaxAttempts,    \* length_retry_max_retries + 1
  MaxUnanswered,  \* bound: calls that time out or are answered 5xx
  MaxBroken       \* bound: calls that break otherwise

ASSUME RetryAssumption ==
  /\ MaxRetries \in Nat \ {0} /\ MaxCalls \in Nat \ {0} /\ MaxAttempts \in Nat \ {0}
  /\ MaxUnanswered \in Nat /\ MaxBroken \in Nat

VARIABLES
  job,         \* the background task
  portfolio,   \* the portfolio's status at the main server
  late,        \* how many reports of a status may still arrive there
  unanswered,  \* calls that timed out or were answered 5xx so far
  broken       \* calls that broke otherwise so far

pvars == <<job, portfolio, late, unanswered, broken>>

NoJob == [pc |-> "none", asked |-> <<>>, attempt |-> 1, call |-> 1, made |-> FALSE,
          tells |-> "failed"]

PInit ==
  /\ Init
  /\ job = NoJob /\ portfolio = "generating"
  /\ late = [s \in {"completed", "failed"} |-> 0]
  /\ unanswered = 0 /\ broken = 0

Makes(s) == job' = [NoJob EXCEPT !.pc = "generate", !.asked = s.asked]

(* start_generation: of a session that is complete, or is being extended;
   an extension is ended first.                                            *)
StartGeneration ==
  /\ job = NoJob /\ Known
  /\ \E s \in OnDisk :
       /\ Read(s)
       /\ \/ s.complete /\ Makes(s)
          \/ ~s.complete /\ s.extended /\ job' = [NoJob EXCEPT !.pc = "end"]
  /\ UNCHANGED <<work, overlaps, failures, portfolio, late, unanswered, broken>>

(* complete_extended_session, by the portfolio's request: it reads the
   session again, and what was collected is what it has read.              *)
EndsExtension ==
  /\ job.pc = "end"
  /\ \E s \in OnDisk :
       /\ Read(s)
       /\ \/ s.extended /\ job' = [job EXCEPT !.pc = "close", !.asked = s.asked]
          \/ ~s.extended /\ s.complete /\ Makes(s)
          \/ ~s.extended /\ ~s.complete /\ job' = NoJob
  /\ UNCHANGED <<work, overlaps, failures, portfolio, late, unanswered, broken>>

ClosesExtension ==
  /\ job.pc = "close"
  /\ \E s \in OnDisk : Store(Ended(s))
  /\ job' = [job EXCEPT !.pc = "generate"]
  /\ UNCHANGED <<work, overlaps, failures, portfolio, late, unanswered, broken>>

Outcome == IF job.made THEN "completed" ELSE "failed"

Reports(made) ==
  job' = [NoJob EXCEPT !.pc = "report", !.asked = job.asked, !.made = made,
                       !.tells = IF made THEN "completed" ELSE "failed"]

(* The model answers; a section that is left empty is asked for again.     *)
Generate ==
  /\ job.pc = "generate"
  /\ \/ Reports(TRUE)
     \/ IF job.attempt < MaxAttempts
        THEN job' = [job EXCEPT !.attempt = @ + 1, !.call = 1]
        ELSE Reports(FALSE)
  /\ UNCHANGED <<vars, portfolio, late, unanswered, broken>>

(* The call of the model fails.                                            *)
CallFails ==
  /\ job.pc = "generate"
  /\ IF job.call < MaxCalls THEN job' = [job EXCEPT !.call = @ + 1]
                            ELSE Reports(FALSE)
  /\ UNCHANGED <<vars, portfolio, late, unanswered, broken>>

(* What the task does when a report raises: the failure is reported, also
   when what raised is the report of a portfolio that was made.            *)
GivesUp(j) ==
  IF j.tells = "completed" THEN [j EXCEPT !.tells = "failed", !.call = 1]
  ELSE [j EXCEPT !.pc = "over", !.call = 1]

(* Fault: a call that times out raises at once.                            *)
RaisesAtOnce(j) == GivesUp(j)

(* request_with_retry, after a time-out or an answer 5xx.                  *)
Unheard(j) == IF j.call < MaxRetries THEN [j EXCEPT !.call = @ + 1] ELSE GivesUp(j)

UpdateResult ==
  /\ job.pc = "report"
  /\ portfolio' = job.tells /\ job' = [job EXCEPT !.pc = "over", !.call = 1]
  /\ UNCHANGED <<vars, late, unanswered, broken>>

(* Nobody knows whether the report has been applied.                       *)
Sent == late' = [late EXCEPT ![job.tells] = @ + 1]

(* A time-out or an answer 5xx.                                            *)
UpdateUnanswered ==
  /\ job.pc = "report" /\ unanswered < MaxUnanswered /\ unanswered' = unanswered + 1
  /\ Sent /\ job' = Unheard(job)
  /\ UNCHANGED <<vars, portfolio, broken>>

(* A connection that is refused or reset, an answer 4xx, an unreadable one,
   or one that says isSuccess = false.                                     *)
UpdateBroken ==
  /\ job.pc = "report" /\ broken < MaxBroken /\ broken' = broken + 1
  /\ Sent /\ job' = GivesUp(job)
  /\ UNCHANGED <<vars, portfolio, unanswered>>

(* The main server applies a report whose answer did not come.             *)
Applied ==
  /\ \E s \in {"completed", "failed"} :
       late[s] > 0 /\ late' = [late EXCEPT ![s] = @ - 1] /\ portfolio' = s
  /\ UNCHANGED <<vars, job, unanswered, broken>>

PortfolioStep ==
  \/ StartGeneration
  \/ EndsExtension
  \/ ClosesExtension
  \/ Generate
  \/ CallFails
  \/ UpdateResult
  \/ UpdateUnanswered
  \/ UpdateBroken
  \/ Applied

PNext ==
  \/ Next /\ UNCHANGED pvars
  \/ PortfolioStep

PSpec == PInit /\ [][PNext]_<<vars, pvars>>

-----------------------------------------------------------------------------
(* Properties *)

(* A portfolio is made of a whole interview.                               *)
WholePortfolio ==
  job.pc \in {"close", "generate", "report", "over"} => job.asked = Script

(* So it is, although the session goes on changing and may crash, as long as
   no request of the session comes while another is being answered
   (service.py start_generation, complete_extended_session).               *)
MadeOfWhole == overlaps = 0 => WholePortfolio

(* A portfolio is made of the whole interview, and the main server never
   shows one as completed that was not made.  It is told what became of it,
   and one that was made does not fail there, unless a call breaks or stays
   unanswered however often it is repeated (service.py
   _generate_portfolio_background, client.py request_with_retry).          *)
OutcomeIsTold ==
  /\ MadeOfWhole
  /\ portfolio = "completed" => job.made
  /\ broken = 0 /\ unanswered < MaxRetries =>
       /\ job.pc = "over" => portfolio = Outcome
       /\ portfolio = "failed" => ~job.made
=============================================================================
