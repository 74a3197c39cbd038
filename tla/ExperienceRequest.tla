------------------------- MODULE ExperienceRequest -------------------------
(***************************************************************************)
(* Life of an experience-map request: the rows of ai_experience_request    *)
(* (features/experience_map/repository.py), the workers that execute them  *)
(* (features/experience_map/service.py, coordinator.py, nodes/commit.py),  *)
(* the lease renewer, the clean-up of expired leases, cancellation, the    *)
(* session's checkpoint thread, and the commit the main server holds.      *)
(*                                                                         *)
(* A `Run' is one execution that holds, or held, an owner_token: a chat    *)
(* request, a retry or one pass of the clean-up loop.  uuid4 tokens are    *)
(* never reused; here a run starts again once nothing mentions it any more *)
(* (Fresh), which no observer can tell from a new token.                   *)
(*                                                                         *)
(* Clocks are abstracted: a lease lapses (LeaseExpires) and a retry window *)
(* closes (RetryWindowCloses) at any moment.                               *)
(***************************************************************************)
EXTENDS Naturals

CONSTANTS
  Request,      (* request ids                                             *)
  Session,      (* session ids                                             *)
  SessionOf,    (* the session a request is sent to                        *)
  Run,          (* executions, each with an owner token                    *)
  NoRun,        (* SQL NULL in the owner_token column                      *)
  NoRequest,    (* no request                                              *)
  LeaseLapsesUnderLiveOwner
                (* TRUE: a live worker may stall past its lease; FALSE: only
                   a dead worker's lease lapses                            *)

ASSUME SessionAssumption == SessionOf \in [Request -> Session]
ASSUME RunAssumption == NoRun \notin Run
ASSUME RequestAssumption == NoRequest \notin Request
ASSUME LapseAssumption == LeaseLapsesUnderLiveOwner \in BOOLEAN

VARIABLES
  (* one row of ai_experience_request per request *)
  status,       (* "absent" before the INSERT                              *)
  owner,        (* owner_token                                             *)
  leaseLive,    (* lease_expires_at >= now()                               *)
  retryable,    (* retryable, and retry_expires_at is in the future        *)
  cancelFlag,   (* cancel_requested                                        *)
  shown,        (* the request whose commit the result column shows        *)
  latest,       (* per session, the row ORDER BY created_at DESC LIMIT 1   *)
  (* LangGraph *)
  thread,       (* per session, the request in the checkpoint thread       *)
  ended,        (* what the graph ended with, when the thread is at its END *)
  (* executions; "off" is a run not started, or ended, or dead *)
  pc,
  req,          (* the request the run was started for                     *)
  subject,      (* the request_id in the graph state it works on           *)
  verdict,      (* of a failing run or of the clean-up: what to write      *)
  conflicts,    (* commit_conflict_count                                   *)
  answer,       (* of the main server, waiting to be read by the run       *)
  (* the network and the main server *)
  posted,       (* the request id of the run's POST /commit in flight      *)
  committed,    (* ai_commit_log has the request                           *)
  refunded,     (* POST /usage/failed was accepted for the request         *)
  (* history, read by the properties only *)
  swept,        (* per session, the latest claim passed
                   _disable_previous_retries                               *)
  retried       (* the request was claimed by a retry                      *)

row == <<status, owner, leaseLive, retryable, cancelFlag, shown, latest>>
runs == <<pc, req, subject, verdict, conflicts, answer>>
main == <<posted, committed, refunded>>
history == <<swept, retried>>
checkpoint == <<thread, ended>>
vars == <<row, checkpoint, runs, main, history>>

RunPc == {"off", "claimed", "checked", "building", "resuming", "graph", "coordinate",
          "commit", "rebuild", "lookup", "gap", "save", "fail", "report", "probe", "settle"}
Verdict == {"none", "committed", "retryable", "final", "cancelled"}

RowsTyped ==
  /\ status \in [Request -> {"absent", "running", "completed", "failed"}]
  /\ owner \in [Request -> Run \cup {NoRun}]
  /\ leaseLive \in [Request -> BOOLEAN]
  /\ retryable \in [Request -> BOOLEAN]
  /\ cancelFlag \in [Request -> BOOLEAN]
  /\ shown \in [Request -> Request \cup {NoRequest}]
  /\ latest \in [Session -> Request \cup {NoRequest}]

CheckpointsTyped ==
  /\ thread \in [Session -> Request \cup {NoRequest}]
  /\ ended \in [Session -> {"no", "fallback", "items"}]

RunsTyped ==
  /\ pc \in [Run -> RunPc]
  /\ req \in [Run -> Request \cup {NoRequest}]
  /\ subject \in [Run -> Request \cup {NoRequest}]
  /\ verdict \in [Run -> Verdict]
  /\ conflicts \in [Run -> 0..1]
  /\ answer \in [Run -> {"none", "applied", "refused"}]

MainTyped ==
  /\ posted \in [Run -> Request \cup {NoRequest}]
  /\ committed \in [Request -> BOOLEAN]
  /\ refunded \in [Request -> BOOLEAN]
  /\ swept \in [Session -> BOOLEAN]
  /\ retried \in [Request -> BOOLEAN]

(* Every variable has its type; at most one conflict is rebuilt by a run.   *)
TypeOK == RowsTyped /\ CheckpointsTyped /\ RunsTyped /\ MainTyped

Init ==
  /\ status = [r \in Request |-> "absent"]
  /\ owner = [r \in Request |-> NoRun]
  /\ leaseLive = [r \in Request |-> FALSE]
  /\ retryable = [r \in Request |-> FALSE]
  /\ cancelFlag = [r \in Request |-> FALSE]
  /\ shown = [r \in Request |-> NoRequest]
  /\ latest = [s \in Session |-> NoRequest]
  /\ thread = [s \in Session |-> NoRequest]
  /\ ended = [s \in Session |-> "no"]
  /\ pc = [x \in Run |-> "off"]
  /\ req = [x \in Run |-> NoRequest]
  /\ subject = [x \in Run |-> NoRequest]
  /\ verdict = [x \in Run |-> "none"]
  /\ conflicts = [x \in Run |-> 0]
  /\ answer = [x \in Run |-> "none"]
  /\ posted = [x \in Run |-> NoRequest]
  /\ committed = [r \in Request |-> FALSE]
  /\ refunded = [r \in Request |-> FALSE]
  /\ swept = [s \in Session |-> FALSE]
  /\ retried = [r \in Request |-> FALSE]

-----------------------------------------------------------------------------
(* What the SQL statements test and write *)

(* uq_ai_experience_request_running: no running row in the session.        *)
NoneRunning(s) == \A r \in Request : SessionOf[r] = s => status[r] # "running"

(* WHERE status = 'running' AND owner_token = $token                       *)
Owns(x) == status[req[x]] = "running" /\ owner[req[x]] = x

(* Token and lease of a row that the run takes.                            *)
TakeRow(x, r) ==
  /\ status' = [status EXCEPT ![r] = "running"]
  /\ owner' = [owner EXCEPT ![r] = x]
  /\ leaseLive' = [leaseLive EXCEPT ![r] = TRUE]

(* SET status = ..., lease_expires_at = NULL                               *)
CloseLease(r, final, again) ==
  /\ status' = [status EXCEPT ![r] = final]
  /\ leaseLive' = [leaseLive EXCEPT ![r] = FALSE]
  /\ retryable' = [retryable EXCEPT ![r] = again]
  /\ UNCHANGED <<cancelFlag, latest>>

(* Fault: owner_token stays.                                               *)
CloseRowKeepingToken(r, final, again) ==
  CloseLease(r, final, again) /\ UNCHANGED owner

(* ... and owner_token = NULL                                              *)
CloseRow(r, final, again) ==
  CloseLease(r, final, again) /\ owner' = [owner EXCEPT ![r] = NoRun]

(* How a run goes on *)

Go(x, to) == pc' = [pc EXCEPT ![x] = to]

Begin(x, r, to) == Go(x, to) /\ req' = [req EXCEPT ![x] = r]

(* The commit is settled: go on with the result of request r, if any.      *)
Settled(x, to, r) ==
  /\ Go(x, to)
  /\ subject' = [subject EXCEPT ![x] = r]
  /\ conflicts' = [conflicts EXCEPT ![x] = 0]
  /\ answer' = [answer EXCEPT ![x] = "none"]
  /\ UNCHANGED <<req, verdict>>

(* The graph and the coordinator are given up.                             *)
Fail(x, v) ==
  /\ Go(x, "fail")
  /\ subject' = [subject EXCEPT ![x] = NoRequest]
  /\ verdict' = [verdict EXCEPT ![x] = v]
  /\ conflicts' = [conflicts EXCEPT ![x] = 0]
  /\ answer' = [answer EXCEPT ![x] = "none"]
  /\ UNCHANGED req

(* The task ends and its locals are gone; a POST in flight is not.         *)
End(x) ==
  /\ pc' = [pc EXCEPT ![x] = "off"]
  /\ req' = [req EXCEPT ![x] = NoRequest]
  /\ subject' = [subject EXCEPT ![x] = NoRequest]
  /\ verdict' = [verdict EXCEPT ![x] = "none"]
  /\ conflicts' = [conflicts EXCEPT ![x] = 0]
  /\ answer' = [answer EXCEPT ![x] = "none"]

(* The graph's state is saved in the session's thread (durability sync).   *)
Save(x, r, end) ==
  /\ thread' = [thread EXCEPT ![SessionOf[req[x]]] = r]
  /\ ended' = [ended EXCEPT ![SessionOf[req[x]]] = end]

(* A token nobody has seen.                                                *)
Fresh(x) ==
  /\ pc[x] = "off"
  /\ posted[x] = NoRequest
  /\ \A r \in Request : owner[r] # x

-----------------------------------------------------------------------------
(* Claiming: prepare_chat and prepare_retry *)

(* claim_request inserts the row; it commits before the sweep below.  Every
   other outcome (REPLAY, SESSION_BUSY, HASH_MISMATCH, RETRY_REQUIRED)
   answers the caller and changes nothing.                                 *)
ClaimRequest(x, r) ==
  /\ Fresh(x)
  /\ status[r] = "absent"
  /\ NoneRunning(SessionOf[r])
  /\ TakeRow(x, r)
  /\ latest' = [latest EXCEPT ![SessionOf[r]] = r]
  /\ swept' = [swept EXCEPT ![SessionOf[r]] = FALSE]
  /\ Begin(x, r, "claimed")
  /\ UNCHANGED <<retryable, cancelFlag, shown, checkpoint, subject, verdict, conflicts, answer,
                 main, retried>>

DisableRetries(x, R) ==
  /\ pc[x] = "claimed"
  /\ retryable' = [r \in Request |->
       IF r \in R /\ SessionOf[r] = SessionOf[req[x]] /\ status[r] = "failed"
       THEN FALSE ELSE retryable[r]]
  /\ swept' = [swept EXCEPT ![SessionOf[req[x]]] = @ \/ latest[SessionOf[req[x]]] = req[x]]
  /\ Go(x, "building")
  /\ UNCHANGED <<status, owner, leaseLive, cancelFlag, shown, latest, checkpoint,
                 req, subject, verdict, conflicts, answer, main, retried>>

(* Fault: request_id = $3 in place of request_id <> $3.                    *)
DisableOwnRetry(x) == DisableRetries(x, {req[x]})

(* _disable_previous_retries: a statement of its own.                      *)
DisablePreviousRetries(x) == DisableRetries(x, Request \ {req[x]})

(* prepare_retry reads the session's last request before it claims.        *)
CheckLatest(x, r) ==
  /\ Fresh(x)
  /\ latest[SessionOf[r]] = r
  /\ Begin(x, r, "checked")
  /\ UNCHANGED <<row, checkpoint, subject, verdict, conflicts, answer, main, history>>

Retryable(r) == status[r] = "failed" /\ retryable[r]

RetryAllowed(r) == Retryable(r) /\ NoneRunning(SessionOf[r])

(* retry_request: FOR UPDATE, test and UPDATE in one transaction.          *)
RetryRequest(x) ==
  /\ pc[x] = "checked"
  /\ RetryAllowed(req[x])
  /\ TakeRow(x, req[x])
  /\ retryable' = [retryable EXCEPT ![req[x]] = FALSE]
  /\ retried' = [retried EXCEPT ![req[x]] = TRUE]
  /\ Go(x, "resuming")
  /\ UNCHANGED <<cancelFlag, shown, latest, checkpoint, req, subject, verdict, conflicts,
                 answer, main, swept>>

RetryRefused(x) ==
  /\ pc[x] = "checked"
  /\ ~RetryAllowed(req[x])
  /\ End(x)
  /\ UNCHANGED <<row, checkpoint, main, history>>

-----------------------------------------------------------------------------
(* Execution: _execute, the graph and the coordinator *)

(* _build_state runs before the lease renewer and outside the try block.  A
   new request hands its state to the graph, which saves it in the session's
   checkpoint thread before the first node.                                *)
BuildState(x) ==
  /\ pc[x] = "building"
  /\ Go(x, "graph")
  /\ subject' = [subject EXCEPT ![x] = req[x]]
  /\ Save(x, req[x], "no")
  /\ UNCHANGED <<row, req, verdict, conflicts, answer, main, history>>

(* A retry builds the state too, but hands None to the graph, which goes on
   from whatever the session's thread holds; at its END it has nothing left
   to do and gives that final state again.                                 *)
ResumeThread(x) ==
  LET s == SessionOf[req[x]] IN
  /\ pc[x] = "resuming"
  /\ thread[s] # NoRequest
  /\ \/ ended[s] = "no" /\ Settled(x, "graph", thread[s])
     \/ ended[s] = "items" /\ Settled(x, "coordinate", thread[s])
     \/ ended[s] = "fallback" /\ Settled(x, "save", NoRequest)
  /\ UNCHANGED <<row, checkpoint, main, history>>

(* Nothing to go on from: the graph raises, like any failing node.         *)
ResumeNothing(x) ==
  /\ pc[x] = "resuming"
  /\ thread[SessionOf[req[x]]] = NoRequest
  /\ Fail(x, "retryable")
  /\ UNCHANGED <<row, checkpoint, main, history>>

(* When _build_state raises, the task ends and nobody marks the row.       *)
BuildStateRaises(x) ==
  /\ pc[x] \in {"building", "resuming"}
  /\ End(x)
  /\ UNCHANGED <<row, checkpoint, main, history>>

(* A node ends, and it is not the last one.                                *)
NodeEnds(x) ==
  /\ pc[x] = "graph"
  /\ Save(x, subject[x], "no")
  /\ UNCHANGED <<row, runs, main, history>>

(* The graph ends in the fallback node: nothing to commit.                 *)
GraphFallsBack(x) ==
  /\ pc[x] = "graph"
  /\ Save(x, subject[x], "fallback")
  /\ Settled(x, "save", NoRequest)
  /\ UNCHANGED <<row, main, history>>

(* The graph ends with items to commit.                                    *)
GraphEnds(x) ==
  /\ pc[x] = "graph"
  /\ Save(x, subject[x], "items")
  /\ Go(x, "coordinate")
  /\ UNCHANGED <<row, req, subject, verdict, conflicts, answer, main, history>>

(* A node, the rebuilding after a conflict or the conversion of the items
   failed for good; the error class says whether a retry may help.         *)
GraphFails(x) ==
  /\ pc[x] \in {"graph", "coordinate", "rebuild"}
  /\ \E v \in {"retryable", "final"} : Fail(x, v)
  /\ UNCHANGED <<row, checkpoint, main, history>>

(* The coordinator posts the commit, in a shielded task of its own.        *)
SendCommit(x) ==
  /\ pc[x] \in {"coordinate", "rebuild"}
  /\ Go(x, "commit")
  /\ posted' = [posted EXCEPT ![x] = subject[x]]
  /\ UNCHANGED <<row, checkpoint, req, subject, verdict, conflicts, answer, committed,
                 refunded, history>>

CommitSucceeds(x) ==
  /\ pc[x] = "commit"
  /\ answer[x] = "applied"
  /\ Settled(x, "gap", subject[x])
  /\ UNCHANGED <<row, checkpoint, main, history>>

Rebuild(x) ==
  /\ pc[x] = "commit"
  /\ answer[x] = "refused"
  /\ conflicts' = [conflicts EXCEPT ![x] = @ + 1]
  /\ answer' = [answer EXCEPT ![x] = "none"]
  /\ Go(x, "rebuild")
  /\ UNCHANGED <<row, checkpoint, req, subject, verdict, main, history>>

(* First map version conflict: rebuild from the new map and post again.    *)
CommitConflict(x) == conflicts[x] = 0 /\ Rebuild(x)

(* Second conflict, or a refusal that is not a conflict.                   *)
CommitRefused(x) ==
  /\ pc[x] = "commit"
  /\ answer[x] = "refused"
  /\ \E v \in {"retryable", "final"} : Fail(x, v)
  /\ UNCHANGED <<row, checkpoint, main, history>>

(* httpx timeout or network error: the POST may still be on its way.       *)
CommitTimesOut(x) ==
  /\ pc[x] = "commit"
  /\ Settled(x, "lookup", subject[x])
  /\ UNCHANGED <<row, checkpoint, main, history>>

AcceptLookUp(x) ==
  /\ pc[x] = "lookup"
  /\ Settled(x, "gap", subject[x])
  /\ UNCHANGED <<row, checkpoint, main, history>>

(* get_commit after a lost answer.                                         *)
LookUpCommit(x) == AcceptLookUp(x) /\ committed[subject[x]]

(* Not committed yet, or the look-up itself failed.                        *)
LookUpFails(x) ==
  /\ pc[x] = "lookup"
  /\ Fail(x, "retryable")
  /\ UNCHANGED <<row, checkpoint, main, history>>

(* The gap analysis ended, with a suggestion or without.                   *)
FinishTurn(x) ==
  /\ pc[x] = "gap"
  /\ Go(x, "save")
  /\ UNCHANGED <<row, checkpoint, req, subject, verdict, conflicts, answer, main, history>>

(* An unusable suggestion raises after the commit: LlmError, retryable.    *)
SuggestionRaises(x) ==
  /\ pc[x] = "gap"
  /\ Fail(x, "retryable")
  /\ UNCHANGED <<row, checkpoint, main, history>>

-----------------------------------------------------------------------------
(* Closing the row: mark_request_completed, _fail, clean-up *)

MarkCompleted(x) ==
  /\ pc[x] = "save"
  /\ Owns(x)
  /\ CloseRow(req[x], "completed", FALSE)
  /\ shown' = [shown EXCEPT ![req[x]] = IF subject[x] = NoRequest THEN @ ELSE subject[x]]
  /\ End(x)
  /\ UNCHANGED <<checkpoint, main, history>>

FailRow(x) ==
  /\ pc[x] = "fail"
  /\ status[req[x]] = "running"
  /\ CloseRow(req[x], "failed", verdict[x] = "retryable")
  /\ Go(x, "report")
  /\ verdict' = [verdict EXCEPT ![x] = "none"]
  /\ UNCHANGED <<shown, checkpoint, req, subject, conflicts, answer, main, history>>

(* _fail: the row first, then the message and the usage report.            *)
MarkFailed(x) == FailRow(x) /\ Owns(x)

(* Fault: the usage is reported whatever the UPDATE matched.               *)
WriteRefusedButReported(x) ==
  /\ pc[x] \in {"save", "fail", "settle"}
  /\ ~Owns(x)
  /\ Go(x, "report")
  /\ UNCHANGED <<row, checkpoint, req, subject, verdict, conflicts, answer, main, history>>

(* The UPDATE matched no row: someone else owns or closed the request.     *)
WriteRefused(x) ==
  /\ pc[x] \in {"save", "fail", "settle"}
  /\ ~Owns(x)
  /\ End(x)
  /\ UNCHANGED <<row, checkpoint, main, history>>

(* report_failed_usage swallows its own failure.                           *)
ReportFailedUsage(x) ==
  /\ pc[x] = "report"
  /\ End(x)
  /\ \E accepted \in BOOLEAN :
       refunded' = [refunded EXCEPT ![req[x]] = @ \/ accepted]
  /\ UNCHANGED <<row, checkpoint, posted, committed, history>>

ClaimForRecovery(x, r) ==
  /\ Fresh(x)
  /\ status[r] = "running"
  /\ TakeRow(x, r)
  /\ Begin(x, r, "probe")
  /\ UNCHANGED <<retryable, cancelFlag, shown, latest, checkpoint, subject, verdict, conflicts,
                 answer, main, history>>

(* Fault: the clean-up leaves cancelled requests to their worker.          *)
ClaimExpiredUncancelled(x, r) ==
  ~leaseLive[r] /\ ~cancelFlag[r] /\ ClaimForRecovery(x, r)

(* claim_expired_request_for_recovery: a new token and a new lease.  The
   previous owner is not told.                                             *)
ClaimExpired(x, r) == ~leaseLive[r] /\ ClaimForRecovery(x, r)

(* _reconcile_stale_requests asks the main server.  A failed look-up counts
   as not committed.                                                       *)
ProbeCommit(x) ==
  /\ pc[x] = "probe"
  /\ Go(x, "settle")
  /\ \E v \in {"committed", "retryable"} :
       /\ v = "committed" => committed[req[x]]
       /\ verdict' = [verdict EXCEPT ![x] = v]
  /\ UNCHANGED <<row, checkpoint, req, subject, conflicts, answer, main, history>>

SettleCompleted(x) ==
  /\ pc[x] = "settle"
  /\ verdict[x] = "committed"
  /\ Owns(x)
  /\ CloseRow(req[x], "completed", FALSE)
  /\ shown' = [shown EXCEPT ![req[x]] = req[x]]
  /\ End(x)
  /\ UNCHANGED <<checkpoint, main, history>>

(* The completion UPDATE is inside the same try: if it raises, the request
   is failed instead.                                                      *)
SettleRaises(x) ==
  /\ pc[x] = "settle"
  /\ verdict[x] = "committed"
  /\ verdict' = [verdict EXCEPT ![x] = "retryable"]
  /\ UNCHANGED <<row, checkpoint, pc, req, subject, conflicts, answer, main, history>>

(* No message and no usage report on this path.                            *)
SettleFailed(x) ==
  /\ pc[x] = "settle"
  /\ verdict[x] = "retryable"
  /\ Owns(x)
  /\ CloseRow(req[x], "failed", TRUE)
  /\ End(x)
  /\ UNCHANGED <<shown, checkpoint, main, history>>

-----------------------------------------------------------------------------
(* The lease renewer, cancellation, time and crashes *)

(* async with LeaseRenewer: from the first node to the last event.         *)
Renewing(x) == pc[x] \in {"graph", "coordinate", "commit", "rebuild", "lookup", "gap"}

RenewLease(x) ==
  /\ Renewing(x)
  /\ Owns(x)
  /\ ~cancelFlag[req[x]]
  /\ leaseLive' = [leaseLive EXCEPT ![req[x]] = TRUE]
  /\ UNCHANGED <<status, owner, retryable, cancelFlag, shown, latest, checkpoint,
                 runs, main, history>>

(* The renewal reads cancel_requested; the run is interrupted at once and
   fails, wherever it is.  A POST already sent goes on.                    *)
RenewSeesCancel(x) ==
  /\ Renewing(x)
  /\ Owns(x)
  /\ cancelFlag[req[x]]
  /\ leaseLive' = [leaseLive EXCEPT ![req[x]] = TRUE]
  /\ Fail(x, "cancelled")
  /\ UNCHANGED <<status, owner, retryable, cancelFlag, shown, latest, checkpoint,
                 main, history>>

(* The UPDATE matched no row, or the database did not answer: LeaseLost, and
   the run leaves the row alone.                                           *)
LoseLease(x) ==
  /\ Renewing(x)
  /\ End(x)
  /\ UNCHANGED <<row, checkpoint, main, history>>

(* POST .../cancel: request_cancellation, by any client of the user.       *)
RequestCancellation(r) ==
  /\ status[r] = "running"
  /\ cancelFlag' = [cancelFlag EXCEPT ![r] = TRUE]
  /\ UNCHANGED <<status, owner, leaseLive, retryable, shown, latest, checkpoint,
                 runs, main, history>>

(* Nobody alive holds the row's token.                                     *)
Orphan(r) == pc[owner[r]] = "off"

LeaseExpires(r) ==
  /\ status[r] = "running"
  /\ leaseLive[r]
  /\ LeaseLapsesUnderLiveOwner \/ Orphan(r)
  /\ leaseLive' = [leaseLive EXCEPT ![r] = FALSE]
  /\ UNCHANGED <<status, owner, retryable, cancelFlag, shown, latest, checkpoint,
                 runs, main, history>>

RetryWindowCloses(r) ==
  /\ status[r] = "failed"
  /\ retryable[r]
  /\ retryable' = [retryable EXCEPT ![r] = FALSE]
  /\ UNCHANGED <<status, owner, leaseLive, cancelFlag, shown, latest, checkpoint,
                 runs, main, history>>

(* The process dies, or a statement outside the try blocks raises, between
   any two steps.                                                          *)
Crash(x) ==
  /\ pc[x] # "off"
  /\ End(x)
  /\ UNCHANGED <<row, checkpoint, main, history>>

-----------------------------------------------------------------------------
(* The main server, external: POST /commit is idempotent per request id *)

(* The answer reaches a coordinator that still waits for it.               *)
Reply(x, what) ==
  /\ posted[x] # NoRequest
  /\ posted' = [posted EXCEPT ![x] = NoRequest]
  /\ answer' = [answer EXCEPT ![x] = IF pc[x] = "commit" THEN what ELSE "none"]
  /\ UNCHANGED <<row, checkpoint, pc, req, subject, verdict, conflicts, refunded, history>>

ServerCommits(x) ==
  /\ Reply(x, "applied")
  /\ committed' = [committed EXCEPT ![posted[x]] = TRUE]

(* map_version_conflict, request_id_reused or an invalid item.             *)
ServerRefuses(x) == Reply(x, "refused") /\ UNCHANGED committed

PostIsLost(x) == Reply(x, "none") /\ UNCHANGED committed

-----------------------------------------------------------------------------
(* What a run does by itself, once started *)
Advance(x) ==
  \/ DisablePreviousRetries(x)
  \/ RetryRequest(x)
  \/ RetryRefused(x)
  \/ BuildState(x)
  \/ ResumeThread(x)
  \/ ResumeNothing(x)
  \/ GraphFallsBack(x)
  \/ GraphEnds(x)
  \/ GraphFails(x)
  \/ SendCommit(x)
  \/ CommitSucceeds(x)
  \/ CommitConflict(x)
  \/ CommitRefused(x)
  \/ CommitTimesOut(x)
  \/ LookUpCommit(x)
  \/ LookUpFails(x)
  \/ FinishTurn(x)
  \/ SuggestionRaises(x)
  \/ MarkCompleted(x)
  \/ MarkFailed(x)
  \/ WriteRefused(x)
  \/ ReportFailedUsage(x)
  \/ ProbeCommit(x)
  \/ SettleCompleted(x)
  \/ SettleRaises(x)
  \/ SettleFailed(x)
  \/ RenewSeesCancel(x)

Client(x, r) == ClaimRequest(x, r) \/ CheckLatest(x, r) \/ ClaimExpired(x, r)

Server(x) == ServerCommits(x) \/ ServerRefuses(x) \/ PostIsLost(x)

Faults(x) == Crash(x) \/ BuildStateRaises(x) \/ LoseLease(x)

Next ==
  \/ \E x \in Run :
       \/ Advance(x)
       \/ NodeEnds(x)
       \/ RenewLease(x)
       \/ Faults(x)
       \/ Server(x)
       \/ \E r \in Request : Client(x, r)
  \/ \E r \in Request :
       \/ RequestCancellation(r)
       \/ LeaseExpires(r)
       \/ RetryWindowCloses(r)

Spec == Init /\ [][Next]_vars

(* Liveness needs: asyncio runs every task that can go on; the main server or
   the network settles each POST; time passes; the page keeps polling GET
   /state, the caller of the clean-up, while the request runs; and processes
   stop crashing at some point.                                             *)
Fairness ==
  /\ \A x \in Run : WF_vars(Advance(x)) /\ WF_vars(Server(x))
  /\ \A r \in Request : /\ WF_vars(LeaseExpires(r))
                        /\ SF_vars(\E x \in Run : ClaimExpired(x, r))
  /\ <>[][\A x \in Run : ~Crash(x)]_vars

LiveSpec == Spec /\ Fairness

-----------------------------------------------------------------------------
(* Properties *)

(* Row and run agree on who executes what: a row is running exactly while it
   carries a token, the token names a run started for that very request, and
   the lease belongs to running rows.  claim_request, retry_request and
   claim_expired_request_for_recovery set the three columns together, every
   closing UPDATE clears them.                                              *)
Ownership ==
  \A r \in Request :
    /\ (status[r] = "running") <=> (owner[r] # NoRun)
    /\ leaseLive[r] => status[r] = "running"
    /\ owner[r] # NoRun => \/ pc[owner[r]] = "off"
                           \/ req[owner[r]] = r /\ pc[owner[r]] \notin {"checked", "report"}

(* A result that shows changes shows changes the main server holds, whether
   the worker read the answer to its POST, asked GET /commit after losing it,
   or the clean-up asked in its place, and they are of the same session.    *)
ShownIsCommitted ==
  \A r \in Request :
    shown[r] # NoRequest => /\ committed[shown[r]]
                            /\ SessionOf[shown[r]] = SessionOf[r]

(* The turn is given back to the user only for a request that failed; it may
   complete later only because the user retried it.  _fail reports the usage
   after an UPDATE that matched the row, never after one that did not.      *)
RefundNeedsFailure ==
  \A r \in Request : refunded[r] => status[r] = "failed" \/ retried[r]

(* Once the latest request has swept the retries before it, no older request of its
   session can be retried again, even by a caller that found the older one to
   be the latest before the newer one arrived (comment of prepare_retry).   *)
NoRetryBehindLatest ==
  \A r \in Request :
    swept[SessionOf[r]] /\ latest[SessionOf[r]] # r
      => ~(status[r] = "failed" /\ retryable[r])

(* As long as leases lapse only after their holder died, two executions never
   drive the same session's graph, commit and checkpoint at a time.         *)
Driving(x) == Renewing(x) \/ pc[x] \in {"building", "resuming"}

OneDriverPerSession ==
  \A x, y \in Run :
    Driving(x) /\ Driving(y) /\ SessionOf[req[x]] = SessionOf[req[y]] => x = y

(* A row leaves `running' only by a step of the run whose token it carries:
   a worker that lost its lease never closes the request of its successor.  *)
FencedWrites ==
  [][\A r \in Request :
       status[r] = "running" /\ status'[r] # "running" => pc'[owner[r]] # pc[owner[r]]]_vars

(* The rows, seen without leases and workers, behave as RequestLedger says.  *)
Ledger == INSTANCE RequestLedger WITH Request <- Request, NoRequest <- NoRequest,
  SessionOf <- SessionOf, status <- status, retryable <- retryable, shown <- shown,
  committed <- committed

KeepsTheLedger == Ledger!Spec

(* No request stays running: whatever its worker's fate, it is completed or
   failed in the end, so the session's unique index lets the next one in.   *)
NoStuckRequest ==
  \A r \in Request : status[r] = "running" ~> status[r] # "running"

-----------------------------------------------------------------------------
(* What the documents say and the program does not do: TLC refutes the three
   formulas, no run checks them (README, section 8).                       *)

(* errors.py, RequestCancelledError: a cancellation is not applied after the
   point from which commit_changes shields the commit.                      *)
CancelStopsAtTheCommit ==
  [][\A x \in Run :
       pc[x] = "gap" => ~(pc'[x] = "fail" /\ verdict'[x] = "cancelled")]_vars

(* request_cancellation asks the request in progress to stop, so an attempt
   that starts afterwards is not asked to stop yet.                         *)
RetryStartsUncancelled ==
  [][\A r \in Request :
       status[r] # "running" /\ status'[r] = "running" => ~cancelFlag'[r]]_vars

(* API spec, retry/stream: the session's last failed request is run again
   from its failed node, so what it completes with is its own commit.       *)
ShowsItsOwnCommit ==
  \A r \in Request : shown[r] \in {NoRequest, r}
=============================================================================
