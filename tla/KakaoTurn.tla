----------------------------- MODULE KakaoTurn -----------------------------
(***************************************************************************)
(* One KakaoTalk turn: the row of ai_kakao_turn (kakao/store.py), the      *)
(* workers that execute, answer and settle it (kakao/service.py), the      *)
(* request it sends through the experience-map service, the one-shot       *)
(* callback, and the refund and completion calls to the main server.       *)
(*                                                                         *)
(* Turns do not share rows; a turn of the same session that is in the way  *)
(* shows here as time that passes while the request is not claimed.        *)
(*                                                                         *)
(* The inner life of the request is the subject of ExperienceRequest; here *)
(* it is claimed, ends with or without a commit, or fails.  A commit that  *)
(* is posted twice after a conflict looks like one POST that takes longer. *)
(***************************************************************************)
EXTENDS Naturals

CONSTANTS
  Worker,       (* runs of KakaoTurnService.run, each with a worker_token   *)
  NoWorker,     (* SQL NULL in the worker_token column; no poster          *)
  LeaseLapsesUnderLiveOwner,
                (* TRUE: a live worker may stall past its lease            *)
  SlowPost      (* TRUE: a POST may be on its way for any time; FALSE: it is
                   settled before anyone but its sender asks about it      *)

ASSUME WorkerAssumption == NoWorker \notin Worker
ASSUME SpeedAssumption == LeaseLapsesUnderLiveOwner \in BOOLEAN /\ SlowPost \in BOOLEAN

VARIABLES
  (* the row of ai_kakao_turn *)
  state,        (* public state; "none" before the INSERT                  *)
  outcome,      (* internal outcome, or "none"                             *)
  payload,      (* reply_payload: the outcome the text was made for        *)
  url,          (* callback_url is not NULL                                *)
  claimed,      (* delivery_claimed_at is not NULL                         *)
  delivery,     (* delivery_status                                         *)
  usageReported,
  completeNotified,
  token,        (* worker_token                                            *)
  leaseLive,    (* worker_lease_expires_at >= now()                        *)
  (* time: before the 45 s budget, before expires_at, after it *)
  clock,
  (* the row of ai_experience_request *)
  request,
  requestOwner,
  (* workers; "off" is not started, ended or dead *)
  pc,
  view,         (* the outcome a worker is about to write, or has read     *)
  note,         (* the delivery status it is about to write, or has read   *)
  done,         (* complete_notified as it has read it                     *)
  (* the main server, the network and the messenger *)
  post,         (* whose POST /commit is in flight                         *)
  committed,
  refunded,     (* POST /usage/failed was applied                          *)
  told,         (* last POST /turn-complete: outcome and delivery          *)
  sends,        (* number of callbacks sent                                *)
  sent,         (* what the last callback said                             *)
  (* history, read by the properties only *)
  excused       (* the outcome was decided without a usable look-up        *)

turn == <<state, outcome, payload, url, claimed, delivery, usageReported, completeNotified>>
lease == <<token, leaseLive>>
work == <<request, requestOwner>>
locals == <<view, note, done>>
main == <<post, committed, refunded, told>>
messenger == <<sends, sent>>
vars == <<turn, lease, clock, work, pc, locals, main, messenger, excused>>

Outcome == {"SUCCEEDED", "FAILED", "EXPIRED", "COMMIT_UNKNOWN"}
Reply == {"SUCCEEDED", "FAILED", "COMMIT_UNKNOWN"}
Status == {"SUCCESS", "FAIL", "UNKNOWN", "NOT_ATTEMPTED"}
Open == {"ACCEPTED", "RUNNING", "COMMIT_UNKNOWN"}
WorkerPc == {"off", "execute", "running", "commit", "gap", "confirm", "record", "resolve",
             "resolved", "read", "deliver", "sending", "finish", "reread", "publish", "settle",
             "refund", "markUsage", "notify", "markNotified", "release"}

MaxSends == 2   (* bound: callbacks are counted up to here *)

(* Every variable has its type; a callback is counted.                     *)
TypeOK ==
  /\ state \in {"none", "ACCEPTED", "RUNNING"} \cup Outcome
  /\ outcome \in Outcome \cup {"none"}
  /\ payload \in Reply \cup {"none"}
  /\ url \in BOOLEAN /\ claimed \in BOOLEAN
  /\ delivery \in Status
  /\ usageReported \in BOOLEAN /\ completeNotified \in BOOLEAN
  /\ token \in Worker \cup {NoWorker} /\ leaseLive \in BOOLEAN
  /\ clock \in {"early", "late", "expired"}
  /\ request \in {"absent", "running", "completed", "failed"}
  /\ requestOwner \in Worker \cup {NoWorker}
  /\ pc \in [Worker -> WorkerPc]
  /\ view \in [Worker -> Outcome \cup {"none"}]
  /\ note \in [Worker -> Status]
  /\ done \in [Worker -> BOOLEAN]
  /\ post \in Worker \cup {NoWorker}
  /\ committed \in BOOLEAN /\ refunded \in BOOLEAN
  /\ told \in [outcome : Reply \cup {"none"}, delivery : Status]
  /\ sends \in 0..MaxSends
  /\ sent \in Reply \cup {"none"}
  /\ excused \in BOOLEAN

Init ==
  /\ state = "none" /\ outcome = "none" /\ payload = "none"
  /\ url = FALSE /\ claimed = FALSE /\ delivery = "NOT_ATTEMPTED"
  /\ usageReported = FALSE /\ completeNotified = FALSE
  /\ token = NoWorker /\ leaseLive = FALSE
  /\ clock = "early"
  /\ request = "absent" /\ requestOwner = NoWorker
  /\ pc = [w \in Worker |-> "off"]
  /\ view = [w \in Worker |-> "none"]
  /\ note = [w \in Worker |-> "NOT_ATTEMPTED"]
  /\ done = [w \in Worker |-> FALSE]
  /\ post = NoWorker /\ committed = FALSE /\ refunded = FALSE
  /\ told = [outcome |-> "none", delivery |-> "NOT_ATTEMPTED"]
  /\ sends = 0 /\ sent = "none"
  /\ excused = FALSE

-----------------------------------------------------------------------------
(* How a worker goes on *)

Go(w, to) == pc' = [pc EXCEPT ![w] = to]

GoWith(w, to, o) == Go(w, to) /\ view' = [view EXCEPT ![w] = o] /\ UNCHANGED <<note, done>>

(* Whatever it knew is forgotten.                                          *)
Leave(w, to) ==
  /\ Go(w, to) /\ view' = [view EXCEPT ![w] = "none"]
  /\ note' = [note EXCEPT ![w] = "NOT_ATTEMPTED"]
  /\ done' = [done EXCEPT ![w] = FALSE]

(* What the user and the main server read: EXPIRED looks like FAILED.       *)
Said(o) == IF o = "EXPIRED" THEN "FAILED" ELSE o

(* The request of this worker is still its own to close.                   *)
OwnsRequest(w) == request = "running" /\ requestOwner = w

(* mark_request_completed or mark_request_failed by this worker.           *)
CloseRequest(w, final) ==
  /\ request' = IF OwnsRequest(w) THEN final ELSE request
  /\ UNCHANGED requestOwner

(* Fault: a callback that was claimed and not finished is not given up.     *)
NeverInterrupted == FALSE

(* An earlier worker claimed the callback and did not finish.              *)
Interrupted == claimed /\ url

(* Fault: compared with the 45 s budget instead of expires_at.             *)
PastBudget == clock # "early"

OutOfTime == clock = "expired"

(* The row as the worker reads it decides about the callback; nothing is
   awaited in between.                                                     *)
GoDeliver(w, o) ==
  /\ \/ claimed /\ ~url /\ Go(w, IF o = "none" THEN "release" ELSE "publish")
     \/ Interrupted /\ Go(w, "finish")
     \/ /\ (claimed => url) /\ ~Interrupted
        /\ Go(w, IF OutOfTime \/ payload = "none" THEN "finish" ELSE "deliver")
  /\ view' = [view EXCEPT ![w] = IF claimed /\ ~url THEN o ELSE "none"]
  /\ note' = [note EXCEPT ![w] = IF Interrupted THEN "UNKNOWN" ELSE "NOT_ATTEMPTED"]
  /\ UNCHANGED done

-----------------------------------------------------------------------------
(* Acceptance and the worker's lease *)

(* The INSERT; a second acceptance of the same request id changes nothing.  *)
Accept ==
  /\ state = "none"
  /\ state' = "ACCEPTED"
  /\ url' = TRUE
  /\ UNCHANGED <<outcome, payload, claimed, delivery, usageReported, completeNotified,
                 lease, clock, work, pc, locals, main, messenger, excused>>

(* A token nobody has seen.                                                *)
Fresh(w) == pc[w] = "off" /\ token # w /\ post # w

Unfinished == state \in Open \/ (state # "none" /\ ~completeNotified)

(* Fault: failed turns whose usage was not reported are not looked for.    *)
ClaimableButRefunds == Unfinished /\ ~leaseLive

(* WHERE clause of claim_worker and of list_recoverable.                   *)
Claimable ==
  /\ Unfinished \/ (outcome \in {"FAILED", "EXPIRED"} /\ ~usageReported)
  /\ ~leaseLive

(* claim_worker, by the task that accept starts or by the recovery loop; the
   row it returns decides where _process goes on.                          *)
ClaimWorker(w) ==
  /\ Fresh(w)
  /\ Claimable
  /\ token' = w
  /\ leaseLive' = TRUE
  /\ state' = IF state = "ACCEPTED" THEN "RUNNING" ELSE state
  /\ IF outcome = "COMMIT_UNKNOWN" /\ completeNotified THEN GoWith(w, "resolve", "none")
     ELSE IF outcome = "none" THEN GoWith(w, "execute", "none")
     ELSE GoDeliver(w, outcome)
  /\ UNCHANGED <<outcome, payload, url, claimed, delivery, usageReported, completeNotified,
                 clock, work, main, messenger, excused>>

(* release_worker, in run's finally.                                       *)
ReleaseWorker(w) ==
  /\ pc[w] = "release"
  /\ Leave(w, "off")
  /\ token' = IF token = w THEN NoWorker ELSE token
  /\ leaseLive' = (leaseLive /\ token # w)
  /\ UNCHANGED <<turn, clock, work, main, messenger, excused>>

(* _keep_lease; losing the lease does not stop the worker.                  *)
RenewWorker(w) ==
  /\ pc[w] # "off"
  /\ token = w
  /\ leaseLive' = TRUE
  /\ UNCHANGED <<turn, token, clock, work, pc, locals, main, messenger, excused>>

LeaseExpires ==
  /\ leaseLive
  /\ LeaseLapsesUnderLiveOwner \/ pc[token] = "off"
  /\ leaseLive' = FALSE
  /\ UNCHANGED <<turn, token, clock, work, pc, locals, main, messenger, excused>>

-----------------------------------------------------------------------------
(* _execute_turn *)

(* Past the budget nothing new is started, and waiting for the session ends. *)
BeginsLate(w) ==
  /\ pc[w] = "execute"
  /\ clock # "early"
  /\ GoWith(w, "confirm", "EXPIRED")
  /\ UNCHANGED <<turn, lease, clock, work, main, messenger, excused>>

(* prepare_chat claims the request, once the session is free.              *)
ClaimSession(w) ==
  /\ pc[w] = "execute"
  /\ clock = "early"
  /\ request = "absent"
  /\ request' = "running"
  /\ requestOwner' = w
  /\ GoWith(w, "running", "none")
  /\ UNCHANGED <<turn, lease, clock, main, messenger, excused>>

(* An earlier worker completed the request: its result is replayed.        *)
Replay(w) ==
  /\ pc[w] = "execute"
  /\ request = "completed"
  /\ GoWith(w, "record", "SUCCEEDED")
  /\ UNCHANGED <<turn, lease, clock, work, main, messenger, excused>>

(* An earlier worker's request failed: prepare_chat raises, and the turn
   fails without a look at the commit.                                     *)
RetryRequired(w) ==
  /\ pc[w] = "execute"
  /\ request = "failed"
  /\ GoWith(w, "record", "FAILED")
  /\ excused' = TRUE
  /\ UNCHANGED <<turn, lease, clock, work, main, messenger>>

SendCommit(w) ==
  /\ pc[w] = "running"
  /\ clock = "early"
  /\ post' = w
  /\ GoWith(w, "commit", "none")
  /\ UNCHANGED <<turn, lease, clock, work, committed, refunded, told, messenger, excused>>

(* The answer arrived, or was looked up after it was lost.                 *)
CommitAnswered(w) ==
  /\ pc[w] = "commit"
  /\ committed
  /\ GoWith(w, "gap", "none")
  /\ UNCHANGED <<turn, lease, clock, work, main, messenger, excused>>

(* The events end well: without anything to commit, or after the commit.   *)
TurnEnds(w) ==
  /\ pc[w] \in {"running", "gap"}
  /\ OwnsRequest(w)
  /\ CloseRequest(w, "completed")
  /\ GoWith(w, "record", "SUCCEEDED")
  /\ UNCHANGED <<turn, lease, clock, main, messenger, excused>>

(* An error event: a failure anywhere, a cancellation from the web, or a lost
   lease of the request, which may leave the row as it is.                 *)
TurnFails(w) ==
  /\ pc[w] \in {"running", "commit", "gap"}
  /\ CloseRequest(w, "failed") \/ UNCHANGED work
  /\ GoWith(w, "confirm", "FAILED")
  /\ excused' = (excused \/ post = w)
  /\ UNCHANGED <<turn, lease, clock, main, messenger>>

TimeOutWith(w, to, o) ==
  /\ pc[w] \in {"running", "commit", "gap"}
  /\ clock # "early"
  /\ CloseRequest(w, "failed") \/ UNCHANGED work
  /\ GoWith(w, to, o)
  /\ UNCHANGED <<turn, lease, clock, main, messenger, excused>>

(* Fault: commit_in_flight is not looked at.                               *)
TimesOutAlways(w) == TimeOutWith(w, "confirm", "EXPIRED")

(* asyncio.timeout: the request is released; a commit in flight is not
   asked about.                                                            *)
TimesOut(w) ==
  \/ pc[w] = "commit" /\ TimeOutWith(w, "record", "COMMIT_UNKNOWN")
  \/ pc[w] # "commit" /\ TimeOutWith(w, "confirm", "EXPIRED")

(* GET /commit knows the outcome of every POST but one still in flight.     *)
MayAsk(w) == SlowPost \/ post \in {w, NoWorker}

(* _after_unsuccessful *)
ConfirmCommit(w) ==
  /\ pc[w] = "confirm"
  /\ MayAsk(w)
  /\ \E o \in {IF committed THEN "SUCCEEDED" ELSE view[w], "COMMIT_UNKNOWN"} :
       GoWith(w, "record", o)
  /\ UNCHANGED <<turn, lease, clock, work, main, messenger, excused>>

WriteOutcome(w) ==
  /\ outcome' = view[w]
  /\ payload' = Said(view[w])

(* Fault: WHERE request_id = $1 only.                                      *)
RecordOutcomeUnguarded(w) ==
  /\ pc[w] = "record"
  /\ WriteOutcome(w)
  /\ GoWith(w, "read", "none")
  /\ UNCHANGED <<state, url, claimed, delivery, usageReported, completeNotified,
                 lease, clock, work, main, messenger, excused>>

(* record_outcome: own token, and no outcome yet.                          *)
RecordOutcome(w) ==
  /\ pc[w] = "record"
  /\ IF token = w /\ outcome = "none" THEN WriteOutcome(w) ELSE UNCHANGED <<outcome, payload>>
  /\ GoWith(w, "read", "none")
  /\ UNCHANGED <<state, url, claimed, delivery, usageReported, completeNotified,
                 lease, clock, work, main, messenger, excused>>

-----------------------------------------------------------------------------
(* COMMIT_UNKNOWN is resolved later *)

LookUpAnswered(w) ==
  /\ pc[w] = "resolve"
  /\ MayAsk(w)
  /\ GoWith(w, "resolved", IF committed THEN "SUCCEEDED" ELSE "FAILED")
  /\ UNCHANGED <<turn, lease, clock, work, main, messenger, excused>>

LookUpFails(w) ==
  /\ pc[w] = "resolve"
  /\ Go(w, "read")
  /\ UNCHANGED <<turn, lease, clock, work, locals, main, messenger, excused>>

(* Fault: the completion stays marked as notified.                         *)
KeepSettlement == usageReported' = FALSE /\ UNCHANGED completeNotified

(* Refund and completion are due once more.                                *)
ReopenSettlement == usageReported' = FALSE /\ completeNotified' = FALSE

(* resolve_commit_unknown *)
ResolveCommitUnknown(w) ==
  /\ pc[w] = "resolved"
  /\ IF token = w /\ state = "COMMIT_UNKNOWN"
     THEN outcome' = view[w] /\ state' = view[w] /\ ReopenSettlement
     ELSE UNCHANGED <<outcome, state, usageReported, completeNotified>>
  /\ GoWith(w, "read", "none")
  /\ UNCHANGED <<payload, url, claimed, delivery, lease, clock, work, main,
                 messenger, excused>>

-----------------------------------------------------------------------------
(* _deliver *)

ReadRow(w) ==
  /\ pc[w] = "read"
  /\ GoDeliver(w, outcome)
  /\ UNCHANGED <<turn, lease, clock, work, main, messenger, excused>>

(* Fault: WHERE callback_url IS NOT NULL only.                             *)
Undelivered == url

Unclaimed == url /\ ~claimed

(* claim_delivery: whoever fills delivery_claimed_at first sends.          *)
ClaimDelivery(w) ==
  /\ pc[w] = "deliver"
  /\ IF Unclaimed THEN claimed' = TRUE /\ Go(w, "sending")
                  ELSE UNCHANGED claimed /\ Go(w, "reread")
  /\ UNCHANGED <<state, outcome, payload, url, delivery, usageReported, completeNotified,
                 lease, clock, work, locals, main, messenger, excused>>

(* The callback is sent once; its answer may be anything, or not come.     *)
SendCallback(w) ==
  /\ pc[w] = "sending"
  /\ sends < MaxSends
  /\ sends' = sends + 1
  /\ sent' = payload
  /\ \E s \in {"SUCCESS", "FAIL", "UNKNOWN"} : note' = [note EXCEPT ![w] = s]
  /\ Go(w, "finish")
  /\ UNCHANGED <<turn, lease, clock, work, view, done, main, excused>>

(* finish_delivery has no guard.                                           *)
FinishDelivery(w) ==
  /\ pc[w] = "finish"
  /\ delivery' = note[w]
  /\ url' = FALSE
  /\ claimed' = TRUE
  /\ Leave(w, "reread")
  /\ UNCHANGED <<state, outcome, payload, usageReported, completeNotified,
                 lease, clock, work, main, messenger, excused>>

-----------------------------------------------------------------------------
(* _finalize *)

(* Fault: the state is published with the callback still to be settled.    *)
Decided == TRUE

DeliverySettled == claimed /\ ~url

RereadRow(w) ==
  /\ pc[w] = "reread"
  /\ GoWith(w, IF outcome = "none" THEN "release"
               ELSE IF DeliverySettled THEN "publish" ELSE "settle", outcome)
  /\ UNCHANGED <<turn, lease, clock, work, main, messenger, excused>>

WriteState(w) ==
  /\ pc[w] = "publish"
  /\ state' = view[w]
  /\ Go(w, "settle")
  /\ UNCHANGED <<outcome, payload, url, claimed, delivery, usageReported, completeNotified,
                 lease, clock, work, locals, main, messenger, excused>>

(* publish_state leaves a final state alone.                               *)
PublishState(w) ==
  \/ state \in Open /\ WriteState(w)
  \/ /\ pc[w] = "publish"
     /\ state \notin Open
     /\ Go(w, "settle")
     /\ UNCHANGED <<turn, lease, clock, work, locals, main, messenger, excused>>

(* Fault: whatever is not a success is refunded.                           *)
NotSucceeded(o) == o # "SUCCEEDED"

Refundable(o) == o \in {"FAILED", "EXPIRED"}

(* The refund is behind it; the row as it was read before tells whether the
   main server is still to be told.                                        *)
Proceed(w) ==
  \/ done[w] /\ Leave(w, "release")
  \/ ~done[w] /\ Go(w, "notify") /\ UNCHANGED locals

(* The row is read again: what is left to do?                              *)
ReadDues(w) ==
  LET refund == Refundable(view[w]) /\ ~usageReported IN
  /\ pc[w] = "settle"
  /\ \/ /\ refund \/ ~completeNotified
        /\ Go(w, IF refund THEN "refund" ELSE "notify")
        /\ done' = [done EXCEPT ![w] = completeNotified]
        /\ note' = [note EXCEPT ![w] = delivery]
        /\ UNCHANGED view
     \/ ~refund /\ completeNotified /\ Leave(w, "release")
  /\ UNCHANGED <<turn, lease, clock, work, main, messenger, excused>>

(* POST /usage/failed was applied; the answer came, or was lost.           *)
UsageApplied(w) ==
  /\ pc[w] = "refund"
  /\ refunded' = TRUE
  /\ Proceed(w) \/ (Go(w, "markUsage") /\ UNCHANGED locals)
  /\ UNCHANGED <<turn, lease, clock, work, post, committed, told, messenger, excused>>

UsageCallFails(w) ==
  /\ pc[w] = "refund"
  /\ Proceed(w)
  /\ UNCHANGED <<turn, lease, clock, work, main, messenger, excused>>

MarkUsageReported(w) ==
  /\ pc[w] = "markUsage"
  /\ usageReported' = TRUE
  /\ Proceed(w)
  /\ UNCHANGED <<state, outcome, payload, url, claimed, delivery, completeNotified,
                 lease, clock, work, main, messenger, excused>>

(* POST /turn-complete was applied; the answer came, or was lost.          *)
CompletionApplied(w) ==
  /\ pc[w] = "notify"
  /\ told' = [outcome |-> Said(view[w]), delivery |-> note[w]]
  /\ Leave(w, "markNotified") \/ Leave(w, "release")
  /\ UNCHANGED <<turn, lease, clock, work, post, committed, refunded, messenger, excused>>

CompletionCallFails(w) ==
  /\ pc[w] = "notify"
  /\ Leave(w, "release")
  /\ UNCHANGED <<turn, lease, clock, work, main, messenger, excused>>

MarkCompleteNotified(w) ==
  /\ pc[w] = "markNotified"
  /\ completeNotified' = TRUE
  /\ Leave(w, "release")
  /\ UNCHANGED <<state, outcome, payload, url, claimed, delivery, usageReported,
                 lease, clock, work, main, messenger, excused>>

-----------------------------------------------------------------------------
(* Exceptions, shutdown, crashes, time, the main server *)

(* An exception or a cancelled task: run logs it and releases the worker.  A
   callback being sent is finished first, in _deliver's finally.           *)
Raise(w) ==
  /\ pc[w] \notin {"off", "release", "sending"}
  /\ Leave(w, "release")
  /\ UNCHANGED <<turn, lease, clock, work, main, messenger, excused>>

(* The process dies, or release_worker itself fails.                       *)
Crash(w) ==
  /\ pc[w] # "off"
  /\ Leave(w, "off")
  /\ UNCHANGED <<turn, lease, clock, work, main, messenger, excused>>

Tick ==
  /\ \/ clock = "early" /\ clock' = "late"
     \/ clock = "late" /\ clock' = "expired"
  /\ UNCHANGED <<turn, lease, work, pc, locals, main, messenger, excused>>

(* External: POST /commit is applied or not, whether its sender waits or not. *)
PostSettles ==
  /\ post # NoWorker
  /\ post' = NoWorker
  /\ \E applied \in BOOLEAN : committed' = (committed \/ applied)
  /\ UNCHANGED <<turn, lease, clock, work, pc, locals, refunded, told, messenger, excused>>

-----------------------------------------------------------------------------
Advance(w) ==
  \/ BeginsLate(w)
  \/ ClaimSession(w)
  \/ Replay(w)
  \/ RetryRequired(w)
  \/ SendCommit(w)
  \/ CommitAnswered(w)
  \/ TurnEnds(w)
  \/ TurnFails(w)
  \/ TimesOut(w)
  \/ ConfirmCommit(w)
  \/ RecordOutcome(w)
  \/ LookUpAnswered(w)
  \/ LookUpFails(w)
  \/ ResolveCommitUnknown(w)
  \/ ReadRow(w)
  \/ ClaimDelivery(w)
  \/ SendCallback(w)
  \/ FinishDelivery(w)
  \/ RereadRow(w)
  \/ PublishState(w)
  \/ ReadDues(w)
  \/ UsageApplied(w)
  \/ UsageCallFails(w)
  \/ MarkUsageReported(w)
  \/ CompletionApplied(w)
  \/ CompletionCallFails(w)
  \/ MarkCompleteNotified(w)
  \/ ReleaseWorker(w)

Next ==
  \/ Accept
  \/ \E w \in Worker :
       \/ ClaimWorker(w)
       \/ Advance(w)
       \/ RenewWorker(w)
       \/ Raise(w)
       \/ Crash(w)
  \/ LeaseExpires
  \/ Tick
  \/ PostSettles

Spec == Init /\ [][Next]_vars

(* Liveness needs: tasks go on, the recovery loop scans every 15 s, time
   passes, every POST is settled, a call repeated for ever is answered
   at some time, and exceptions and crashes stop.                          *)
Fairness ==
  /\ \A w \in Worker : WF_vars(Advance(w))
  /\ WF_vars(\E w \in Worker : ClaimWorker(w))
  /\ WF_vars(LeaseExpires)
  /\ WF_vars(Tick)
  /\ WF_vars(PostSettles)
  /\ SF_vars(\E w \in Worker : LookUpAnswered(w))
  /\ SF_vars(\E w \in Worker : UsageApplied(w) /\ pc'[w] = "markUsage")
  /\ SF_vars(\E w \in Worker : CompletionApplied(w) /\ pc'[w] = "markNotified")
  /\ <>[][\A w \in Worker : ~Raise(w) /\ ~Crash(w)]_vars

LiveSpec == Spec /\ Fairness

-----------------------------------------------------------------------------
(* Properties *)

(* The one-shot callback is sent at most once, whoever takes over from whom:
   claim_delivery decides, and finish_delivery leaves nothing to claim.    *)
CallbackOnce == sends <= 1

(* What the user was told and what the turn ended with never contradict each
   other: an answer of success or failure is final, and only an answer that
   left it open may be resolved later.                                     *)
AnswerAgrees ==
  sent # "none" => \/ sent = Said(outcome)
                   \/ sent = "COMMIT_UNKNOWN" /\ outcome \in {"SUCCEEDED", "FAILED"}

(* The charge is returned only for a turn that failed or expired, for good.  *)
RefundedFailed == refunded => outcome \in {"FAILED", "EXPIRED"}

(* GET /kakao/turns shows a result only when nobody will use the callback any
   more (comment on the state column).                                     *)
PublishedAfterDelivery == state \in Outcome => claimed /\ ~url

(* A published result never changes, except that COMMIT_UNKNOWN is resolved,
   even if a worker that was overtaken publishes what it read before.      *)
PublishedIsFinal ==
  [][(state \in Outcome /\ state' # state) =>
       (state = "COMMIT_UNKNOWN" /\ state' \in {"SUCCEEDED", "FAILED"})]_vars

(* As long as leases lapse only after their holder died: when nothing is left
   to do, the main server was told how the turn ended in the end.          *)
ToldIsFinal ==
  completeNotified /\ state \in {"SUCCEEDED", "FAILED", "EXPIRED"}
    => told.outcome = Said(outcome)

(* Same condition: what the main server knows of the delivery is what the row
   says, and it never learns that a callback was not tried when one was sent. *)
ToldTheDelivery ==
  told.outcome # "none" =>
    /\ told.delivery = delivery
    /\ sends > 0 => told.delivery # "NOT_ATTEMPTED"

(* Same condition: the callback is given up untried only after expires_at.  *)
GivenUpOnlyExpired ==
  claimed /\ ~url /\ delivery = "NOT_ATTEMPTED" => clock = "expired"

(* Same condition, and a POST settles before others ask: the charge of a turn
   whose changes are in the map is returned only when prepare_chat refused a failed
   request, or an error interrupted the POST.  In particular the 45 s budget
   never leads to it.                                                      *)
RefundsUncommitted == refunded /\ committed => excused

(* A turn accepted is settled: a final state is published, the callback is
   spent, the main server told, the charge of a failure returned.          *)
Settled ==
  /\ state \in {"SUCCEEDED", "FAILED", "EXPIRED"}
  /\ completeNotified
  /\ outcome \in {"FAILED", "EXPIRED"} => usageReported

TurnSettles == state # "none" ~> Settled

(* _after_unsuccessful: a turn that is committed must not be refunded.  The
   program refunds it on the excused paths: TLC refutes the formula, no run
   checks it (README, section 8).                                          *)
NoRefundOfCommitted == ~(refunded /\ committed)
=============================================================================
