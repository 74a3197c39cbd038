# Specifications of folioo-ai

TLA+ models of the AI server of Folioo (`src/`, Python, FastAPI and LangGraph):
what its request, lease, retry and callback protocols do when workers stall,
die, race each other or lose an answer, model-checked with TLC on small
instances and, for their safety properties, proved with TLAPS for every instance.

## 1. The system

| Component | Code | State it keeps | Operations | Talks to |
|---|---|---|---|---|
| Experience-map request lifecycle | `features/experience_map/service.py`, `repository.py` | rows `ai_experience_session`, `ai_experience_request`, `ai_experience_message` | `prepare_chat`, `prepare_retry`, `_execute`, `_fail`, `cancel_request`, `_reconcile_stale_requests`, lease renewal | Postgres, graph runner, main server |
| Coordinator and commit node | `coordinator.py`, `nodes/commit.py` | two asyncio tasks, commit and gap; conflict count | commit, look-up after a lost answer, rebuild after a map conflict, suggestion | main server, graph |
| Main-server client | `main_client.py` | none | `POST /commit`, `GET /commit/{id}`, `POST /usage/failed` | main server |
| Graph | `graph.py`, `graph_runner.py`, `state.py` | one LangGraph checkpoint thread per session | `run`, `resume`, one checkpoint per superstep | Postgres |
| Nodes | `nodes/*.py`, `file_pipeline/`, `extractors.py`, `prompts/` | fields of the graph state | router, file processor, clean-up, filter, target activity, structure, refine, validate, fallback, gap | LLMs, GCS |
| Upload store | `upload_store.py` | objects in GCS or on disk | store, read, delete after extraction, sweep | GCS |
| Kakao turn | `kakao/` | row `ai_kakao_turn` | accept, claim a worker, execute, deliver the callback, refund, notify | Kakao callback URL, main server, request lifecycle |
| API, ticket, rate limiter | `app/api/v1/experience_map.py`, `app/middleware/`, `ticket.py`, `rate_limit.py` | sliding window per worker process | endpoints, ticket check | service |
| Map context, template catalog | `map_context.py`, `templates.py` | cached catalog with TTL | snapshot, alias tables | main server, Postgres |
| Interview | `features/interview/` | LangGraph checkpoint per session: status, stage, extension count | start, message stream, extension, completion | LLMs, main server |
| Correction | `features/correction/` | status at the main server; background tasks | start, retry, RAG, generation | main server |
| Portfolio, PDF extraction | `features/portfolio/` | background tasks, stream | generation, extraction, completion callbacks | main server |
| Visualization and pptx-worker | `features/visualization/`, `apps/pptx-worker/` | in-flight registry, GCS objects, render process | task push, generation, regeneration, promotion, recycling | Cloud Tasks, GCS, main server |
| Common libraries | `common/` | HTTP sessions, pools | retrying HTTP client, SSE ping, checkpointer, DB pool | all |

What is hard here, and hard to test:

* **Leases.** A request row is executed by whoever holds its `owner_token`; the
  lease is 300 s and is renewed every 30 s. A worker may die, or stall past its
  lease and wake up later, in every place where the code awaits.
* **Separate statements.** Claiming a request and taking the retry from older
  failed ones are two statements; reading the session's last request and
  retrying it are two transactions.
* **The commit is elsewhere.** The main server applies the changes. Its answer
  may be lost; the POST is shielded from cancellation and survives its sender.
* **One checkpoint thread per session.** Chat requests write it, retries resume
  it, whoever the thread belongs to.
* **Clean-up only on demand.** Expired leases are noticed when a client polls
  `GET /state` or `GET /requests/{id}`, or sends a new request or a retry.

## 2. Plan

Ordered by what users lose when it goes wrong.

1. `RequestLedger`, `ExperienceRequest`: the request lifecycle with leases,
   crashes, lost answers, cancellation and clean-up, its abstract specification
   and the proof that it implements it. **Built.**
2. `KakaoTurn`: one chatbot turn from its acceptance to callback, refund and
   notification, with its own worker lease and `COMMIT_UNKNOWN`, and the proofs
   of its safety properties. **Built.**
3. `SlideRegeneration`: the pptx-worker's task delivery, in-flight registry,
   callbacks and promotion of regenerated files, and the proofs of its safety properties. **Built.**
4. `MapGraph`: the nodes of one turn, their routing, the bounded repair loop, the originals
   of uploads, the recovery of a commit conflict against a map that others edit. **Built.**
5. `Structuring` and `FilePlacing`: the rules that repair what the language model answers
   about the pieces of a message and the lines of a file. **Built.**
6. `SlideGeneration`: the first generation of a deck. **Built.**
7. `Interview` and `Portfolio`, `Correction`: the three other features and their background tasks. **Built.**
8. Proofs of the safety properties of `MapGraph`, `SlideGeneration`, `Correction`, `Interview` and `Portfolio`,
   of `Structuring` for every list of items an answer may make and of `FilePlacing` for every file (section 9). **Built.**
9. Later: the sliding-window limiter, ticket expiry, the sweep of expired uploads, the roll-back of a failed upload,
   two executions of one deck generation at once.

Which module builds on which: `MC<module>` gives an instance of each module for TLC. `ExperienceRequest` instantiates
`RequestLedger` as what it promises. `Portfolio` extends `Interview` (a portfolio is made of a session that goes on
changing); `FilePlacing` extends `Structuring` (both end in the same node and the same items). `MapGraph` treats the
structuring node as a choice among what its checks let through, which `Structuring` opens.

| Run | Module | Distinct question | States |
|---|---|---|---|
| `Safety`, `Timely`, `Live` | `ExperienceRequest` | section 3 | 727 066, 635 893, 22 595 |
| `KakaoSafety`, `KakaoLive` | `KakaoTurn` | section 4 | 1 410 277, 96 462 |
| `SlideSafety`, `EarlyRelease` | `SlideRegeneration` | section 5 | 560 537, violation |
| `deck_generation` | `SlideGeneration` | section 5 | 248 722 |
| `graph_turn` | `MapGraph` | section 6 | 476 136 |
| `structuring_batches` | `Structuring`, `FilePlacing` | section 6 | 32 772 |
| `interview_session` | `Interview`, `Portfolio` | section 7 | 950 523 |
| `correction_tasks` | `Correction` | section 7 | 1 036 332 |

Proofs follow the same order: types, the inductive invariant of each protocol,
its safety properties, the refinement, then lemmas on the pure operators.

## 3. The request lifecycle: `ExperienceRequest`

### State

| Variable | Code |
|---|---|
| `status`, `owner`, `leaseLive`, `retryable`, `cancelFlag`, `shown` | the columns of `ai_experience_request`. `leaseLive` is `lease_expires_at >= now()`; `retryable` is the column and `retry_expires_at` not reached; `shown` is whose commit the `result` column holds |
| `latest` | what `get_latest_request` returns for a session |
| `thread`, `ended` | the session's LangGraph thread: whose state it holds; whether it is at the END and with what |
| `pc`, `req`, `subject`, `verdict`, `conflicts`, `answer` | the locals of one execution: where it is, the request it was started for, the `request_id` in the graph state it works on, what it is about to write, the number of rebuilt conflicts, the HTTP answer waiting for it |
| `posted`, `committed`, `refunded` | the network and the main server |
| `swept`, `retried` | history variables, read by properties only |

A `Run` is an execution with an owner token: a chat request, a retry, or one
pass of the clean-up loop.

### Actions and code

`ClaimRequest`, `DisablePreviousRetries` are the two statements of
`claim_request`. `CheckLatest` is the read in `prepare_retry`, `RetryRequest` and
`RetryRefused` the transaction of `retry_request`. `BuildState` is `_build_state`
and the first checkpoint of `CheckpointGraphRunner.run`; `ResumeThread` and
`ResumeNothing` are `resume`, which passes `None` and takes what the session's
thread holds. `NodeEnds`, `GraphFallsBack`, `GraphEnds`, `GraphFails` are the
graph's supersteps and the two ways out of `_state_events`. `SendCommit` to
`LookUpFails` are `coordinate` and `commit_changes`: the shielded POST, one
rebuild after a version conflict, the look-up after a lost answer. `FinishTurn`
and `SuggestionRaises` end the gap analysis. `MarkCompleted`, `MarkFailed`,
`WriteRefused`, `ReportFailedUsage` are the guarded UPDATEs and what follows
them. `ClaimExpired`, `ProbeCommit`, `SettleCompleted`, `SettleRaises` and
`SettleFailed` are `_reconcile_stale_requests`. `RenewLease`, `RenewSeesCancel` and `LoseLease` are
`LeaseRenewer` with `_interrupt_when_lease_lost`. `RequestCancellation`,
`LeaseExpires`, `RetryWindowCloses` and `Crash` happen at any time. `ServerCommits`,
`ServerRefuses`, `PostIsLost` are the main server and the network, modelled from how the
client uses them: a POST is applied at most once per request id, at any time
after it was sent, also when nobody waits for it any more.

A statement of the database is atomic; everything between two awaits that reach
the database, the main server or the checkpointer is one action. A claim answered with
`REPLAY`, `SESSION_BUSY`, `HASH_MISMATCH` or `RETRY_REQUIRED` changes nothing and
is the absence of `ClaimRequest`.

Abstracted: request texts, hashes, the contents of items and results, error
messages, SSE events, chat history, `active_gap`. Clocks are replaced by their
effects: a lease may lapse whenever `LeaseExpires` allows it.

`LeaseLapsesUnderLiveOwner` says when that is. TRUE: at any moment, so that a
stalled worker can find its row taken. FALSE: only when the holder of the token is dead, which is
the situation the 30 s renewal of a 300 s lease is meant to ensure. Safety is
checked under TRUE; the two properties that need timely renewals, and liveness, under FALSE.

### Runs

All runs use `MCExperienceRequest` and one session, the place where requests
compete; that sessions do not disturb each other is covered by the theorems,
which hold for any set of sessions.

| Run | Instance | Shows |
|---|---|---|
| `Safety` | 2 requests, 2 runs, lapses at any time, at most one retry (`OneRetry`), symmetric | types, `Ownership`, `ShownIsCommitted`, `RefundNeedsFailure`, `FencedWrites`, and `KeepsTheLedger`: the rows implement `RequestLedger` |
| `Timely` | 2 requests, 3 runs, lapses of dead owners only, unbounded retries, symmetric | `NoRetryBehindLatest`, `OneDriverPerSession` |
| `Live` | 1 request, 3 runs, no symmetry, fairness | `NoStuckRequest` |

Why the bounds are enough: two requests are needed for "the latest" to differ
from "the retried", and for a thread that belongs to another request; two runs
for an owner and its successor; three for a clean-up that races an owner and a
retry. A second retry of the same request starts from a row that differs from
the first one's only in `retried`, a history variable. The theorems need none of
these bounds.

No run turns off the deadlock check: a request can always be sent, polled or cancelled,
or a lease or retry window lapses, as long as there is a request that is not completed;
TLC reports no deadlock in any of them because a completed session can still be asked to retry (`CheckLatest`).

### Fairness

`Fairness` assumes what asyncio, the network and the browser give: a run that
can go on does (`WF` on `Advance`); each POST in flight is settled or lost
(`WF` on `Server`); time passes (`WF` on `LeaseExpires`); the page polls while a
request runs, and the poll runs the clean-up (`SF` on `ClaimExpired`: strong,
because between two polls the lease can be renewed or claimed by another
poller). Crashes stop at some point, otherwise every clean-up could die.
`NodeEnds` and `RenewLease` get no fairness: the graph's length is bounded
in the code, the model lets it go on at will and asks only that `GraphEnds`,
`GraphFallsBack` or `GraphFails` happens in the end.

## 4. The KakaoTalk turn: `KakaoTurn`

A turn is accepted by the webhook, executed as one experience-map request,
answered through a callback URL that works once, and settled with the main
server: the charge of a failure is returned (`/usage/failed`), the end of the
turn is reported (`/turn-complete`). Workers take a turn over by a lease of
60 s, renewed every 20 s; a recovery loop looks for unfinished turns every 15 s.

### State

| Variable | Code |
|---|---|
| `state`, `outcome`, `payload`, `url`, `claimed`, `delivery`, `usageReported`, `completeNotified`, `token`, `leaseLive` | the columns of `ai_kakao_turn`. `url` and `claimed` say that `callback_url` and `delivery_claimed_at` are not NULL; `payload` is the outcome the reply text was made for |
| `clock` | before the 45 s budget, before `expires_at`, after it |
| `request`, `requestOwner` | the turn's row of `ai_experience_request`, as far as the turn sees it |
| `pc`, `view`, `note`, `done` | a run of `KakaoTurnService.run`: where it is, the outcome it is about to write or has read, likewise the delivery status, and `complete_notified` |
| `post`, `committed`, `refunded`, `told` | the POST in flight and what the main server holds |
| `sends`, `sent` | the messenger |
| `excused` | history: the outcome was decided without a usable look-up |

### Actions and code

`Accept`, `ClaimWorker`, `RenewWorker`, `ReleaseWorker`, `RecordOutcome`,
`ResolveCommitUnknown`, `ClaimDelivery`, `FinishDelivery`, `PublishState`,
`MarkUsageReported` and `MarkCompleteNotified` are the statements of `store.py`,
with their WHERE clauses. `ClaimSession` to `ConfirmCommit` are `_execute_turn`:
the request is claimed, or replayed, or found failed; it commits, ends, fails or
runs out of its 45 s (`TimesOut`, which does not ask about a commit in flight);
`ConfirmCommit` is `_after_unsuccessful`. `LookUpAnswered` and
`LookUpFails` are `_resolve_commit_unknown`. `ReadRow`, `SendCallback` and
`GoDeliver` are `_deliver`; `RereadRow` to `CompletionCallFails` are `_finalize`:
each call may be applied and its answer lost. `Raise` is an exception or a cancelled task
anywhere: `run` logs it and releases the worker, but a callback that is being
sent is finished first. `Crash` is the death of the process. `PostSettles` is the main server:
a POST in flight is applied or not, whether its sender waits for it or not.

What `_process` does between two awaits is one action: the row a claim or a read
returns decides at once where the worker goes on (`GoDeliver`).

Decisions that are not visible in the code:

* One turn per instance. Turns share no row; another turn of the same session
  shows as time that passes before `ClaimSession`.
* The request is modelled from outside: claimed, posting, ended with or without a
  commit, failed. Its inner life is `ExperienceRequest`. A request whose worker
  died stays running for up to 300 s, longer than the 45 s budget, so a successor
  waits for it in vain and the turn expires (`BeginsLate`). A clean-up or a retry
  of the request row by a web client is outside this module.
* `LeaseLapsesUnderLiveOwner` is the same switch as in section 3. `expires_at` is
  what the main server sends and nothing ties it to the lease.
* `SlowPost`: TRUE lets a POST travel for any time; FALSE settles it before anyone
  but its sender looks it up.
* A callback cancelled while it is sent counts as sent; its status is then `UNKNOWN`.
* `purge_old` deletes settled turns after 48 h and is left out, as are missing configuration values.

### Runs

| Run | Instance | Shows |
|---|---|---|
| `KakaoSafety` | 2 workers, leases lapse at any time, slow POSTs, symmetric | `CallbackOnce`, `AnswerAgrees`, `RefundedFailed`, `PublishedAfterDelivery`, `PublishedIsFinal` |
| `KakaoLive` | 2 workers, lapses of dead owners only, POSTs settle first, fairness | `ToldIsFinal`, `ToldTheDelivery`, `GivenUpOnlyExpired`, `RefundsUncommitted`, `TurnSettles` |

Two workers are a holder and its successor; a worker that ended can be started
again, so takeovers repeat without a bound. A third would matter only if
two overtaken workers could disturb a third one differently from one; the theorems
hold for any number. `KakaoSafety` identifies states that differ only in `told`,
`excused` and a status no property of that run reads (`StatusView`): these
variables are written and never read by the actions.

The runs turn the deadlock check off: a settled turn whose workers ended is
where the system stops.

### Fairness

Tasks go on (`WF` on `Advance`), the recovery loop scans (`WF` on `ClaimWorker`),
time passes (`WF` on `LeaseExpires`, `Tick`), every POST is settled. The look-up, the refund and the completion are
repeated every 15 s and each is assumed to be answered, and its answer marked, at
some time (`SF`, because the worker that tries goes away between two attempts).
Exceptions and crashes stop at some point.

## 5. Slides

### The regeneration of a slide: `SlideRegeneration`

When the deck of a job exists (phase 1), the user may ask for a change of one
slide, or for a retry of a slide that failed. The main server allows one slide of
a job at a time, by the status of the rows; Cloud Tasks pushes the task to a
worker at least once; the worker downloads `current.pptx`, edits the slide,
renders and checks it, uploads PPTX, PDF and preview under the key of the
attempt, sends `slide_regenerated` and only then copies the three files over the
canonical ones.

#### State

| Variable | Code |
|---|---|
| `status`, `fills` | the slide rows of the main server: status and `current_fills`, what the user is shown |
| `queue`, `slideOf`, `retries` | Cloud Tasks: unacknowledged tasks, the payload's slide and `isRetry` |
| `claims` | `InFlightTaskRegistry` of each worker process: the target keys. The execution key of a task implies its target key and is left out |
| `pc`, `taskOf`, `host` | an execution of `handle_regenerate_task`: where it is, what it was pushed, in which process |
| `base`, `deck`, `at` | its locals: `current_fills` of the context it read, the deck it made, how many of three files the present loop has done |
| `attempt`, `backup`, `stored` | the bucket: `attempts/{attempt}/`, its `rollback/`, the canonical PPTX, PDF and previews |
| `pictured` | slides with a canonical preview |
| `latest`, `accepted`, `promoted`, `overlap`, `lost` | history variables, read by properties only |

The contents of a slide are abstracted to its *version*, the set of executions
whose edits it holds. An execution adds itself to what it started from; a retry
fills all slots anew and keeps nothing. A deck has a version of every slide, so that
an overwritten or restored deck takes the other slides with it.

#### Actions and code

`Deliver`, `SkipInFlight`, `ReadStatus`, `SkipSettled`, `StatusReadFails`,
`Acquire`, `AcquireRefused` are `handle_regenerate_task` up to the claim, an
action for each await. `ReadContext` to `Upload` are `_regenerate_with_client`:
`ReadContext` reads the row again without looking at its status, `MakeDeck`
downloads and edits, `WorkFails` is every failure of model, tools, renderer or
check. `SendRegenerated`, `RegeneratedUnanswered`, `RegeneratedRefused` and the
three actions of the preview error are the callbacks with their outcomes: applied,
applied and the answer lost, not applied. `BackUp`, `Copy`, `Promote`,
`PromoteFails`, `Restore`, `PromoteGivenUp` are `promote_regeneration_attempt`
and what the handler answers; a copy that raises may have been made. `Acknowledge`
and `AnswerUnheard` are the 200; every 5xx leaves the task on the queue.
`Ask`, `HealStuck`, `Pushable` and `GiveUp` are the main server and Cloud Tasks, modelled
from `docs/architecture/pptx-gen-plan-v6.md` and from how the worker uses them. `Crash` is the death of a process with
everything in it.

`Faults` is the set of troubles an instance allows; `FaultKind` explains each.

Abstracted: the rounds of the visual check (it ends with a deck or fails; the
deck it repaired is uploaded, rendered and reported together), the texts, the
time limits, the recycling of a process after a number of decks (a process ends only
when nothing is active, so it is a `Crash` with nobody inside), the
`FatalError` branch (`_regenerate_with_client` turns it into a preview error before the handler sees it).

#### Properties

`RegistryExact`: the in-flight registry holds exactly the slides the process works
on, on every way out. `WorkNotDropped`: no answer of a worker takes the last
task of a waiting slide from the queue, except the two acknowledged losses (`lost`: the
in-flight skip, a 4xx of the context read). `AcceptedOnly`, `ShownIsStored` and `OthersUntouched`
say what promotion does to the bucket, whatever fails: only accepted edits,
the same version in deck, PDF, preview and the row the user sees (unless an accepted result was never promoted), and the
other slides of the deck as they were. The last three hold while no two executions of
a job overlap; that they do overlap without any fault is the divergence `EarlyRelease`.

#### Runs

| Run | Instance | Shows |
|---|---|---|
| `SlideSafety` | 2 slides, 2 tasks, 3 executions, 1 process, all faults, at most two pushes at a time and nothing past the download beside the last one (`TwoAtATime`), symmetric, `OneAtATimeView` | the five properties above |
| `EarlyRelease` | 2 slides, 2 tasks, 2 processes, no faults | an edit that is promoted is lost |

Two slides are the one that is edited and the one that must not change; two tasks
an older and a newer request; three executions a first, its redelivery and
the next request's. A second process adds executions that overlap, about which
the version properties say nothing, and all five properties are proved for any
number of processes. `OneAtATimeView` identifies states that differ only in what no
action or property reads again: the files of an attempt before they are copied (they are the deck of
their run), back-ups not in use (and, while files are restored, those of the files that are not restored any more), where an execution was
when it failed, which finished executions were accepted (unless a result was forgone), versions once two executions have
overlapped. No action's guard reads a version. The deadlock check is off: when all tasks and executions are used up
the instance stops.

No fairness: the worker promises nothing about the end of a task, the queue's attempts
and the recovery of stuck slides belong to the main server.

### The first generation of a deck: `SlideGeneration`

One task per job: the worker plans which template slides to use, registers the plan with the main server, fills each
slide with texts of the model that must fit their boxes, renders the deck, has the model look at each page, applies
fixes for up to `max_fix_attempts` rounds, publishes a preview of each slide that passes, stores PPTX and PDF, and reports the
verdict with `all_completed`.

| Variable | Code |
|---|---|
| `main` | the job and its slide rows at the main server: status, file, `current_fills`, key of the deck |
| `bucket` | the stored PPTX and PDF and the previews |
| `x` | the execution under way, the locals of `generation_pipeline.py` and `qa.py`: plan, unpacked deck, per slide its content step, fills, rendered page and outcome, the packed decks, the round |
| `pushes` | attempts Cloud Tasks has left |

A text is who made it, for which slide, and how often it was changed, so that a page, a preview and the fills of a row
can be compared. The unpacked deck is kept apart from the packed ones: a fix changes it at once, and a packing
or rendering that fails afterwards does not take the change back. What a slide's fills say and what its page shows are
two things: the fixer's answer is not checked (`qa.py:961-971`), the editor skips shapes and actions it does not know
(`slide_editor.py:100-122`), and the fills record every entry (`fills.py:26-31`). After a fix the page shows all of the new text or
a part of it (`Applied`, `Partly`); the next fix starts from the fills again.

`CreatePlan`, `SubmitPlan`, `PrepareDeck` are the plan; `CreateFills` to `ClearContent` the content step of a slide
(`Preflight` measures, `ReviseFills` asks the model once for a shorter text, `CutText` cuts), all slides interleaved;
`TellContent`, `SendReady`, `TellError`, `AllCompleted` the callbacks, each heard, applied and unheard, or lost;
`PackDeck` to `RenderFinal` the rendering and the rounds of the check; `Push`, `Skip`, `HealStuck` the queue and the
clean-up of the main server, `Crash` the end of the process anywhere.

Properties. `ReadyIsInDeck`: the page of a slide the user is told is completed is the same in preview, deck and PDF, and the
fills of its row are the ones last applied to that page (of which it may show a part), after rounds that
failed halfway and executions that died halfway, provided every execution planned the registered files (`SameFiles`; section 8 says what
happens otherwise, and that the fills may say more than the page shows, `FillsAreShown`). `VerdictAgrees`: the worker's verdict, counted from what it heard, is the one
the rows give. `NoSampleText`: a slide without content does not show the template's samples.

Bounds (`deck_generation`): three files, plans of one or two slides (the code plans 7 to 12), two rounds as in the code,
two pushes. Slides interact through the shared deck and through who is counted, for which two
suffice. Left out: charts (a chart part is written at once, so a
fix that fails later leaves it changed), the limit of four parallel calls, the time limits. A label row that overflows alone
is not retried, and a cut text keeps its labels, as in the code. `Essential` hides data that
is overwritten before it is read. The deadlock check is off: a job ends.

The rows a job leaves behind under an `error` of upload or rendering stay `completed` or `generating`; `HealStuck` brings the latter to an
end once no execution and no push is left. That it never interferes with an execution is an
assumption: its 8 minutes exceed the longest silent phase, unless many slides are fixed one after the other by a slow model.

## 6. A turn of the experience map

### The graph: `MapGraph`

| Variable | Code |
|---|---|
| `map` | the main server's map: version, blocks of each activity by position, a version of each text |
| `turn` | the request: files, which of them cannot be read, the activity on the screen, the session's open question |
| `mem`, `saved` | the graph state of the execution and the checkpoint (`ExperienceMapState`) |
| `stored`, `got`, `tries` | originals in the upload store; files the running node has dealt with; attempts of the node |
| `status`, `edits`, `retries` | the request; bounds |
| `applied`, `asked` | history: the operations applied, with what they were meant for; the next open question |

A node is one superstep: it reads `mem`, returns a new state and names the next node, and the checkpoint is written
before the next one starts (`durability="sync"`; `Step`, `Save`). Files are read and deleted one by one, with a
crash possible in between. `Router` to `CleanedUp` are the first nodes, `FilterFile`, `FilterChat` the content filter, `SelectTarget` the
choice of the activity, `StructureBlocks` and `StructureNothing` the structuring node seen from outside, `RefineText` the refinement
with its reuse of earlier results, `Passes`, `Repair`, `ValidationFails` the validation with its
bounded repair loop, `Fallback` and `Decline` the answers without a change, `PostCommit` to `SecondConflict` the commit
with the recovery of one conflict (aliases renumbered by block id, or structuring anew on the new map), `SuggestGap`
the question after it. `NodeRaises`, `CommitFails`, `Crash` and `Retry` are the ways to fail and
the retry by the user, which continues the checkpoint.

Aliases are positions in a snapshot of the map, so a block that moves changes its number; an operation
carries the block it was meant for as history. `AppliedAsMeant`: every operation lands on that block, with the text made for it, and no accepted
piece is lost or applied twice, through repairs, retries, edits and the recovery. `OriginalUntilExtracted`: an original is deleted only when
the checkpoint a retry starts from has its extract. `AnswerReachesItsGap`: the answer to an open question reaches
the block the question is about, whatever is on the screen; one that asks for a child may instead fill an empty slot, of an activity
that held that block when the turn began. Which slot, nothing checks: `_redirect_leaf_add_to_existing_empty_slot` (`structure.py:3626-3680`) makes an
update of an add below any block before `_validate_gap_parent` looks at the adds, and `Homes` lets an answer become the update of any empty slot in sight. `TurnEnds`: the turn comes to an end under weak fairness of
the graph's own steps (`Progress`; asyncio goes on), without fairness of retries or edits.

Instance (`graph_turn`): two activities, one with a written block and an empty slot, one empty; one file, one piece besides the answer, two
edits, one user retry, one repair (the code allows two: the second adds a repeat of the first, the counter is the
same code). Reductions: edits happen while a commit is on its way (a turn reads the map
only at its start and after a conflict), blocks lie flat below an activity, at most one text per round is too long, a turn
with a file has no open question, as in the code.

### The structuring node: `Structuring`

`structure.py` asks the model batch by batch which piece belongs where, passes the items of *all* batches through some thirty rules after every answer,
asks once more for the pieces that are missing or placed twice, and checks the whole at the end, if need be after
a second round. The model's answers are enumerated from shapes (an answer uses at most one piece more than asked, and
at most one it was not asked for); every rule is an operator on the list of items, `Fixed` composes them in the code's order.
A list is a function from numbers to items (an item's `item_id` is its number, its position the order of the numbers), so that a
rule that drops items leaves the numbers of the others alone, as the code leaves their ids; after a call they are numbered anew
(`Renamed`, `_namespace_batch_item_ids`). Rules that go through the list and use what they have just changed
(`PlaceDirects`, `PlaceLeaves`, `AdoptOrphans`, `Blocks`) are recursive functions over the numbers; no operator is
`RECURSIVE`.
`Answer`, `Unreadable`, `Inconsistent`, `CheckResult` and `MatchEpisode` are the steps.

`NothingForgotten`: after any rule, repair or merge, each piece of the batches so far is in an item or is being asked for.
`AskedOnce`: what is asked for again is placed nowhere. Both relate the narrow second call to what thirty rules did to
earlier batches.

Inputs (`AllInputs` in `MCStructuring`): pieces under two headings; pieces whose wording fixes the slot; an answer to an open
question; blocks written by hand; a laid out category, empty and with a written anchor; two pieces asked one at a time, or three
asked two at a time. Not modelled: `after_ref` and the order of items, `_fix_batch_local_parent_ref`,
`_repair_unknown_slot_parent_refs`, the order of sources inside an item; the category the answers report is fixed for a round.

### The file pipeline: `FilePlacing`

`file_pipeline` lets the model give every line of a file a slot and an episode, chunk by chunk, checks exclusions a second time
and makes the blocks without another call. `Gate` to `StructureFile` are the calls, `Chunks`, `Stitch`, `Arranged`, `Assigned`,
`Blocks` the rules. A line is what the rules tell apart: of the message or not, heading or not, number of a project, known to
the activity, its identity, and how many characters it has (`size`; none when it is a mere marker). The letters, the splitting into
sentences and the similarity by which a line counts as known are left out.

Lines of one slot are joined into blocks of at most `MaxContent` characters (500 in the code): `JoinedBlocks` is `_join`, a new block begins when the next
text does not fit. The lines of a title are joined without a second block and cut (`TitleCut`, `tree.py:208`). A line belongs to the
block it *begins* in; the end of a text that is too long for its block is cut off, and no property speaks of it.

`NoLineLost`: a line of the file begins in exactly one block, or it is in none and then

* `LeftOut` gives the reason: it was excluded, is a heading, is held by the activity already, is a mere marker, or another line stands for it (`StandsFor`: the same
  text in the same slot of the episode, or another numbered title of the episode) - and two reasons the code does not intend, a line called an instruction and
  leading lines without a slot; or
* it is a title of an episode whose other titles fill the block (`TitleFull`).

The last is against a comment of the code; `NothingDropped` says so without it and fails (section 8).

Inputs: two numbered projects with a subheading; a message with a request; repeated
and known lines; named sections; an episode whose titles are longer than a block, with a marker; a slot with more text than a block, in
two templates. Chunks of two lines, blocks of 11 characters, lines of 0 to 12: one, two or three lines to a block,
and one that is longer than a block. The run turns the deadlock check off: the node ends.

## 7. Interview, portfolio, correction

### `Interview` and `Portfolio`

| Variable | Code |
|---|---|
| `saved`, `prev` | the session's newest checkpoint and, while it may still be on its way to the disk (LangGraph's default durability "async"), the one before it |
| `work` | the requests: where each is and its own copy of the state |
| `overlaps`, `failures` | history and bound: requests that came while another was being answered; failures, lost clients and crashes |
| `job`, `portfolio` | the background task; the portfolio's status at the main server |
| `late`, `unanswered`, `broken` | reports that may still arrive; bounds: calls that timed out or were answered 5xx, calls that broke otherwise |

`CreateSession`, `Chat`, `Extend`, `AskToEnd`, `EndExtension` are the endpoints, plain or streamed; `Begin`, `Node`, `Finish` the
graph (router, retriever, file processor, analyst, question generator) and what the service does after it, `Fails` a node that raises, `Vanishes` a
client that leaves the stream. `StartGeneration` to `Applied` are the portfolio: it ends a running extension,
generates with retries, reports with retries.

Nothing in the code keeps two requests of a session apart. Each loads what it finds on disk (`OnDisk`), works on a copy of its own and
writes all of it back after every node; the end of an extension, by a request or by the portfolio, reads in one step and writes in another.

A report that times out or is answered 5xx is repeated (`UpdateUnanswered`, `Unheard`, 3 tries in `client.py`, 2 here). One that breaks otherwise - a connection
refused or reset, an answer 4xx, one that cannot be read, one that says `isSuccess` is false - raises at the first try (`UpdateBroken`, `GivesUp`), and the task then reports
a failure, also of a portfolio that was made. Either kind may have been applied all the same, or be applied after the next one (`late`, `Applied`).

`QuestionsInOrder`: whatever fails between two nodes, and however many requests are in flight, the fixed questions come in order, none twice, none skipped, and none
for want of a question; as long as no request has come while another was being answered (`overlaps = 0`), no extension or completion comes before the last. `OutcomeIsTold`: a portfolio that was
not made is never shown as completed; as long as no call breaks and fewer stay unanswered than a report may repeat, the main server learns the true outcome,
whatever arrives late; and, as long as `overlaps = 0`, a portfolio is made of the whole interview although the session goes on (`MadeOfWhole`).
`InterviewEnds`: a user whose requests go on
being answered, and who does not go on asking to stop, gets to the end for good. It is stated for answered requests
(infinitely many `Finish`), so no fairness is assumed of the system.

Instance (`interview_session`, `MCPortfolio`): two requests; stages of 2, 1, 1, 1 questions (3, 2, 3, 3 in `stages.yaml`), two targets, two
turns per extension (18), one extension (1), two tries of everything. Three parts are explored apart (`Apart`): one overlap of two requests, without failures and portfolio;
one failed, lost or crashed request; two unanswered calls and a broken one. Reports read nothing of the session, so that failing requests and failing reports do not meet;
overlaps together with failures are left to the proofs, which have none of these bounds. `First` takes the request
when none is under way, since requests are alike (a symmetry set would not be sound for `InterviewEnds`). Of the checkpoints on their way to the disk two are
kept (`saved`, `prev`). What a user says while the session is still being created is at most `MaxSaid` messages. The collected fields, insights and file texts are left out; of the
turn number only what is compared is kept (`counted`, `behind`).

### `Correction`

| Variable | Code |
|---|---|
| `main` | the correction's record at the main server: status, analysis, search, result, extracted activities |
| `pc`, `work` | two tasks: a request and the background work it starts |
| `faults` | bound: lost calls, lost answers, crashes |

The main server refuses status changes that are not in its table (`Transitions`, external, from `docs/architecture/correction-v35-pr-plan.md` and the
changes the service asks for when a task fails). `StartRag`, `StartGeneration`, `Retry`, `EditInsight`, `DeleteCorrection`,
`StartExtraction` are the requests; the steps of `_run_rag`, `_run_rag_from_search_results`, `_run_generation` and of the extraction an action for each call;
`Raises` whatever fails in them, `MarkFailed` the report of it.

`ResultIsComplete`: a correction is done only with every portfolio corrected. `NeverStuck`: while no call is lost, a status "under
way" always has a task at work behind it, in any overlap of two requests. `ExtractionIsSaved`: what was extracted and
shown to its end is saved, distinct and within the limit, although the client may leave or a second extraction replace it.

Instance (`correction_tasks`): two tasks at a time (each may be followed by others without bound), two portfolios, three activity names for two places, two tries per portfolio, one fault.

## 8. Where code and documentation disagree

One divergence is a run that TLC must find violated:

* `EarlyRelease` (`EditsSurvive`): the plan of the pptx worker says that one request of a job at a time keeps
  `current.pptx` from being overwritten by a race (`docs/architecture/pptx-gen-plan-v6.md:1189-1190`). `slide_regenerated`
  (`generation_pipeline.py:514`) ends that exclusion, and is sent before the files are copied (`:533`): the next request may download the old
  deck, and its promotion removes the first edit. Nothing fails in the run that shows it.

The following formulas are in the modules, and TLC refutes each when it is added to the configuration named.

* `CancelStopsAtTheCommit` (`ExperienceRequest`, property, with `Timely.cfg`): `errors.py:320-322` says that a cancellation is not applied once
  `commit_changes` has shielded the commit. The renewer goes on reading `cancel_requested` during
  the gap analysis, and `_interrupt_when_lease_lost` applies it: a request whose changes are in the map ends failed, and its usage is reported.
* `RetryStartsUncancelled` (same): `repository.py:517` speaks of the request in progress, but `retry_request` (`:427-453`) leaves `cancel_requested` set, so the
  retry of a cancelled request is cancelled by its first renewal.
* `ShowsItsOwnCommit` (same, invariant): the API document (`experience-map-api-spec.md:768`) says that a retry resumes the failed
  request from its failed node. `resume` continues the session's thread (`graph_runner.py:98`, `:164-169`); when the failed request
  never wrote a checkpoint, that is another request's thread, whose commit the retry then shows.
* `NoRefundOfCommitted` (`KakaoTurn`, invariant, with `KakaoLive.cfg`): `kakao/service.py:318` says that a committed turn must not be
  refunded, and `:262-263` takes care not to look up a commit that is in flight when the 45 s end.
  An error event that interrupts the POST is followed by a look-up at once (`:273-275`), and a request
  found failed (`RetryNotAllowedError`, `:266-268`) by none; in both cases the turn may be committed
  and its charge returned. `RefundsUncommitted` shows that these two are the only ones.
* `AcceptedIsPromoted` (`SlideRegeneration`, invariant, with `EarlyRelease.cfg`): the hand-off document (`pptx-main-backend-handoff.md:127-128`) counts on a retry of a failed promotion. The task is pushed
  again, but its slide is `completed` by then and the push is skipped (`api/tasks.py:470`). A slide
  that never had a preview fails its promotion always, at the back-up (`gcs_client.py:355`).
* `KeepsConcurrentEdits` (`MapGraph`, invariant, with `GraphTurn.cfg`): the text of a gap answer is combined with the anchor's content of the old snapshot
  (`nodes/refine.py:212-214`) and kept by the recovery of a conflict (`nodes/commit.py:138-147`); committed at the new version it overwrites an edit of the anchor made meanwhile.
* `EachBlockOnce` (`Structuring`, invariant, with `StructuringBatches.cfg`): two batches may fill one empty block; the duplicate check
  (`structure.py:913`) no longer sees the slot, and two texts are handed on for one block, although `:919` says that two items of one slot are merged because either may hold text of its own.
* `AnswerAtItsAnchor` (same, with `Inputs <- ReplyOnly`): `_redirect_leaf_add_to_existing_empty_slot` (`structure.py:3626-3680`) turns an add below any known block into the update of its empty slot, and
  `_validate_gap_parent` (`:3873-3878`) compares only adds with the anchor; the comment there (`:3880-3883`) takes every such update to be below the anchor. The answer to a
  question about one episode fills the empty slot of another.
* `NothingDropped` (`FilePlacing`, invariant, with `StructuringBatches.cfg`): subheadings that no text follows join the title of their episode so that no original line is thrown away (comment at `tree.py:331`), and the joined
  title is cut at 500 characters (`:208`); the lines that begin behind the cut are in no block.
* `FillsAreShown` (`SlideGeneration`, invariant, with `DeckGeneration.cfg`): `current_fills` are "현재 적용된 콘텐츠", the contents now applied (`pptx-gen-plan-v6.md:1743`). A fix that names a shape the page does not have is
  recorded (`qa.py:674`, `fills.py:26-31`) and skipped on the page (`slide_editor.py:100-122`), and the slide is completed with fills it does not show.
* `WholePortfolio` (`Portfolio`, invariant, with `InterviewSession.cfg` under `PSpec`, `MaxOverlaps = 3`, one target and turn, no failures): `start_generation` refuses an interview that is not complete (`portfolio/service.py:103`). A chat that loaded an
  earlier checkpoint and is answered between the two steps of `complete_extended_session` (`interview/service.py:594`, `:613`) puts the interview back before its last stage; the update marks that as complete, and a portfolio is made of it.

Noted while modelling, with what the models do about it:

* A second, different plan of a deck is called harmless (`pptx-gen-plan-v6.md:1379`, the second INSERT is ignored). The code compares only the orders
  (`generation_pipeline.py:759`); the QA then fixes the file of the row (`qa.py:657`), which in the new deck is another slide's or missing.
  Without `SameFiles`, TLC refutes `ReadyIsInDeck`.
* `experience-map-api-spec.md:485` says that the map is read when a request starts, at a user's retry and after a conflict; a user's retry
  goes on with the snapshot in the checkpoint (`graph_runner.py:98-101`, `Retry` in `MapGraph`).
* An item of a later batch that uses a piece of an earlier one can merge the anchors of two headings, which `structure.py:540-543` calls impossible.
* A line of the chat left excluded by a failed second call may be dropped though `assign.py:212-213` says never; a line of a file called an instruction, and leading
  lines without a slot, are dropped without a word; "keep the longest title" (`tree.py:334-342`) drops the title of another project that inherited the slot. `NoLineLost` names these cases, in `LeftOut`.
* An extension started while `turn_number` lags counts as a turn of the user (`router.py:58`); the status `generating` is left behind when a client closes the
  stream (`interview/service.py:816`); `create_session_stream` overwrites the status it has set (`:275-283`).
* Three unheard reports of a completed portfolio, or one that breaks, turn into the report of a failure (`GivesUp` in `Portfolio`).
* The table of transitions the documents give the main server forbids FAILED to DOING_RAG, so two of the three ways of a correction's `retry` would always be refused; `Transitions` allows
  it. A lost answer to the status change of a start leaves a correction under way with no task (`NeverStuck` excludes faults), and a late `_mark_failed` fails the generation of another task.
* A client that leaves during the extraction leaves nothing saved and no failure reported, although the docstring of `stream_extraction` says that saving is completed.

## 9. What is proved

### The request lifecycle

`ExperienceRequest_proofs` proves, from the assumptions `SessionAssumption`,
`RunAssumption`, `RequestAssumption` and `LapseAssumption` and for any sets of
requests, sessions and runs:

* `TypeCorrect`: `Spec => []TypeOK`. `TypeOK` is not inductive: `Save` indexes
  `thread` by `SessionOf[req[x]]`, so the proof carries `Engaged` (a run that is not
  off has a request).
* `Invariance`: `Spec => [](TypeOK /\ Engaged /\ Inv)`, where `Inv` adds to
  the checked invariants what makes them inductive: `OneRunningPerSession`,
  `Links` (what a run works on belongs to the session it was started for),
  `Evidence` (a run past its commit has one that is committed; an unread answer
  "applied" is true), `Columns` (which row columns go with which status),
  `Known` (what threads, posts and the main server mention was claimed once) and
  `Reported` (a run about to report a failed usage has closed its own row).
* `OwnershipHolds`, `ShownIsCommittedHolds`, `RefundNeedsFailureHolds`,
  `SessionsRunOneRequest`, `FencedWritesHolds` from it.
* `Refinement`: `Spec => KeepsTheLedger`. Each action maps to a step of
  `RequestLedger` or leaves its four variables alone.

The last part of `ExperienceRequest_proofs` adds the assumption
`~LeaseLapsesUnderLiveOwner` to the theorems that need it:

* `TimelyInvariance`: whoever drives a request holds a row that is running, and a row
  that may still be retried is the latest of its session or belongs to a claim that is
  about to take the retry away (`DisablePreviousRetries` still to come).
* `OneDriverPerSessionHolds`, `NoRetryBehindLatestHolds` from it.

### The KakaoTalk turn

`KakaoTurn_proofs`, from `WorkerAssumption` and `SpeedAssumption`, for any set of workers, any
leases and any POSTs:

* `Invariance`: `Spec => [](TypeOK /\ Inv)`. The checked properties are not
  inductive, because an overtaken worker acts on what it has read. `Inv` adds `Views`
  (what a worker is about to publish or settle is the outcome, or a
  `COMMIT_UNKNOWN` resolved and published since), `Answered` (the text sent is the
  text in the row, made for the outcome or before it was resolved), `Sender` (one worker
  sends, and nothing was sent before), `Published` (a final state equals the outcome and has
  its callback spent) and `Untouched` (no work before the acceptance).
* `TypeCorrect`, `CallbackOnceHolds`, `AnswerAgreesHolds`, `RefundedFailedHolds`,
  `PublishedAfterDeliveryHolds`, `PublishedIsFinalHolds`.

The last part of `KakaoTurn_proofs`, under `~LeaseLapsesUnderLiveOwner`:

* `TimelyInvariance`, with `Alone` (a worker at work holds the row), `Places` (what its
  place in the code says of outcome and callback) and `Told` (what the main server knows).
* `ToldIsFinalHolds`, `ToldTheDeliveryHolds`, `GivenUpOnlyExpiredHolds`.
* `RefundsUncommittedHolds`, under `~SlowPost` as well, with `Justified`: a failure
  was decided with nothing committed and nothing on its way, or is `excused`.

### The regeneration of a slide

`SlideRegeneration_proofs`, from `FaultAssumption`, `NumberAssumption` and `NoneAssumption`, for any number of slides,
tasks, executions and processes, and any faults:

* `Invariance`: `Spec => [](TypeOK /\ Engaged /\ Inv)`. `Inv` says the registry slide by slide
  (`Held`), that every loop over the files starts at zero (`Counted`), that the last task of a slide asks for it
  (`Tracked`), and what makes `WorkNotDropped` inductive: an execution that will be
  acknowledged has a lost task, a newer one behind it, or a slide nobody waits for (`Answered`).
* `TypeCorrect`, `RegistryExactHolds`, `WorkNotDroppedHolds`.

Its second part is about the files:

* `FilesInvariance`: as long as no two executions overlap, one works at a time (`Single`), its
  attempt is its deck (`Carried`), its deck and back-ups agree with the canonical deck on the other slides (`Alike`),
  its own slide is what the main server is told (`Told`), and all versions are made of accepted edits and its own (`Clean`).
  Steps that touch no file are treated at once (`Quiet`).
* `AcceptedOnlyHolds`, `ShownIsStoredHolds`, `OthersUntouchedHolds`.

### One turn of the experience-map graph

`MapGraph_proofs`, from `TreeAssumption`, `DistinctAssumption`, `BoundAssumption` and `ReasonAssumption`, for any
map, input, number of repairs, retries and edits:

* `Invariance`: `Spec => []Inv`. The checked properties speak of what was applied; `Inv` says of the graph state in memory and
  of the one in the checkpoint that each is `Good`: `Sound` (an answer only to an open question, nothing made of nothing) and
  `Ready`, what its node relies on. From structure on the items take in every piece once and mean the block they refer to (`Placed`),
  the update of an answer goes to its anchor (`Extended`), every text says what its operation is made of (`Refined`), and what is
  to be committed is just that (`Right`). The recovery of a conflict keeps `Placed` because an alias is renumbered to the same block
  (`RemapMeans`), a round of repairs keeps the texts it does not ask for again (`ReusableOf`).
  `Checkpointed` (the checkpoint holds every extract, and nothing of a recovery) makes `OriginalUntilExtracted` inductive.
* `TypeCorrect`: `TypeOK` with `Numbered` (the version counts the edits and the commit, no text is newer than the map), on top of `Inv`.
* `AppliedAsMeantHolds`, `AnswerReachesItsGapHolds`, `OriginalUntilExtractedHolds`. That an answer stays in the activity of its question, although
  nothing checks which empty slot it fills, rests on the structuring node seeing one activity only, in which the anchor is.

### The generation of a deck

`SlideGeneration_proofs`, from `BoundAssumption`, for any template, any lost callbacks, crashes and repeated executions:

* `Invariance`: `Spec => []Inv`. `Shape` says what each place of the execution has in hand (`Typed`, `Running`, `Registering`,
  `Working`); `Cleared`, that no slide with its contents done is a sample; `Counted`, that what the worker counts is what
  the main server has heard, but for what it is just telling; `Apart`, that a slide is in one of the sets still to be looked at or
  repaired; `Kept` (`Laid`, `Same`), that the page of a slide told ready is one page wherever it is kept, and shows its fills or a part of them, as long as the rows name the plan's files.
* `NoSampleTextHolds`, `VerdictAgreesHolds`, `ReadyIsInDeckHolds`. The executed slide is the smallest of a set; that a
  set of numbers has one is taken from the well-founded order of the naturals.
* The proof found an error of the model: `JobStatus` and `HealStuck` were written with a `CASE` whose arms overlap for an empty
  plan, where the code takes the first that fits. They are `IF ... ELSE` now, as is the like choice in `Structuring`.

### Corrections

`Correction_proofs`, from `BoundAssumption`, for any set of tasks, any names and any number of lost calls:

* `Invariance`: `Spec => [](TypeOK /\ Inv)`. `Inv` adds `Marked` (a task that is about to summarise or save has only corrections in hand),
  `InHand` and `Held` (the activities in hand and in the record are distinct, and no more than allowed) and `Ended` (an extraction
  that has ended is being saved, is saved, or a fault kept it from being saved) to the properties.
* `TypeCorrect`, `ResultIsCompleteHolds`, `NeverStuckHolds`, `ExtractionIsSavedHolds`.

### Interviews and portfolios

`Portfolio_proofs`, from `StageAssumption`, `LimitAssumption`, `NoneAssumption` and `RetryAssumption`, for any number of questions, targets,
extensions, failures, repeated or broken calls, and any set of requests in flight. No theorem supposes that requests come one at a time; what is true only as long
as none has come while another was being answered says so itself (`overlaps = 0`).

* `Invariance`: `PSpec => []Inv`, in three parts. `SessionInv` holds with any overlap: every checkpoint, and the copy of every request, is `Good`, which means that the
  questions asked are the script up to its place in its stage (`Placed`), and a copy meets what its node relies on (`OnItsWay`).
  `Single` says that, as long as `overlaps = 0`, at most one request is under way (`Alone`), nothing is extended or complete before the last stage is `Whole` (`Ripe`), a whole interview is not
  lost by a crash (`Saved`), and what the request has read still holds (`Kept`). `Told` is about the portfolio's task: what it reports, what has been sent and what may still arrive
  fits what was made, and what it was made of is the whole script.
* `OrderedQuestions` (`QuestionsInOrder`), `WholePortfolios` (`MadeOfWhole`), `ToldOutcome` (`OutcomeIsTold`).

### The structuring node

`Structuring_proofs`, from `NoneAssumption`, `InputAssumption` (the pieces of a message are told apart by their numbers, a file has finitely
many lines) and `LineAssumption` (a line has a length), for any activity, pieces, headings, batch sizes, lines and answers:

* One lemma on each rule: it turns a `List` (numbered items, each naming an item above it that has a number in range, a category without slot
  and text) into a `List` that holds the same pieces (`Same`). A rule that drops an item must hand its text on or drop one that has none; for
  `MergeAnchors` and `DedupeAnchor` that is true only because no anchor is below an anchor (`Flat`), which `PlaceDirects` brings about
  whatever the answer said and the rules after it keep. `KnownSources` takes away only pieces nobody knows.
  `FixedKeeps` puts the lemmas together in the code's order: `Placed(Fixed(s)) = Placed(s) \cap known`.
* Rules that go through the list item by item are recursive functions. That such a function exists (`RunExists`), and
  that each of its values keeps what the rule keeps, is shown without an induction theorem: by the least number at
  which it would fail.
* `InvariantHolds`: `FSpec => []IInv`. `Asking` makes the two properties inductive: the items are a `List`, the pieces asked for are of
  the current batch, and batches are disjoint, so that what a new batch asks for is in no earlier item.
* `NothingForgottenHolds`, `AskedOnceHolds`.
* `FileInvariantHolds`: `FSpec => []FileInv`, for the way of a file: while the lines wait for the node, the assignment is what
  the answers and the exclusions give (`Assigned`), so that a line without a place is excluded, a heading, an instruction, or has
  no slot before it (`AssignedOf`).
* `NoLineLostHolds`. Line by line (`PutKeeps`): each line so far has an entry, or another line with its text in its slot has
  one, also while titles wait for the next line (`GroupedKeeps`). The repairs keep an entry for every line, except titles of a
  project that keeps another, the longest (`LongestOf`, `TitlesKeptKeeps`); a line left out so far has one that stands for it (`Filing`). The cut of a title leaves a block that is full
  (`TitleCutIs`: of the lines without room none comes before the first of them, so the lines before that one fill it). Key by key (`PlaceKeyFiles`): each line of the key is in
  exactly one new item, because a line begins in one block of its slot, and a new anchor has a child for every slot its lines go to
  (`OpenedIs`). Each key comes once, so the steps add up to `Files`: every line that has an entry is in exactly one block (`BlocksKeeps`), and for every other line the
  reason is one of those the property names (`BlocksAccount`).

The proof found two things the model had left open: with a repeated number among the pieces `AskedOnce` is false, so that the
pieces are distinct is an assumption now (`_source_items` numbers them); and it needed the items as functions (section 6), where
they had been sequences with `RECURSIVE` operators over them.

### Only model-checked

The liveness properties (`NoStuckRequest`, `TurnSettles`, `TurnEnds`, `InterviewEnds`), which are out of the prover's
reach. All invariants and action
properties of the runs are proved. The types of `KakaoTurn`, `SlideRegeneration`, `MapGraph` and `Correction` are proved and not repeated in a run.

## 10. Not modelled

The components marked `not_modelled` in `PROJECT.json`: HTTP endpoints, ticket and rate limiter, start-up, authentication, test UI,
deployment. In the components that are `partly` modelled their notes say what is missing. LLM prompts, fonts and geometry,
rendering and template files are data without a protocol. Executions of one deck generation in two processes at once are excluded (the
in-flight registry is per process, so they can happen); for regenerations they are in the model.

The main server is external in every module: its rules are read off the calls of this repository and its documents. The
model has no property for a commit that lands after its request failed: nothing in
the code bounds the time a POST may travel, and `RequestLedger` states the
consequence (`Commit` may follow `Fail`). Neither does any run rule out that the suggestion raises after a commit, that a
retry is refused with `request_id_reused`, that the clean-up of a web request reports no refund, or that a task redelivered
late regenerates a slide for a newer request: the models contain these behaviours, the code promises nothing about them.
