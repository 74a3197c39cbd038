------------------------- MODULE SlideRegeneration -------------------------
(***************************************************************************)
(* Phase 2 of the pptx worker: one slide of a finished job is regenerated  *)
(* (the user asks for a change) or retried (the slide failed before).      *)
(* The main server serialises the requests of a job by the status of its   *)
(* slides, Cloud Tasks pushes each request to a worker at least once, and  *)
(* the worker edits a downloaded copy of the deck, uploads it under the    *)
(* key of the attempt, reports slide_regenerated and then copies the       *)
(* attempt over the canonical files (api/tasks.py, runtime.py,             *)
(* generation_pipeline.py, qa.py, storage/gcs_client.py).                  *)
(*                                                                         *)
(* A version of a slide is the set of runs whose edits it holds: {} is     *)
(* what Phase 1 made, a regeneration adds itself to what it started from,  *)
(* a retry fills every slot anew.  A deck has a version of each slide.     *)
(***************************************************************************)
EXTENDS Naturals, Sequences, FiniteSets

CONSTANTS
  Slide,        (* the slides of one job                                    *)
  Task,         (* Cloud Tasks requests, numbered as they are asked for     *)
  Run,          (* executions of handle_regenerate_task, numbered as the
                   pushes arrive                                            *)
  Host,         (* worker processes, each with an in-flight registry        *)
  None,         (* no slide, no task, no host                               *)
  Faults        (* the kinds of trouble that may happen                     *)

FaultKind ==
  {"enqueue",   (* the request is committed but not put on the queue        *)
   "twice",     (* a task is pushed again while a run of it is under way    *)
   "unheard",   (* the answer to a push does not reach the queue            *)
   "giveup",    (* the queue has used up its attempts                       *)
   "crash",     (* a worker process dies                                    *)
   "read",      (* a read of the main server's context fails                *)
   "work",      (* download, model, render, check or upload fails           *)
   "refused",   (* a callback is not applied                                *)
   "answer",    (* a callback is applied and its answer lost                *)
   "copy",      (* a copy inside the bucket fails                           *)
   "stuck"}     (* the main server's cron sets a slow slide to error        *)

ASSUME FaultAssumption == Faults \subseteq FaultKind
ASSUME NumberAssumption == Task \subseteq Nat /\ Run \subseteq Nat
ASSUME NoneAssumption == None \notin Slide \cup Task \cup Host

VARIABLES
  (* the main server's rows *)
  status,       (* slides.status                                            *)
  fills,        (* slides.current_fills: the version the user is shown      *)
  (* Cloud Tasks *)
  queue,        (* tasks that are not acknowledged                          *)
  slideOf,      (* payload.slide_id of a task, None before it is asked      *)
  retries,      (* tasks with is_retry                                      *)
  (* the workers *)
  claims,       (* InFlightTaskRegistry: target keys held in a process      *)
  pc, taskOf, host,
  base,         (* current_fills as the run has read them                   *)
  deck,         (* the deck the run has made from current.pptx              *)
  at,           (* files done of the upload, back-up, copy or restore       *)
  (* the bucket *)
  attempt,      (* jobs/{job}/attempts/{attempt}/...                        *)
  backup,       (* jobs/{job}/attempts/{attempt}/rollback/...               *)
  stored,       (* the canonical current.pptx, current.pdf and previews     *)
  pictured,     (* slides whose canonical preview exists                    *)
  (* history, read by the properties only *)
  latest,       (* the last task asked for a slide                          *)
  accepted,     (* runs whose slide_regenerated was applied                 *)
  promoted,     (* runs whose files are all copied                          *)
  overlap,      (* two runs were once between first read and last copy      *)
  lost          (* tasks given up or acknowledged without an outcome        *)

rows == <<status, fills>>
tasks == <<queue, slideOf, retries>>
locals == <<pc, taskOf, host, base, deck, at>>
bucket == <<attempt, backup, stored, pictured>>
history == <<latest, accepted, promoted, overlap, lost>>
vars == <<rows, tasks, claims, locals, bucket, history>>

Version == SUBSET Run
Deck == [Slide -> Version]
File == {"pptx", "pdf", "preview"}
Files == [File -> Deck]
Uploads == <<"preview", "pptx", "pdf">>      (* the order of the uploads    *)
Promotions == <<"pptx", "pdf", "preview">>   (* of the back-ups and copies  *)

InProgress == {"regenerating", "generating"}
Processing == {"reading", "uploading", "sending", "backup", "copy", "restore"}
Claimed == Processing \cup {"claimed", "failing"}
Live == Claimed \cup {"received", "known", "acking"}

Blank == [s \in Slide |-> {}]
BlankFiles == [f \in File |-> Blank]

(* Every variable has its type.                                            *)
TypeOK ==
  /\ status \in [Slide -> InProgress \cup {"completed", "error"}]
  /\ fills \in Deck
  /\ queue \subseteq Task /\ retries \subseteq Task
  /\ slideOf \in [Task -> Slide \cup {None}]
  /\ claims \in [Host -> SUBSET Slide]
  /\ pc \in [Run -> Live \cup {"idle", "done"}]
  /\ taskOf \in [Run -> Task \cup {None}]
  /\ host \in [Run -> Host \cup {None}]
  /\ base \in [Run -> Version]
  /\ deck \in [Run -> Deck]
  /\ at \in [Run -> 0..3] /\ \A r \in Run : pc[r] # "restore" => at[r] < 3
  /\ attempt \in [Task -> Files] /\ backup \in [Task -> Files]
  /\ stored \in Files
  /\ pictured \subseteq Slide
  /\ latest \in [Slide -> Task \cup {None}]
  /\ accepted \subseteq Run /\ promoted \subseteq Run
  /\ overlap \in BOOLEAN
  /\ lost \subseteq Task

(* Phase 1 is over.  Some slide is completed and has a preview; a slide    *)
(* that ended in error may have one or not.                                *)
Init ==
  /\ status \in [Slide -> {"completed", "error"}]
  /\ \E s \in Slide : status[s] = "completed"
  /\ pictured \in SUBSET Slide
  /\ \A s \in Slide : status[s] = "completed" => s \in pictured
  /\ fills = Blank
  /\ queue = {} /\ retries = {} /\ slideOf = [t \in Task |-> None]
  /\ claims = [h \in Host |-> {}]
  /\ pc = [r \in Run |-> "idle"]
  /\ taskOf = [r \in Run |-> None] /\ host = [r \in Run |-> None]
  /\ base = [r \in Run |-> {}] /\ deck = [r \in Run |-> Blank]
  /\ at = [r \in Run |-> 0]
  /\ attempt = [t \in Task |-> BlankFiles] /\ backup = [t \in Task |-> BlankFiles]
  /\ stored = BlankFiles
  /\ latest = [s \in Slide |-> None]
  /\ accepted = {} /\ promoted = {} /\ overlap = FALSE /\ lost = {}

-----------------------------------------------------------------------------
(* What a run works on, and how it ends *)

SlideOf(r) == slideOf[taskOf[r]]
IsRetry(r) == taskOf[r] \in retries
RunsOf(t) == {r \in Run : taskOf[r] = t /\ pc[r] \in Live}

(* The version a run makes of its slide from a version it starts from.     *)
Edited(r, v) == IF IsRetry(r) THEN {r} ELSE v \cup {r}

(* Fault: the edit is made on every slide.                                 *)
EditedEverywhere(r, d) == [s \in Slide |-> Edited(r, d[s])]

(* apply_fills works on the XML of one slide of the unpacked deck.         *)
EditedDeck(r, d) == [d EXCEPT ![SlideOf(r)] = Edited(r, @)]

Go(r, to) == pc' = [pc EXCEPT ![r] = to]

(* Fault: the keys are discarded after a success only.                     *)
ReleaseOnSuccess(r) ==
  claims' = IF pc[r] = "copy" THEN [claims EXCEPT ![host[r]] = @ \ {SlideOf(r)}] ELSE claims

(* async with claim: the keys are discarded on every way out.              *)
Release(r) ==
  claims' = IF pc[r] \in Claimed
            THEN [claims EXCEPT ![host[r]] = @ \ {SlideOf(r)}]
            ELSE claims

(* A run ends: "acking" answers 200 (or 422), "done" answers 5xx.          *)
End(r, to) ==
  /\ Go(r, to)
  /\ Release(r)
  /\ base' = [base EXCEPT ![r] = {}]
  /\ deck' = [deck EXCEPT ![r] = Blank]
  /\ at' = [at EXCEPT ![r] = 0]
  /\ UNCHANGED <<taskOf, host>>

(* The canonical files after d is copied over f: the deck and its PDF are   *)
(* replaced as a whole, of the previews that of one slide.                 *)
Overwritten(f, d, s) ==
  [stored EXCEPT ![f] = IF f = "preview" THEN [@ EXCEPT ![s] = d[s]] ELSE d]

-----------------------------------------------------------------------------
(* The main server and the queue *)

Busy(s) == \E x \in Slide \ {s} : status[x] \in InProgress

(* POST .../regenerate and .../retry: one slide of a job at a time.        *)
Ask(t, s) ==
  /\ slideOf[t] = None /\ \A u \in Task : u < t => slideOf[u] # None
  /\ ~Busy(s)
  /\ \/ /\ status[s] = "completed"
        /\ status' = [status EXCEPT ![s] = "regenerating"]
        /\ UNCHANGED retries
     \/ /\ status[s] = "error"
        /\ status' = [status EXCEPT ![s] = "generating"]
        /\ retries' = retries \cup {t}
  /\ slideOf' = [slideOf EXCEPT ![t] = s]
  /\ latest' = [latest EXCEPT ![s] = t]
  /\ \/ queue' = queue \cup {t} /\ UNCHANGED lost
     \/ "enqueue" \in Faults /\ lost' = lost \cup {t} /\ UNCHANGED queue
  /\ UNCHANGED <<fills, claims, locals, bucket, accepted, promoted, overlap>>

Pushable(r, t) ==
  /\ pc[r] = "idle" /\ \A q \in Run : q < r => pc[q] # "idle"
  /\ t \in queue
  /\ RunsOf(t) = {} \/ "twice" \in Faults

Arrives(r, t, h, to) ==
  /\ Go(r, to)
  /\ taskOf' = [taskOf EXCEPT ![r] = t]
  /\ host' = [host EXCEPT ![r] = h]
  /\ UNCHANGED <<rows, tasks, claims, base, deck, at, bucket>>

(* A push reaches a process that does not hold the slide.                  *)
Deliver(r, t, h) ==
  /\ Pushable(r, t)
  /\ slideOf[t] \notin claims[h]
  /\ Arrives(r, t, h, "received")
  /\ UNCHANGED history

(* One that holds it answers 200 at once: skipped, in_flight_duplicate.    *)
SkipInFlight(r, t, h) ==
  /\ Pushable(r, t)
  /\ slideOf[t] \in claims[h]
  /\ Arrives(r, t, h, "acking")
  /\ lost' = lost \cup {t}
  /\ UNCHANGED <<latest, accepted, promoted, overlap>>

Acknowledge(r) ==
  /\ pc[r] = "acking"
  /\ queue' = queue \ {taskOf[r]}
  /\ End(r, "done")
  /\ UNCHANGED <<rows, slideOf, retries, bucket, history>>

AnswerUnheard(r) ==
  /\ pc[r] = "acking" /\ "unheard" \in Faults
  /\ End(r, "done")
  /\ UNCHANGED <<rows, tasks, bucket, history>>

GiveUp(t) ==
  /\ "giveup" \in Faults /\ t \in queue
  /\ queue' = queue \ {t}
  /\ lost' = lost \cup {t}
  /\ UNCHANGED <<rows, slideOf, retries, claims, locals, bucket, latest, accepted, promoted, overlap>>

(* healStuckSlides: eight minutes without a change of the row.             *)
HealStuck(s) ==
  /\ "stuck" \in Faults /\ status[s] \in InProgress
  /\ status' = [status EXCEPT ![s] = "error"]
  /\ UNCHANGED <<fills, tasks, claims, locals, bucket, history>>

Crash(h) ==
  LET dead == {r \in Run : pc[r] \in Live /\ host[r] = h}
  IN /\ "crash" \in Faults /\ dead # {}
     /\ pc' = [r \in Run |-> IF r \in dead THEN "done" ELSE pc[r]]
     /\ base' = [r \in Run |-> IF r \in dead THEN {} ELSE base[r]]
     /\ deck' = [r \in Run |-> IF r \in dead THEN Blank ELSE deck[r]]
     /\ at' = [r \in Run |-> IF r \in dead THEN 0 ELSE at[r]]
     /\ claims' = [claims EXCEPT ![h] = {}]
     /\ UNCHANGED <<rows, tasks, taskOf, host, bucket, history>>

-----------------------------------------------------------------------------
(* handle_regenerate_task up to the pipeline *)

ReadStatus(r) ==
  /\ pc[r] = "received"
  /\ status[SlideOf(r)] \in InProgress
  /\ Go(r, "known")
  /\ UNCHANGED <<rows, tasks, claims, taskOf, host, base, deck, at, bucket, history>>

SkipSettled(r) ==
  /\ pc[r] = "received"
  /\ status[SlideOf(r)] \notin InProgress
  /\ End(r, "acking")
  /\ UNCHANGED <<rows, tasks, bucket, history>>

(* _handle_main_context_error: 503 is pushed again, 422 is not.            *)
StatusReadFails(r) ==
  /\ pc[r] = "received" /\ "read" \in Faults
  /\ \/ End(r, "done") /\ UNCHANGED lost
     \/ End(r, "acking") /\ lost' = lost \cup {taskOf[r]}
  /\ UNCHANGED <<rows, tasks, bucket, latest, accepted, promoted, overlap>>

Acquire(r) ==
  /\ pc[r] = "known"
  /\ SlideOf(r) \notin claims[host[r]]
  /\ claims' = [claims EXCEPT ![host[r]] = @ \cup {SlideOf(r)}]
  /\ Go(r, "claimed")
  /\ UNCHANGED <<rows, tasks, taskOf, host, base, deck, at, bucket, history>>

AcquireRefused(r) ==
  /\ pc[r] = "known"
  /\ SlideOf(r) \in claims[host[r]]
  /\ End(r, "acking")
  /\ lost' = lost \cup {taskOf[r]}
  /\ UNCHANGED <<rows, tasks, bucket, latest, accepted, promoted, overlap>>

-----------------------------------------------------------------------------
(* _regenerate_with_client *)

(* The context is read again; its status is not looked at.                 *)
ReadContext(r) ==
  /\ pc[r] = "claimed"
  /\ base' = [base EXCEPT ![r] = fills[SlideOf(r)]]
  /\ overlap' = (overlap \/ \E q \in Run : pc[q] \in Processing)
  /\ Go(r, "reading")
  /\ UNCHANGED <<rows, tasks, claims, taskOf, host, deck, at, bucket, latest, accepted, promoted, lost>>

(* A MainServerError of either read is a RetryableError.                   *)
ContextReadFails(r) ==
  /\ pc[r] \in {"claimed", "reading"} /\ "read" \in Faults
  /\ End(r, "done")
  /\ UNCHANGED <<rows, tasks, bucket, history>>

(* current.pptx is downloaded; unpack, fill, pack, render and check work   *)
(* on the copy.                                                            *)
MakeDeck(r) ==
  /\ pc[r] = "reading"
  /\ deck' = [deck EXCEPT ![r] = EditedDeck(r, stored["pptx"])]
  /\ Go(r, "uploading")
  /\ UNCHANGED <<rows, tasks, claims, taskOf, host, base, at, bucket, history>>

(* Any other exception, and a slide that does not pass the check, leads to *)
(* slide_preview_error.                                                    *)
WorkFails(r) ==
  /\ pc[r] \in {"reading", "uploading"} /\ "work" \in Faults
  /\ Go(r, "failing")
  /\ UNCHANGED <<rows, tasks, claims, taskOf, host, base, deck, at, bucket, history>>

(* Fault: the PDF is that of the deck the run began with.                  *)
FirstRender(r, f) == IF f = "pdf" THEN stored["pdf"] ELSE deck[r]

(* The PDF and the preview are rendered from the deck that is uploaded.    *)
Rendered(r, f) == deck[r]

(* One more of three files is done.                                        *)
OneMore(n) == (n + 1) % 3

Upload(r) ==
  LET f == Uploads[at[r] + 1]
  IN /\ pc[r] = "uploading"
     /\ attempt' = [attempt EXCEPT ![taskOf[r]][f] = Rendered(r, f)]
     /\ at' = [at EXCEPT ![r] = OneMore(@)]
     /\ Go(r, IF at[r] = 2 THEN "sending" ELSE "uploading")
     /\ UNCHANGED <<rows, tasks, claims, taskOf, host, base, deck, backup, stored, pictured, history>>

(* slide_regenerated at the main server: an UPDATE of the slide's row.     *)
Regenerated(r) ==
  /\ status' = [status EXCEPT ![SlideOf(r)] = "completed"]
  /\ fills' = [fills EXCEPT ![SlideOf(r)] = Edited(r, base[r])]
  /\ accepted' = accepted \cup {r}

SendRegenerated(r) ==
  /\ pc[r] = "sending"
  /\ Regenerated(r)
  /\ Go(r, "backup")
  /\ UNCHANGED <<tasks, claims, taskOf, host, base, deck, at, bucket, latest, promoted, overlap, lost>>

(* The callback did not go well: it is tried again, it has failed five     *)
(* times or with a 4xx (RetryableError), or it has raised an error that    *)
(* the client does not translate.                                          *)
CallbackTrouble(r) ==
  \/ UNCHANGED <<claims, locals>>
  \/ End(r, "done")
  \/ Go(r, "failing") /\ UNCHANGED <<claims, taskOf, host, base, deck, at>>

RegeneratedUnanswered(r) ==
  /\ pc[r] = "sending" /\ "answer" \in Faults
  /\ Regenerated(r)
  /\ CallbackTrouble(r)
  /\ UNCHANGED <<tasks, bucket, latest, promoted, overlap, lost>>

(* Fault: the files are promoted although the callback has failed.         *)
PromotedAnyway(r) ==
  /\ pc[r] = "sending" /\ "refused" \in Faults
  /\ Go(r, "backup")
  /\ UNCHANGED <<rows, tasks, claims, taskOf, host, base, deck, at, bucket, history>>

RegeneratedRefused(r) ==
  /\ pc[r] = "sending" /\ "refused" \in Faults
  /\ CallbackTrouble(r)
  /\ UNCHANGED <<rows, tasks, bucket, history>>

(* slide_preview_error at the main server: a slide in progress goes back   *)
(* to where it was.                                                        *)
PreviewError(r) ==
  status' = [status EXCEPT ![SlideOf(r)] =
               CASE @ = "regenerating" -> "completed"
                 [] @ = "generating" -> "error"
                 [] OTHER -> @]

SendPreviewError(r) ==
  /\ pc[r] = "failing"
  /\ PreviewError(r)
  /\ End(r, "acking")
  /\ UNCHANGED <<fills, tasks, bucket, history>>

PreviewErrorUnanswered(r) ==
  /\ pc[r] = "failing" /\ "answer" \in Faults
  /\ PreviewError(r)
  /\ \/ UNCHANGED <<claims, locals>>
     \/ End(r, "done")
  /\ UNCHANGED <<fills, tasks, bucket, history>>

(* Fault: the handler answers 200 although the callback has failed.        *)
PreviewErrorSwallowed(r) ==
  /\ pc[r] = "failing" /\ "refused" \in Faults
  /\ End(r, "acking")
  /\ UNCHANGED <<rows, tasks, bucket, history>>

PreviewErrorRefused(r) ==
  /\ pc[r] = "failing" /\ "refused" \in Faults
  /\ End(r, "done")
  /\ UNCHANGED <<rows, tasks, bucket, history>>

-----------------------------------------------------------------------------
(* promote_regeneration_attempt: back up, copy, restore what was backed up *)

Turn(r) == Promotions[at[r] + 1]

(* A preview that was never published cannot be copied.                    *)
Missing(r) == pc[r] = "backup" /\ Turn(r) = "preview" /\ SlideOf(r) \notin pictured

BackUp(r) ==
  /\ pc[r] = "backup" /\ ~Missing(r)
  /\ backup' = [backup EXCEPT ![taskOf[r]][Turn(r)] = stored[Turn(r)]]
  /\ at' = [at EXCEPT ![r] = OneMore(@)]
  /\ Go(r, IF at[r] = 2 THEN "copy" ELSE "backup")
  /\ UNCHANGED <<rows, tasks, claims, taskOf, host, base, deck, attempt, stored, pictured, history>>

CopiedTo(r) ==
  /\ stored' = Overwritten(Turn(r), attempt[taskOf[r]][Turn(r)], SlideOf(r))
  /\ pictured' = IF Turn(r) = "preview" THEN pictured \cup {SlideOf(r)} ELSE pictured

Copy(r) ==
  /\ pc[r] = "copy" /\ at[r] < 2
  /\ CopiedTo(r)
  /\ at' = [at EXCEPT ![r] = @ + 1]
  /\ UNCHANGED <<rows, tasks, claims, pc, taskOf, host, base, deck, attempt, backup, history>>

(* The last copy: the handler answers 200.                                 *)
Promote(r) ==
  /\ pc[r] = "copy" /\ at[r] = 2
  /\ CopiedTo(r)
  /\ promoted' = promoted \cup {r}
  /\ End(r, "acking")
  /\ UNCHANGED <<rows, tasks, attempt, backup, latest, accepted, overlap, lost>>

(* A copy raises; it may have been made all the same.                      *)
PromoteFails(r) ==
  /\ \/ /\ pc[r] = "backup"
        /\ Missing(r) \/ "copy" \in Faults
        /\ UNCHANGED <<at, stored, pictured>>
     \/ /\ pc[r] = "copy" /\ "copy" \in Faults
        /\ CopiedTo(r) \/ UNCHANGED <<stored, pictured>>
        /\ at' = [at EXCEPT ![r] = 3]
  /\ Go(r, "restore")
  /\ UNCHANGED <<rows, tasks, claims, taskOf, host, base, deck, attempt, backup, history>>

(* The last file backed up is the first to be restored; one that fails is  *)
(* passed over.                                                            *)
Restore(r) ==
  /\ pc[r] = "restore" /\ at[r] > 0
  /\ \/ stored' = Overwritten(Promotions[at[r]], backup[taskOf[r]][Promotions[at[r]]], SlideOf(r))
     \/ "copy" \in Faults /\ UNCHANGED stored
  /\ at' = [at EXCEPT ![r] = @ - 1]
  /\ UNCHANGED <<rows, tasks, claims, pc, taskOf, host, base, deck, attempt, backup, pictured, history>>

(* Restored or not, the handler answers 503.                               *)
PromoteGivenUp(r) ==
  /\ pc[r] = "restore" /\ at[r] = 0
  /\ End(r, "done")
  /\ UNCHANGED <<rows, tasks, bucket, history>>

Step(r) ==
  \/ ReadStatus(r) \/ SkipSettled(r) \/ StatusReadFails(r)
  \/ Acquire(r) \/ AcquireRefused(r)
  \/ ReadContext(r) \/ ContextReadFails(r)
  \/ MakeDeck(r) \/ WorkFails(r) \/ Upload(r)
  \/ SendRegenerated(r) \/ RegeneratedUnanswered(r) \/ RegeneratedRefused(r)
  \/ SendPreviewError(r) \/ PreviewErrorUnanswered(r) \/ PreviewErrorRefused(r)
  \/ BackUp(r) \/ Copy(r) \/ Promote(r) \/ PromoteFails(r)
  \/ Restore(r) \/ PromoteGivenUp(r)
  \/ Acknowledge(r) \/ AnswerUnheard(r)

Next ==
  \/ \E t \in Task, s \in Slide : Ask(t, s)
  \/ \E r \in Run, t \in Task, h \in Host : Deliver(r, t, h) \/ SkipInFlight(r, t, h)
  \/ \E r \in Run : Step(r)
  \/ \E t \in Task : GiveUp(t)
  \/ \E s \in Slide : HealStuck(s)
  \/ \E h \in Host : Crash(h)

Spec == Init /\ [][Next]_vars

-----------------------------------------------------------------------------
(* Properties *)

Holding(h) == {r \in Run : host[r] = h /\ pc[r] \in Claimed}

(* The registry of a process names exactly the slides its runs work on,    *)
(* and no two of them work on the same slide, on every way out of          *)
(* handle_regenerate_task: a key that stays behind makes the worker        *)
(* acknowledge every later push of the slide without doing it.             *)
RegistryExact ==
  \A h \in Host :
    /\ claims[h] = {SlideOf(r) : r \in Holding(h)}
    /\ \A q, r \in Holding(h) : q # r => SlideOf(q) # SlideOf(r)

(* A slide whose user waits has its last task on the queue, unless the     *)
(* task is known to be lost: no answer of the worker removes the task of a *)
(* request that still has no outcome.                                      *)
WorkNotDropped ==
  \A s \in Slide : status[s] \in InProgress => latest[s] \in queue \cup lost

(* promote_regeneration_attempt publishes only what the main server has    *)
(* accepted: no canonical file holds an edit of a run whose                *)
(* slide_regenerated was not applied, whatever fails on the way, as long   *)
(* as no two runs of the job work at the same time.                        *)
AcceptedOnly ==
  ~overlap => \A f \in File, s \in Slide : stored[f][s] \subseteq accepted

Unpromoted(s) == \E r \in accepted \ promoted : SlideOf(r) = s

AsShown(s) == \A f \in File : stored[f][s] = fills[s] \/ (f = "preview" /\ s \notin pictured)

(* The deck, its PDF and the preview of a slide are the version the main   *)
(* server shows, unless a result it accepted was not promoted, as long as  *)
(* no two runs of the job work at the same time.                           *)
ShownIsStored ==
  ~overlap => \A s \in Slide : Unpromoted(s) \/ AsShown(s)

(* The slide of a deck changes only by a run of that slide, one whose      *)
(* result the main server has accepted: although current.pptx is replaced  *)
(* and restored as a whole, the other slides come out as they were, as     *)
(* long as no two runs of the job work at the same time.                   *)
OthersUntouched ==
  [][\A s \in Slide :
       ~overlap /\ stored'["pptx"][s] # stored["pptx"][s]
         => \E r \in accepted : pc[r] \in {"copy", "restore"} /\ SlideOf(r) = s]_vars

(* What the documents say: the lock of the main server keeps one run's     *)
(* copy from overwriting another's.  An edit that was promoted stays in    *)
(* the deck until a retry fills its slide anew.                            *)
EditsSurvive ==
  \A r \in promoted :
    \/ r \in stored["pptx"][SlideOf(r)]
    \/ \E q \in accepted : IsRetry(q) /\ SlideOf(q) = SlideOf(r)

(* What the documents say: a result the main server has accepted is        *)
(* promoted, by this push of the task or by the next.  TLC refutes it; no  *)
(* run checks it (README, section 8).                                      *)
AcceptedIsPromoted ==
  \A r \in accepted : r \in promoted \/ pc[r] \in Live \/ taskOf[r] \in queue
=============================================================================
