---------------------------- MODULE SlideGeneration ----------------------------
(***************************************************************************)
(* The first generation of a deck by the pptx-worker: a task pushes the    *)
(* job, the worker plans the slides, fills them with text, has the rendered *)
(* pages looked at and repaired, publishes a preview of each, and stores    *)
(* the deck.                                                               *)
(*                                                                         *)
(* Slides are numbered by their order.  A text is <<p, o, e>>: made by the  *)
(* execution that left p pushes, for slide o, changed e times.  What a      *)
(* slide's fills say is a text, what its XML shows a text or the part of it *)
(* that could be applied; charts, kept in files of their own, are left out. *)
(* One execution of a job at a time.                                       *)
(***************************************************************************)
EXTENDS Naturals, Sequences, FiniteSets

CONSTANTS
  File,       \* slide files of the template
  MaxSlides,  \* bound: slides of a plan (the code plans 7 to 12)
  MaxFixes,   \* max_fix_attempts
  MaxPushes   \* bound: attempts of the job's task

ASSUME BoundAssumption ==
  MaxSlides \in Nat \ {0} /\ MaxFixes \in Nat /\ MaxPushes \in Nat

VARIABLES
  main,    \* the job at the main server: its status, rows and key of the deck
  bucket,  \* the stored deck, its PDF and the previews
  x,       \* the execution under way
  pushes   \* attempts the task queue has left

vars == <<main, bucket, x, pushes>>

Order == 1..MaxSlides

Sample == <<0, 0, 0>>   \* the template's own text
Blank  == <<0, 0, 1>>   \* nothing
Absent == <<0, 0, 2>>   \* no such page

(* Nothing under way: the local variables of generate and process.         *)
Idle ==
  [pc |-> "idle", plan |-> <<>>, reg |-> <<>>, deck |-> <<>>,
   stage |-> <<>>,             \* per slide, what its content step does next
   text |-> <<>>,              \* per slide, its current_fills
   image |-> <<>>,             \* per slide, what its rendered page shows
   out |-> <<>>,               \* per slide, the outcome of the visual QA
   output |-> <<>>, repaired |-> <<>>,   \* the packed decks
   check |-> {}, cur |-> 0, failed |-> {}, fixed |-> {}, tell |-> {}, then |-> "idle",
   round |-> 0, done |-> 0, stored |-> FALSE]

Init ==
  /\ main = [job |-> "generating", key |-> FALSE, rows |-> <<>>]
  /\ bucket = [pptx |-> <<>>, pdf |-> <<>>, previews |-> [o \in Order |-> Absent]]
  /\ x = Idle /\ pushes = MaxPushes

At(where) == x.pc = where
Go(where) == x' = [x EXCEPT !.pc = where]
Planned == DOMAIN x.plan
Smallest(S) == CHOOSE o \in S : \A p \in S : o <= p
FilesOf(p) == {p[o] : o \in DOMAIN p}
Edit(t) == <<t[1], t[2], t[3] + 1>>
Partly(t) == <<t[1], t[2], t[3], 1>>   \* a page that did not take all of t

(* The pages of the unpacked deck, in the order of the plan.               *)
Pages == [o \in Planned |-> [file |-> x.plan[o], text |-> x.deck[x.plan[o]]]]

(* A callback to the main server, repeated there on errors: heard, or       *)
(* raising after it was applied or never arrived.                          *)
Heard(new, next) == main' = new /\ x' = next
Raises(new, next) == main' \in {main, new} /\ x' = next

(* A failure that ends the job: all_completed with nothing completed.      *)
Fatal == x' = [Idle EXCEPT !.pc = "report"] /\ UNCHANGED main

(* Errors to report slide by slide before going on.                        *)
Telling(S, next) == [next EXCEPT !.tell = S, !.then = next.pc,
                                 !.pc = IF S = {} THEN next.pc ELSE "tell"]

-----------------------------------------------------------------------------
(* The task *)

Push ==
  /\ At("idle") /\ pushes > 0 /\ pushes' = pushes - 1
  /\ main.job = "generating"
  /\ Go("plan") \/ Go("idle")      \* the status read fails: pushed again
  /\ UNCHANGED <<main, bucket>>

(* A job that is over is acknowledged without a word.                      *)
Skip ==
  /\ At("idle") /\ pushes > 0 /\ main.job # "generating"
  /\ pushes' = 0 /\ UNCHANGED <<main, bucket, x>>

Crash == ~At("idle") /\ x' = Idle /\ UNCHANGED <<main, bucket, pushes>>

-----------------------------------------------------------------------------
(* The plan *)

(* Orders from 1 on, no slide of the template twice.                       *)
Valid(p) == Cardinality(FilesOf(p)) = Len(p)

(* What the model may answer; its answers that break a rule fail.           *)
Plans == {p \in UNION {[1..k -> File] : k \in Order} : Valid(p)}

(* The slides are picked anew in each execution.                           *)
CreatePlan ==
  /\ At("plan")
  /\ \/ \E p \in Plans : x' = [x EXCEPT !.pc = "submit", !.plan = p] /\ UNCHANGED main
     \/ Fatal
  /\ UNCHANGED <<bucket, pushes>>

(* The main server inserts the rows it does not have yet.                  *)
Inserted(p) ==
  main.rows \o [i \in 1..(IF Len(p) > Len(main.rows) THEN Len(p) - Len(main.rows) ELSE 0) |->
    [file |-> p[Len(main.rows) + i], status |-> "pending", fills |-> Absent]]

(* The answer lists the rows of the job: their files are the registered     *)
(* ones, whatever the plan says.                                           *)
Registered(rows) == [o \in DOMAIN rows |-> rows[o].file]

SubmitPlan ==
  /\ At("submit")
  /\ LET new == [main EXCEPT !.rows = Inserted(x.plan)] IN
       \/ /\ Len(new.rows) = Len(x.plan)
          /\ Heard(new, [x EXCEPT !.pc = "prepare", !.reg = Registered(new.rows)])
       \/ Len(new.rows) # Len(x.plan) /\ Heard(new, [Idle EXCEPT !.pc = "report"])
       \/ Raises(new, Idle)
  /\ UNCHANGED <<bucket, pushes>>

(* The template without the slides that are not in the plan.               *)
PrepareDeck ==
  /\ At("prepare")
  /\ \/ /\ x' = [x EXCEPT !.pc = "contents",
                          !.deck = [f \in FilesOf(x.plan) |-> Sample],
                          !.stage = [o \in Planned |-> "ask"],
                          !.text = [o \in Planned |-> Absent],
                          !.image = [o \in Planned |-> Absent],
                          !.out = [o \in Planned |-> "none"]]
        /\ UNCHANGED main
     \/ Fatal
  /\ UNCHANGED <<bucket, pushes>>

-----------------------------------------------------------------------------
(* The contents, slide by slide and side by side *)

Stage(o, stage) == At("contents") /\ o \in Planned /\ x.stage[o] = stage

Then(o, stage, text) ==
  x' = [x EXCEPT !.stage[o] = stage, !.text[o] = text]
  /\ UNCHANGED <<main, bucket, pushes>>

FirstText(o) == <<pushes, o, 0>>

(* An answer that names other shapes, or leaves out one, is refused.       *)
Refused(o) == Then(o, "clear", x.text[o])

(* A timeout is tried once more; every other failure clears the slide.     *)
CreateFills(o) ==
  \/ /\ Stage(o, "ask") \/ Stage(o, "ask_again")
     /\ Then(o, "fit", FirstText(o)) \/ Refused(o)
  \/ Stage(o, "ask") /\ Then(o, "ask_again", x.text[o])

(* A text is measured in its box, the box grown and the type shrunk as far  *)
(* as allowed; a row of labels is spread out as far as the row goes.        *)
BoxFit == {"fits", "too_long", "box_too_small"}
LabelsFit == BOOLEAN

(* The longest beginning of the text that fits, if there is one.  The       *)
(* labels stay as they are.                                                *)
CutText(o, labels) == labels /\ Then(o, "apply", Edit(x.text[o]))

(* A text that is too long is shortened by the model once, then cut.        *)
Preflight(o) ==
  \E box \in BoxFit, labels \in LabelsFit :
    LET fits == box = "fits" /\ labels
        long == box = "too_long"
    IN \/ (Stage(o, "fit") \/ Stage(o, "fit_again")) /\ fits /\ Then(o, "apply", x.text[o])
       \/ Stage(o, "fit") /\ long /\ Then(o, "revise", x.text[o])
       \/ Stage(o, "fit_again") /\ long /\ CutText(o, labels)
       \/ Stage(o, "fit") /\ ~fits /\ ~long /\ Then(o, "clear", x.text[o])
       \/ Stage(o, "fit_again") /\ ~fits /\ Then(o, "clear", x.text[o])

ReviseFills(o) ==
  /\ Stage(o, "revise")
  /\ Then(o, "fit_again", Edit(x.text[o])) \/ Refused(o)

ApplyFills(o) ==
  /\ Stage(o, "apply")
  /\ \/ x' = [x EXCEPT !.stage[o] = "ready", !.deck[x.plan[o]] = x.text[o]]
     \/ x' = [x EXCEPT !.stage[o] = "clear"]
  /\ UNCHANGED <<main, bucket, pushes>>

(* A plausible error: a slide without content is reported and left as it is.*)
LeaveSamples(o) ==
  /\ Stage(o, "clear")
  /\ x' = [x EXCEPT !.stage[o] = "failed"]
  /\ UNCHANGED <<main, bucket, pushes>>

(* A slide without content must not show the template's samples.           *)
ClearContent(o) ==
  /\ Stage(o, "clear")
  /\ x' = [x EXCEPT !.stage[o] = "failed", !.deck[x.plan[o]] = Blank]
  /\ UNCHANGED <<main, bucket, pushes>>

(* slide_content_ready, slide_content_error; when one raises, the slides    *)
(* still at work are cancelled and the task is pushed again.               *)
TellContent(o) ==
  /\ \/ /\ Stage(o, "ready")
        /\ LET new == [main EXCEPT !.rows[o].status = "generating",
                                   !.rows[o].fills = x.text[o]]
           IN  Heard(new, [x EXCEPT !.stage[o] = "told_ready"]) \/ Raises(new, Idle)
     \/ /\ Stage(o, "failed")
        /\ LET new == [main EXCEPT !.rows[o].status = "error"]
           IN  Heard(new, [x EXCEPT !.stage[o] = "told_failed"]) \/ Raises(new, Idle)
  /\ UNCHANGED <<bucket, pushes>>

Ready == {o \in Planned : x.stage[o] = "told_ready"}

-----------------------------------------------------------------------------
(* The first rendering *)

(* Packed, validated, repaired at most once; then pipeline_stage_changed.  *)
Packed(next) == x' = next \/ x' = [Idle EXCEPT !.pc = "report"]

PackDeck ==
  /\ At("contents") /\ \A o \in Planned : x.stage[o] \in {"told_ready", "told_failed"}
  /\ \/ Ready = {} /\ Fatal
     \/ /\ Ready # {}
        /\ Packed([x EXCEPT !.pc = "render", !.output = Pages]) \/ x' = Idle
        /\ UNCHANGED main
  /\ UNCHANGED <<bucket, pushes>>

(* The page of each slide.                                                 *)
Rendered(deck) == [o \in DOMAIN deck |-> deck[o].text]

RenderDeck ==
  /\ At("render")
  /\ \/ /\ x' = [x EXCEPT !.pc = "check", !.check = Ready,
                          !.image = Rendered(x.output)]
        /\ UNCHANGED main
     \/ Fatal
  /\ UNCHANGED <<bucket, pushes>>

-----------------------------------------------------------------------------
(* Visual QA *)

Seen(o) == [x EXCEPT !.check = @ \ {o}]

Passes(o) == x' = [Seen(o) EXCEPT !.pc = "publish", !.cur = o]

(* Issues, or an answer that cannot be read.                               *)
HasIssues(o) == x' = [Seen(o) EXCEPT !.failed = @ \cup {o}]

CallFails(o) == x' = Telling({o}, Seen(o))

(* The answers of the model come in any order.                             *)
CheckSlide(o) ==
  /\ At("check") /\ o \in x.check
  /\ Passes(o) \/ HasIssues(o) \/ CallFails(o)
  /\ UNCHANGED <<main, bucket, pushes>>

UploadPreview ==
  /\ At("publish")
  /\ \/ Go("send_ready") /\ bucket' = [bucket EXCEPT !.previews[x.cur] = x.image[x.cur]]
     \/ x' = Telling({x.cur}, [x EXCEPT !.pc = "check"]) /\ UNCHANGED bucket
  /\ UNCHANGED <<main, pushes>>

(* slide_preview_ready; when it raises the slide is reported as failed.    *)
SendReady ==
  /\ At("send_ready")
  /\ LET o == x.cur
         new == [main EXCEPT !.rows[o].status = "completed", !.rows[o].fills = x.text[o]]
     IN \/ Heard(new, [x EXCEPT !.pc = "check", !.out[o] = "ready"])
        \/ Raises(new, Telling({o}, [x EXCEPT !.pc = "check"]))
  /\ UNCHANGED <<bucket, pushes>>

(* slide_preview_error *)
TellError ==
  /\ At("tell")
  /\ LET o == Smallest(x.tell)
         new == [main EXCEPT !.rows[o].status = "error"]
         told == [x EXCEPT !.out[o] = "error", !.tell = @ \ {o},
                           !.pc = IF x.tell = {o} THEN x.then ELSE "tell"]
     IN Heard(new, told) \/ Raises(new, Idle)
  /\ UNCHANGED <<bucket, pushes>>

NextRound ==
  /\ At("check") /\ x.check = {}
  /\ x' = IF x.failed # {} /\ x.round < MaxFixes
          THEN [x EXCEPT !.pc = "fix", !.round = @ + 1, !.check = x.failed,
                         !.failed = {}, !.fixed = {}]
          ELSE Telling(x.failed, [x EXCEPT !.pc = "count"])
  /\ UNCHANGED <<main, bucket, pushes>>

FixedFile(o) == x.reg[o]

(* The fix is not held against the slide's shapes: what the page does not   *)
(* know is skipped there, and is in the fills all the same.                *)
Applied(t) == {t, Partly(t)}

Fixed(o, page) == [Seen(o) EXCEPT !.fixed = @ \cup {o}, !.text[o] = Edit(@),
                                  !.deck[FixedFile(o)] = page]

(* The file of the row, not of the plan.  A fix that fails leaves the slide *)
(* to the next round; a file that is not there ends the job.               *)
ApplyFix ==
  /\ At("fix") /\ x.check # {}
  /\ LET o == Smallest(x.check) IN
       \/ FixedFile(o) \notin DOMAIN x.deck /\ Fatal
       \/ /\ FixedFile(o) \in DOMAIN x.deck
          /\ (\E page \in Applied(Edit(x.text[o])) : x' = Fixed(o, page)) \/ HasIssues(o)
          /\ UNCHANGED main
  /\ UNCHANGED <<bucket, pushes>>

(* A deck that cannot be packed fails the slides fixed in this round; the   *)
(* deck of the round before stays.                                         *)
PackFixed ==
  /\ At("fix") /\ x.check = {}
  /\ \/ x.fixed = {} /\ Go("check")
     \/ x.fixed # {} /\ x' = [x EXCEPT !.pc = "render_fixed", !.repaired = Pages]
     \/ x.fixed # {} /\ x' = Telling(x.fixed, [x EXCEPT !.pc = "check"])
  /\ UNCHANGED <<main, bucket, pushes>>

(* The rendering may fail or lack pages.                                   *)
RenderFixed ==
  /\ At("render_fixed")
  /\ \E missing \in SUBSET x.fixed :
       x' = Telling(missing,
              [x EXCEPT !.pc = "check", !.check = x.fixed \ missing,
                        !.image = [o \in Planned |-> IF o \in x.fixed \ missing
                                                     THEN Rendered(x.repaired)[o] ELSE @[o]]])
  /\ UNCHANGED <<main, bucket, pushes>>

-----------------------------------------------------------------------------
(* The result *)

(* A plausible error: the slides that have contents are counted.           *)
WithContents == Ready

Completed == {o \in Planned : x.out[o] = "ready"}

CountOutcomes ==
  /\ At("count")
  /\ IF Completed = {} THEN Fatal
     ELSE /\ x' = [x EXCEPT !.pc = IF x.repaired = <<>> THEN "upload" ELSE "render_final",
                            !.done = Cardinality(Completed)]
          /\ UNCHANGED main
  /\ UNCHANGED <<bucket, pushes>>

(* A repaired deck is rendered once more, for its PDF.                     *)
RenderFinal ==
  /\ At("render_final")
  /\ Fatal \/ (Go("upload") /\ UNCHANGED main)
  /\ UNCHANGED <<bucket, pushes>>

(* A plausible error: the deck of the first rendering is stored.           *)
FirstDeck == x.output

FinalDeck == IF x.repaired = <<>> THEN x.output ELSE x.repaired

UploadPptx ==
  /\ At("upload")
  /\ \/ Go("upload_pdf") /\ bucket' = [bucket EXCEPT !.pptx = FinalDeck] /\ UNCHANGED main
     \/ Fatal /\ UNCHANGED bucket
  /\ UNCHANGED pushes

UploadPdf ==
  /\ At("upload_pdf")
  /\ \/ /\ bucket' = [bucket EXCEPT !.pdf = FinalDeck]
        /\ x' = [x EXCEPT !.pc = "report", !.stored = TRUE] /\ UNCHANGED main
     \/ Fatal /\ UNCHANGED bucket
  /\ UNCHANGED pushes

JobStatus ==
  IF x.done = 0 THEN "error"
  ELSE IF x.done = Len(x.plan) THEN "completed" ELSE "partial_error"

(* all_completed: heard, the task is done with; else it is pushed again.   *)
AllCompleted ==
  /\ At("report")
  /\ LET new == [main EXCEPT !.job = JobStatus, !.key = x.stored] IN
       \/ Heard(new, Idle) /\ pushes' = 0
       \/ Raises(new, Idle) /\ UNCHANGED pushes
  /\ UNCHANGED bucket

InProgress == {"pending", "generating"}

(* The main server's clock, when nothing was heard of the job for long:     *)
(* slides in progress fail and the job gets the status its slides give it.  *)
HealStuck ==
  /\ At("idle") /\ pushes = 0
  /\ LET rows == [o \in DOMAIN main.rows |->
                    IF main.rows[o].status \in InProgress
                    THEN [main.rows[o] EXCEPT !.status = "error"] ELSE main.rows[o]]
         done == {o \in DOMAIN rows : rows[o].status = "completed"}
         job == IF done = {} THEN "error"
                ELSE IF done = DOMAIN rows THEN "completed" ELSE "partial_error"
     IN /\ main' = [main EXCEPT !.rows = rows,
                                !.job = IF @ = "generating" THEN job ELSE @]
        /\ main' # main
  /\ UNCHANGED <<bucket, x, pushes>>

Content ==
  \E o \in Order :
    \/ CreateFills(o) \/ Preflight(o) \/ ReviseFills(o) \/ ApplyFills(o)
    \/ ClearContent(o) \/ TellContent(o)

Next ==
  \/ Push \/ Skip \/ Crash \/ HealStuck
  \/ CreatePlan \/ SubmitPlan \/ PrepareDeck \/ Content
  \/ PackDeck \/ RenderDeck
  \/ (\E o \in Order : CheckSlide(o)) \/ UploadPreview \/ SendReady \/ TellError
  \/ NextRound \/ ApplyFix \/ PackFixed \/ RenderFixed
  \/ CountOutcomes \/ RenderFinal \/ UploadPptx \/ UploadPdf \/ AllCompleted

Spec == Init /\ [][Next]_vars

-----------------------------------------------------------------------------
(* Properties *)

(* The rows name the files of the stored deck's pages.                     *)
SameFiles ==
  Len(bucket.pptx) = Len(main.rows) /\
  \A o \in DOMAIN main.rows : bucket.pptx[o].file = main.rows[o].file

(* A slide the user is told is completed is the same in its preview, the    *)
(* stored deck and the PDF, and its fills are the ones last applied to that
   page, whatever the page took of them: however many fixes, lost callbacks,
   executions and failed packings lie behind it, as long as every execution
   planned the files the rows name.                                        *)
ReadyIsInDeck ==
  main.key /\ SameFiles =>
    \A o \in DOMAIN main.rows :
      main.rows[o].status = "completed" =>
        /\ bucket.pptx[o].text \in Applied(main.rows[o].fills)
        /\ bucket.previews[o] = bucket.pptx[o].text
        /\ bucket.pdf[o].text = bucket.pptx[o].text

(* A completed slide's fills are what its page shows, as the table of the   *)
(* rows has it: they are the contents now applied.  The fixer's answer is
   recorded unchecked, and this fails.                                     *)
FillsAreShown ==
  main.key /\ SameFiles =>
    \A o \in DOMAIN main.rows :
      main.rows[o].status = "completed" => bucket.pptx[o].text = main.rows[o].fills

(* The job's verdict is the one its slides give, although the worker counts
   its own outcomes and the main server what it heard.                     *)
VerdictAgrees ==
  LET done == {o \in DOMAIN main.rows : main.rows[o].status = "completed"} IN
  /\ main.job = "completed" => done = DOMAIN main.rows /\ done # {}
  /\ main.job = "partial_error" => done # {} /\ done # DOMAIN main.rows

(* No page of a deck handed to the user shows the template's samples.      *)
NoSampleText ==
  main.key => \A o \in DOMAIN bucket.pptx : bucket.pptx[o].text # Sample
=============================================================================
