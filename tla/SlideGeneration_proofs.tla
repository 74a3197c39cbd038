------------------------ MODULE SlideGeneration_proofs ------------------------
(***************************************************************************)
(* Proofs about SlideGeneration, for any template and any bounds.          *)
(***************************************************************************)
EXTENDS SlideGeneration, SequenceTheorems, FiniteSetTheorems, WellFoundedInduction, TLAPS

-----------------------------------------------------------------------------
(* The inductive invariant *)

Fields == {"pc", "plan", "reg", "deck", "stage", "text", "image", "out", "output", "repaired",
           "check", "cur", "failed", "fixed", "tell", "then", "round", "done", "stored"}

Texts == Nat \X Nat \X Nat

Row == [file : File, status : {"pending", "generating", "completed", "error"}, fills : Texts]

Rows == Seq(Row)

Before == {"idle", "plan", "submit", "prepare", "contents", "render"}

Looking == {"check", "publish", "send_ready", "tell", "fix", "render_fixed"}

(* An execution whose deck is packed, and one that has a working deck.     *)
Deck == x.pc \in {"render", "count", "render_final", "upload", "upload_pdf"} \cup Looking
        \/ x.stored

Underway == At("contents") \/ Deck

Places == {"idle", "plan", "submit", "prepare", "contents", "render", "count", "render_final",
           "upload", "upload_pdf", "report"} \cup Looking

(* What the parts of the state are made of.                                *)
Typed ==
  /\ DOMAIN main = {"job", "key", "rows"} /\ main.rows \in Rows
  /\ DOMAIN bucket = {"pptx", "pdf", "previews"} /\ DOMAIN bucket.previews = Order
  /\ pushes \in Nat
  /\ DOMAIN x = Fields /\ x.pc \in Places
  /\ x.stored \in BOOLEAN

(* Only a job that is not over is executed.                                *)
Running ==
  /\ x.stored => At("report")
  /\ ~At("idle") => main.job = "generating"
  /\ main.key => main.job # "generating"

(* The rows are the plan's, at least in their number.                      *)
Registering ==
  /\ At("submit") \/ At("prepare") \/ Underway => x.plan \in Plans
  /\ At("prepare") \/ Underway =>
       Len(main.rows) = Len(x.plan) /\ \A o \in Planned : x.reg[o] = main.rows[o].file

(* Every slide of the plan has its place in what the execution keeps.      *)
Working ==
  /\ Underway =>
       /\ DOMAIN x.deck = FilesOf(x.plan) /\ DOMAIN x.stage = Planned
       /\ DOMAIN x.text = Planned /\ DOMAIN x.image = Planned /\ DOMAIN x.out = Planned
       /\ \A o \in Planned : x.text[o] \in Texts
  /\ Deck =>
       /\ DOMAIN x.output = Planned
       /\ x.repaired = <<>> \/ DOMAIN x.repaired = Planned
       /\ \A o \in Planned : x.stage[o] \in {"told_ready", "told_failed"}
  /\ ~Deck \/ At("render") => x.repaired = <<>>

Shape == Typed /\ Running /\ Registering /\ Working

Filled == {"ready", "failed", "told_ready", "told_failed"}

(* A deck's pages as they are: of the plan's files, none a sample.         *)
Clean(deck) == \A o \in DOMAIN deck : deck[o].text # Sample

(* A slide with its contents in the deck, or cleared, is no sample.        *)
Cleared ==
  /\ Underway =>
       \A o \in Planned :
         /\ x.stage[o] \in {"fit", "fit_again", "revise", "apply", "ready", "told_ready"} =>
              x.text[o][2] = o
         /\ x.stage[o] \in Filled => x.deck[x.plan[o]] # Sample
  /\ Deck => Clean(x.output) /\ Clean(x.repaired)
  /\ At("upload_pdf") \/ x.stored => Clean(bucket.pptx)

(* What the worker counts is what the main server has heard.               *)
Counted ==
  /\ At("contents") \/ At("render") => \A o \in Planned : x.out[o] = "none"
  /\ At("contents") =>
       \A o \in Planned :
         x.stage[o] \in {"told_ready", "told_failed"} => main.rows[o].status # "completed"
  /\ Deck =>
       \A o \in Planned : \/ x.out[o] = "ready" <=> main.rows[o].status = "completed"
                          \/ At("tell") /\ o \in x.tell
  /\ Deck => \A o \in Planned : x.out[o] = "ready" => o \in Ready
  /\ ~At("tell") => x.tell = {}
  /\ At("tell") => x.tell # {} /\ x.then \in {"check", "count"} /\ x.tell \subseteq Planned
  /\ At("publish") \/ At("send_ready") => x.cur \in Ready
  /\ x.pc \in Looking =>
       x.check \subseteq Ready /\ x.failed \subseteq Ready /\ x.fixed \subseteq Ready
  /\ x.pc \in {"render_final", "upload", "upload_pdf"} \/ x.stored =>
       Completed # {} /\ x.done = Cardinality(Completed)
  /\ At("report") /\ ~x.stored => x.done = 0

(* The files the rows name are the plan's.                                 *)
SamePlan == \A o \in Planned : x.reg[o] = x.plan[o]

(* The page of a slide in the deck to be stored: what could be applied of   *)
(* the slide's contents, and the same in the working deck.                 *)
Page(o) == FinalDeck[o].text
Same(o) == x.deck[x.plan[o]] = Page(o) /\ Page(o) \in Applied(x.text[o])

(* The slides that are still to be looked at or repaired, each in one set.  *)
Apart ==
  /\ x.pc \in Before => x.failed = {} /\ x.fixed = {}
  /\ x.pc \in Looking /\ (At("tell") => x.then = "check") =>
       /\ \A o \in x.check \cup x.failed : x.out[o] = "none"
       /\ x.check \cap x.failed = {}
  /\ At("publish") \/ At("send_ready") =>
       x.out[x.cur] = "none" /\ x.cur \notin x.check \cup x.failed
  /\ At("tell") /\ x.then = "check" => x.tell \cap (x.check \cup x.failed) = {}
  /\ At("fix") \/ At("render_fixed") =>
       /\ x.fixed \cap (x.check \cup x.failed) = {}
       /\ \A o \in x.fixed : x.out[o] = "none"
  /\ At("render_fixed") => x.check = {}

(* A packed deck has the plan's files, the working deck the contents.      *)
Laid ==
  /\ Deck => \A o \in Planned : /\ x.output[o].file = x.plan[o]
                                /\ x.repaired # <<>> => x.repaired[o].file = x.plan[o]
  /\ Underway /\ SamePlan =>
       \A o \in Planned :
         x.stage[o] \in {"ready", "told_ready"} => x.deck[x.plan[o]] \in Applied(x.text[o])

(* A ready slide is the same wherever it is kept, and a slide still to be
   looked at is seen as it would be kept.                                  *)
Kept ==
  /\ Laid
  /\ Deck /\ SamePlan =>
       \A o \in Planned : x.out[o] = "ready" =>
         Same(o) /\ main.rows[o].fills = x.text[o] /\ bucket.previews[o] = Page(o)
  /\ At("render") /\ SamePlan => \A o \in Ready : Same(o)
  /\ x.pc \in {"check", "publish", "send_ready", "tell"} /\ SamePlan =>
       \A o \in x.check : Same(o) /\ x.image[o] = Page(o)
  /\ (At("publish") \/ At("send_ready")) /\ SamePlan =>
       Same(x.cur) /\ x.image[x.cur] = Page(x.cur)
  /\ At("send_ready") => bucket.previews[x.cur] = x.image[x.cur]
  /\ At("render_fixed") /\ SamePlan => \A o \in x.fixed : Same(o)
  /\ At("render_fixed") => x.repaired # <<>>
  /\ At("upload_pdf") => bucket.pptx = FinalDeck
  /\ x.stored => bucket.pptx = FinalDeck /\ bucket.pdf = FinalDeck

Inner == Shape /\ Cleared /\ Counted /\ Apart /\ Kept

Inv == Inner /\ NoSampleText /\ VerdictAgrees /\ ReadyIsInDeck

-----------------------------------------------------------------------------
(* Lemmas about the data *)

(* A plan is a sequence of distinct files, with a slide in it.             *)
LEMMA PlanShape ==
  ASSUME NEW p \in Plans
  PROVE  /\ Len(p) \in Nat \ {0} /\ Len(p) <= MaxSlides /\ DOMAIN p = 1..Len(p)
         /\ p \in [1..Len(p) -> File]
         /\ \A o, q \in DOMAIN p : p[o] = p[q] => o = q
<1>1. PICK k \in Order : p \in [1..k -> File]
  BY DEF Plans
<1>2. k \in Nat \ {0} /\ k <= MaxSlides /\ p \in Seq(File) /\ Valid(p)
  BY <1>1, BoundAssumption DEF Order, Plans
<1>3. Len(p) = k /\ DOMAIN p = 1..k
  BY <1>1, <1>2, LenProperties
<1>4. p \in Surjection(1..k, FilesOf(p))
  BY <1>1 DEF Surjection, FilesOf
<1>5. Cardinality(FilesOf(p)) = Cardinality(1..k) /\ IsFiniteSet(1..k)
  BY <1>2, <1>3, FS_Interval DEF Valid
<1>6. p \in Injection(1..k, FilesOf(p))
  BY <1>4, <1>5, FS_Surjection
<1>7. QED
  BY <1>1, <1>2, <1>3, <1>6 DEF Injection, IsInjective

(* Slides are repaired and reported in their order.                        *)
LEMMA SmallestOf ==
  ASSUME NEW S \in SUBSET Nat, S # {}
  PROVE  Smallest(S) \in S
<1> DEFINE R == {ss \in Nat \X Nat : ss[1] < ss[2]}
<1>1. IsWellFoundedOn(R, Nat)
  BY NatLessThanWellFounded, Zenon DEF OpToRel
<1> HIDE DEF R
<1>2. PICK o \in S : \A p \in S : ~(<<p, o>> \in R)
  BY <1>1, WFMin, Zenon
<1>3. \A p \in S : o <= p
  <2> TAKE p \in S
  <2>1. o \in Nat /\ p \in Nat /\ ~(<<p, o>> \in R)
    BY <1>2
  <2>2. ~(p < o)
    BY <2>1, Zenon DEF R
  <2>3. QED
    BY <2>1, <2>2
<1>4. QED
  BY <1>3 DEF Smallest

(* The texts the model makes, edits and clears.                            *)
LEMMA TextsMade ==
  /\ Sample \in Texts /\ Blank \in Texts /\ Absent \in Texts /\ Blank # Sample
  /\ \A t \in Texts : Edit(t) \in Texts /\ Edit(t)[2] = t[2]
  /\ \A t \in Texts : t[2] # 0 => t # Sample /\ Partly(t) # Sample
  /\ pushes \in Nat => \A o \in Nat : FirstText(o) \in Texts /\ FirstText(o)[2] = o
BY DEF Texts, Sample, Blank, Absent, Edit, Partly, FirstText

(* The rows of a job are rows.                                             *)
LEMMA RowsMade ==
  ASSUME main.rows \in Rows
  PROVE  /\ Len(main.rows) \in Nat /\ DOMAIN main.rows = 1..Len(main.rows)
         /\ \A o \in DOMAIN main.rows : main.rows[o] \in Row
         /\ \A o \in DOMAIN main.rows : /\ DOMAIN main.rows[o] = {"file", "status", "fills"}
                                        /\ main.rows[o].file \in File
<1>1. main.rows \in Seq(Row) /\ Len(main.rows) \in Nat /\ DOMAIN main.rows = 1..Len(main.rows)
  BY LenProperties DEF Rows, Row
<1>2. \A o \in DOMAIN main.rows : main.rows[o] \in Row
  BY <1>1, ElementOfSeq
<1>3. QED
  BY <1>1, <1>2 DEF Row

(* A callback changes one row, in its status and perhaps its fills.        *)
RowSet(o, s) == [main EXCEPT !.rows[o].status = s]
RowFilled(o, s, t) == [main EXCEPT !.rows[o].status = s, !.rows[o].fills = t]

RowChanged(m, o, s) ==
  /\ DOMAIN m = {"job", "key", "rows"} /\ m.job = main.job /\ m.key = main.key
  /\ m.rows \in Rows /\ Len(m.rows) = Len(main.rows) /\ DOMAIN m.rows = DOMAIN main.rows
  /\ \A q \in DOMAIN main.rows : m.rows[q].file = main.rows[q].file
  /\ \A q \in DOMAIN main.rows : q # o => m.rows[q] = main.rows[q]
  /\ m.rows[o].status = s

(* A callback on a slide changes that slide's row and no other.            *)
LEMMA RowChange ==
  ASSUME Typed, NEW o \in DOMAIN main.rows,
         NEW s \in {"pending", "generating", "completed", "error"}, NEW t \in Texts
  PROVE  /\ RowChanged(RowSet(o, s), o, s) /\ RowChanged(RowFilled(o, s, t), o, s)
         /\ RowFilled(o, s, t).rows[o].fills = t
<1>1. /\ main.rows \in Seq(Row) /\ DOMAIN main = {"job", "key", "rows"}
      /\ o \in 1..Len(main.rows) /\ main.rows[o] \in Row
  BY RowsMade DEF Typed, Rows, Row
<1> DEFINE r1 == [main.rows[o] EXCEPT !.status = s]
           r2 == [main.rows[o] EXCEPT !.status = s, !.fills = t]
<1>2. /\ r1 \in Row /\ r1.file = main.rows[o].file /\ r1.status = s
      /\ r2 \in Row /\ r2.file = main.rows[o].file /\ r2.status = s /\ r2.fills = t
  BY <1>1 DEF Row
<1>3. /\ RowSet(o, s) = [main EXCEPT !.rows = [main.rows EXCEPT ![o] = r1]]
      /\ RowFilled(o, s, t) = [main EXCEPT !.rows = [main.rows EXCEPT ![o] = r2]]
  BY <1>1 DEF Row, RowSet, RowFilled
<1> HIDE DEF r1, r2
<1>4. ASSUME NEW r \in Row, NEW m, m = [main EXCEPT !.rows = [main.rows EXCEPT ![o] = r]],
             r.file = main.rows[o].file, r.status = s
      PROVE  RowChanged(m, o, s) /\ m.rows[o] = r
  <2>1. /\ m.rows = [main.rows EXCEPT ![o] = r] /\ m.job = main.job /\ m.key = main.key
        /\ DOMAIN m = {"job", "key", "rows"}
    BY <1>1, <1>4
  <2>2. m.rows \in Rows /\ Len(m.rows) = Len(main.rows) /\ m.rows[o] = r
        /\ DOMAIN m.rows = DOMAIN main.rows
    BY <1>1, <2>1, ExceptSeq DEF Rows
  <2>3. QED
    BY <1>4, <2>1, <2>2 DEF RowChanged
<1>5. QED
  BY <1>2, <1>3, <1>4

-----------------------------------------------------------------------------
(* The invariant is kept, step by step *)

(* An execution that breaks off leaves nothing behind but the job's rows
   and what it has put in the bucket.                                      *)
LEMMA BreaksOff ==
  ASSUME Inner, x' \in {Idle, [Idle EXCEPT !.pc = "report"]}, pushes' \in Nat,
         DOMAIN main' = {"job", "key", "rows"}, main'.rows \in Rows,
         main'.key => main'.job # "generating",
         x' # Idle => main'.job = "generating",
         DOMAIN bucket' = {"pptx", "pdf", "previews"}, DOMAIN bucket'.previews = Order
  PROVE  Inner'
<1> DEFINE where == IF x' = Idle THEN "idle" ELSE "report"
<1>1. /\ DOMAIN x' = Fields /\ x'.pc = where /\ x'.stored = FALSE /\ x'.repaired = <<>>
      /\ x'.tell = {}
      /\ x'.failed = {} /\ x'.fixed = {}
      /\ x'.done = 0
  BY DEF Idle, Fields
<1>2. Shape'
  BY <1>1 DEF Inner, Shape, Typed, Running, Registering, Working, At, Underway, Deck,
     Looking, Places
<1>3. Cleared'
  BY <1>1 DEF Cleared, At, Underway, Deck, Looking
<1>4. Counted'
  BY <1>1 DEF Counted, At, Deck, Looking
<1>5. Apart'
  BY <1>1 DEF Apart, At, Looking, Before
<1>6. Kept'
  BY <1>1 DEF Kept, Laid, At, Underway, Deck, Looking
<1>7. QED
  BY <1>2, <1>3, <1>4, <1>5, <1>6 DEF Inner

(* So it does when it breaks off without a word.                           *)
LEMMA BreaksOffSilently ==
  ASSUME Inner, x' = Idle \/ (x' = [Idle EXCEPT !.pc = "report"] /\ ~At("idle")),
         UNCHANGED <<main, bucket, pushes>>
  PROVE  Inner'
BY BreaksOff DEF Inner, Shape, Typed, Running, Registering, Working

(* The task, the plan and the working deck.                                *)
LEMMA PushStep == ASSUME Inner, Push PROVE Inner'
<1>1. pushes' \in Nat /\ main' = main /\ bucket' = bucket /\ At("idle")
  BY DEF Push, Inner, Shape, Typed
<1>2. \E where \in {"plan", "idle"} : x' = [x EXCEPT !.pc = where]
  BY DEF Push, Go
<1>3. main.job = "generating"
  BY DEF Push
<1>4. QED
  BY <1>1, <1>2, <1>3 DEF Inner, Shape, Typed, Running, Registering, Working, Cleared,
     Counted, Apart, Before, Kept, Laid, At, Underway, Deck, Looking,
     Places, Fields

(* The plan is made anew in each execution.                                *)
LEMMA PlanStep == ASSUME Inner, CreatePlan PROVE Inner'
<1>1. CASE Fatal
  BY <1>1, BreaksOffSilently DEF CreatePlan, Fatal, At
<1>2. CASE \E p \in Plans : x' = [x EXCEPT !.pc = "submit", !.plan = p] /\ UNCHANGED main
  <2>1. PICK p \in Plans : x' = [x EXCEPT !.pc = "submit", !.plan = p] /\ UNCHANGED main
    BY <1>2
  <2>2. UNCHANGED <<main, bucket, pushes>> /\ At("plan")
    BY <2>1 DEF CreatePlan
  <2>3. QED
    BY <2>1, <2>2 DEF Inner, Shape, Typed, Running, Registering, Working, Cleared, Counted,
       Apart, Before, Kept, Laid, At, Underway, Deck, Looking,
       Places, Fields
<1>3. QED
  BY <1>1, <1>2 DEF CreatePlan

(* The rows inserted are the plan's; rows there already stay.              *)
LEMMA InsertedMade ==
  ASSUME main.rows \in Rows, NEW p \in Plans
  PROVE  Inserted(p) \in Rows
<1> DEFINE n == IF Len(p) > Len(main.rows) THEN Len(p) - Len(main.rows) ELSE 0
           more == [i \in 1..n |->
                      [file |-> p[Len(main.rows) + i], status |-> "pending", fills |-> Absent]]
<1>1. Len(main.rows) \in Nat /\ Len(p) \in Nat /\ p \in [1..Len(p) -> File]
  BY PlanShape, RowsMade
<1>2. n \in Nat /\ \A i \in 1..n : Len(main.rows) + i \in 1..Len(p)
  BY <1>1
<1>3. more \in Seq(Row)
  <2>1. \A i \in 1..n : p[Len(main.rows) + i] \in File
    BY <1>1, <1>2
  <2>2. \A i \in 1..n :
          [file |-> p[Len(main.rows) + i], status |-> "pending", fills |-> Absent] \in Row
    BY <2>1, TextsMade DEF Row
  <2>3. more \in [1..n -> Row]
    BY <2>2
  <2> HIDE DEF more, n
  <2>4. QED
    BY <1>2, <2>3
<1>4. main.rows \o more \in Seq(Row)
  BY <1>3, ConcatProperties DEF Rows
<1>5. QED
  BY <1>4 DEF Inserted, Rows

(* The rows answered are the plan's in number, or the execution ends.      *)
LEMMA SubmitStep == ASSUME Inner, SubmitPlan PROVE Inner'
<1> DEFINE new == [main EXCEPT !.rows = Inserted(x.plan)]
<1>1. /\ UNCHANGED <<bucket, pushes>> /\ At("submit") /\ x.plan \in Plans
      /\ DOMAIN main = {"job", "key", "rows"}
  BY DEF SubmitPlan, Inner, Shape, Typed, Registering, At
<1>2. new.rows \in Rows /\ DOMAIN new = {"job", "key", "rows"} /\ new.job = main.job
      /\ new.key = main.key /\ main.job = "generating" /\ ~main.key
  BY <1>1, InsertedMade DEF Inner, Shape, Typed, Running, Registering, Working, At
<1> HIDE DEF new
<1>3. CASE Raises(new, Idle) \/ Heard(new, [Idle EXCEPT !.pc = "report"])
  <2>1. main' \in {main, new} /\ x' \in {Idle, [Idle EXCEPT !.pc = "report"]}
    BY <1>3 DEF Raises, Heard
  <2>2. QED
    BY <1>1, <1>2, <2>1, BreaksOff DEF Inner, Shape, Typed, Running, Registering, Working
<1>4. CASE /\ Len(new.rows) = Len(x.plan)
           /\ Heard(new, [x EXCEPT !.pc = "prepare", !.reg = Registered(new.rows)])
  <2>1. /\ main' = new /\ x' = [x EXCEPT !.pc = "prepare", !.reg = Registered(new.rows)]
        /\ Len(new.rows) = Len(x.plan)
    BY <1>4 DEF Heard
  <2>2. DOMAIN new.rows = DOMAIN x.plan
    BY <1>1, <1>2, <2>1, PlanShape, LenProperties DEF Rows
  <2>3. QED
    BY <1>1, <1>2, <2>1, <2>2 DEF Inner, Shape, Typed, Running, Registering, Working,
       Cleared, Counted, Apart, Before, Kept, Laid, At, Underway, Deck,
       Looking, Places, Fields, Registered, Planned
<1>5. QED
  BY <1>3, <1>4 DEF SubmitPlan, new

(* The working deck starts with the template's samples.                    *)
LEMMA PrepareStep == ASSUME Inner, PrepareDeck PROVE Inner'
<1>1. CASE Fatal
  BY <1>1, BreaksOffSilently DEF PrepareDeck, Fatal, At
<1>2. CASE ~Fatal
  <2>1. /\ x' = [x EXCEPT !.pc = "contents", !.deck = [f \in FilesOf(x.plan) |-> Sample],
                          !.stage = [o \in Planned |-> "ask"],
                          !.text = [o \in Planned |-> Absent],
                          !.image = [o \in Planned |-> Absent],
                          !.out = [o \in Planned |-> "none"]]
        /\ UNCHANGED <<main, bucket, pushes>> /\ At("prepare")
    BY <1>2 DEF PrepareDeck
  <2>2. /\ DOMAIN x' = Fields /\ x'.pc = "contents" /\ x'.plan = x.plan /\ x'.reg = x.reg
        /\ x'.deck = [f \in FilesOf(x.plan) |-> Sample]
        /\ x'.stage = [o \in Planned |-> "ask"] /\ x'.text = [o \in Planned |-> Absent]
        /\ x'.image = [o \in Planned |-> Absent] /\ x'.out = [o \in Planned |-> "none"]
        /\ x'.repaired = <<>> /\ x'.tell = {} /\ x'.stored = FALSE /\ x'.failed = {}
        /\ x'.fixed = {}
    BY <2>1 DEF Inner, Shape, Typed, Running, Registering, Working, Counted, Apart, Before,
       Fields, At, Deck, Looking
  <2>3. Shape'
    BY <2>1, <2>2, TextsMade DEF Inner, Shape, Typed, Running, Registering, Working, At,
       Underway, Deck, Looking, Places, Planned
  <2>4. Cleared'
    BY <2>1, <2>2 DEF Inner, Cleared, At, Underway, Deck, Looking, Planned, Filled
  <2>5. Counted'
    BY <2>1, <2>2 DEF Inner, Counted, At, Deck, Looking, Planned
  <2>6. Apart' /\ Kept'
    BY <2>1, <2>2 DEF Inner, Apart, Before, Kept, Laid, At, Underway, Deck, Looking, Planned
  <2>7. QED
    BY <2>3, <2>4, <2>5, <2>6 DEF Inner
<1>3. QED
  BY <1>1, <1>2

(* A step of a slide's contents: the texts are the slide's own.            *)
Writes(o, stage, text) ==
  /\ At("contents") /\ o \in Planned /\ x.stage[o] \notin Filled
  /\ Then(o, stage, text)
  /\ stage \in {"ask_again", "fit", "fit_again", "revise", "apply", "clear"} /\ text \in Texts
  /\ stage \in {"fit", "fit_again", "revise", "apply"} => text[2] = o

(* Asking, fitting and revising write a slide's own text.                  *)
LEMMA Writing ==
  ASSUME Inner, NEW o \in Order, CreateFills(o) \/ Preflight(o) \/ ReviseFills(o)
  PROVE  \E stage, text : Writes(o, stage, text)
<1>1. At("contents") /\ o \in Planned /\ x.stage[o] \notin Filled
  BY DEF CreateFills, Preflight, ReviseFills, Stage, Filled
<1>2. /\ x.text[o] \in Texts /\ o \in Nat /\ pushes \in Nat
      /\ x.stage[o] \in {"fit", "fit_again", "revise", "apply"} => x.text[o][2] = o
  BY <1>1 DEF Inner, Shape, Typed, Running, Registering, Working, Cleared, Underway, Order
<1>3. /\ FirstText(o) \in Texts /\ FirstText(o)[2] = o
      /\ Edit(x.text[o]) \in Texts /\ Edit(x.text[o])[2] = x.text[o][2]
  BY <1>2, TextsMade
<1>4. CASE CreateFills(o)
  <2>1. \/ Then(o, "fit", FirstText(o)) \/ Then(o, "clear", x.text[o])
        \/ Then(o, "ask_again", x.text[o])
    BY <1>4 DEF CreateFills, Refused
  <2>2. QED
    BY <1>1, <1>2, <1>3, <2>1 DEF Writes
<1>5. CASE Preflight(o)
  <2>1. \/ x.stage[o] \in {"fit", "fit_again"} /\ Then(o, "apply", x.text[o])
        \/ x.stage[o] = "fit" /\ Then(o, "revise", x.text[o])
        \/ x.stage[o] = "fit_again" /\ Then(o, "apply", Edit(x.text[o]))
        \/ Then(o, "clear", x.text[o])
    BY <1>5 DEF Preflight, Stage, CutText
  <2>2. QED
    BY <1>1, <1>2, <1>3, <2>1 DEF Writes
<1>6. CASE ReviseFills(o)
  <2>1. \/ x.stage[o] = "revise" /\ Then(o, "fit_again", Edit(x.text[o]))
        \/ Then(o, "clear", x.text[o])
    BY <1>6 DEF ReviseFills, Stage, Refused
  <2>2. QED
    BY <1>1, <1>2, <1>3, <2>1 DEF Writes
<1>7. QED
  BY <1>4, <1>5, <1>6

(* What the content steps leave alone.                                     *)
LEMMA ContentFrame ==
  ASSUME Inner, At("contents")
  PROVE  /\ DOMAIN x = Fields /\ x.pc = "contents" /\ x.plan \in Plans /\ x.repaired = <<>>
         /\ x.tell = {} /\ x.stored = FALSE /\ DOMAIN main.rows = Planned
         /\ x.failed = {} /\ x.fixed = {}
         /\ DOMAIN x.deck = FilesOf(x.plan) /\ DOMAIN x.stage = Planned
         /\ DOMAIN x.text = Planned
         /\ \A o \in Planned : x.plan[o] \in DOMAIN x.deck
<1>1. DOMAIN main.rows = 1..Len(x.plan) /\ DOMAIN x.plan = 1..Len(x.plan)
  BY PlanShape, RowsMade
     DEF Inner, Shape, Typed, Running, Registering, Working, At, Underway, Deck, Looking
<1>2. QED
  BY <1>1 DEF Inner, Shape, Typed, Running, Registering, Working, Counted, Apart, Before, At,
     Underway, Deck, Looking, Planned, FilesOf

(* Such a step leaves the deck and the other slides alone.                 *)
LEMMA WriteStep ==
  ASSUME Inner, NEW o, NEW stage, NEW text, Writes(o, stage, text)
  PROVE  Inner'
<1>1. /\ DOMAIN x' = Fields /\ x'.pc = "contents" /\ x'.plan = x.plan /\ x'.reg = x.reg
      /\ x'.deck = x.deck /\ x'.stage = [x.stage EXCEPT ![o] = stage]
      /\ x'.text = [x.text EXCEPT ![o] = text] /\ x'.image = x.image /\ x'.out = x.out
      /\ x'.repaired = <<>> /\ x'.tell = {} /\ x'.stored = FALSE /\ x'.failed = {}
      /\ x'.fixed = {}
      /\ UNCHANGED <<main, bucket, pushes>> /\ o \in Planned /\ At("contents")
  BY ContentFrame DEF Writes, Then, Fields
<1>0. /\ text \in Texts /\ x.stage[o] \notin Filled /\ stage \notin Filled
      /\ stage \in {"fit", "fit_again", "revise", "apply"} => text[2] = o
      /\ stage \notin {"ready", "told_ready"}
  BY DEF Writes, Filled
<1>8. /\ x'.stage[o] = stage /\ x'.text[o] = text
      /\ \A q \in Planned : q # o => x'.stage[q] = x.stage[q] /\ x'.text[q] = x.text[q]
  BY <1>1, ContentFrame
<1>2. Shape'
  <2>1. Typed'
    BY <1>0, <1>1, <1>8, ContentFrame DEF Inner, Shape, Typed, Places, Looking
  <2>2. Running'
    BY <1>0, <1>1, <1>8, ContentFrame DEF Inner, Shape, Running, At
  <2>3. Registering'
    BY <1>0, <1>1, <1>8, ContentFrame
       DEF Inner, Shape, Registering, At, Underway, Deck, Looking, Planned
  <2>4. Working'
    BY <1>0, <1>1, <1>8, ContentFrame
       DEF Inner, Shape, Working, At, Underway, Deck, Looking, Planned
  <2>5. QED
    BY <2>1, <2>2, <2>3, <2>4 DEF Shape
<1>3. Cleared'
  BY <1>0, <1>1, <1>8, ContentFrame DEF Inner, Cleared, At, Underway, Deck, Looking, Planned
<1>4. Counted'
  BY <1>1, ContentFrame DEF Writes, Inner, Counted, At, Deck, Looking, Planned
<1>5. Apart'
  BY <1>1 DEF Apart, At, Looking, Before
<1>6. Kept'
  BY <1>1, ContentFrame
     DEF Writes, Inner, Kept, Laid, At, Underway, Deck, Looking, Planned, SamePlan,
     Filled
<1>7. QED
  BY <1>2, <1>3, <1>4, <1>5, <1>6 DEF Inner

(* A slide's contents or nothing, in place of the template's samples.      *)
LEMMA FillStep ==
  ASSUME Inner, NEW o, ApplyFills(o) \/ ClearContent(o)
  PROVE  Inner'
<1>1. At("contents") /\ o \in Planned /\ x.stage[o] \in {"apply", "clear"}
      /\ UNCHANGED <<main, bucket, pushes>>
  BY DEF ApplyFills, ClearContent, Stage
<1>2. /\ x.text[o] \in Texts /\ o \in Nat \ {0}
      /\ x.stage[o] = "apply" => x.text[o][2] = o
  BY <1>1, ContentFrame, PlanShape
     DEF Inner, Shape, Typed, Running, Registering, Working, Cleared, At, Underway, Planned
<1>3. PICK stage \in {"ready", "clear", "failed"} :
        /\ x' = [x EXCEPT !.stage[o] = stage,
                          !.deck = IF stage = "ready" THEN [@ EXCEPT ![x.plan[o]] = x.text[o]]
                                   ELSE IF stage = "failed" THEN [@ EXCEPT ![x.plan[o]] = Blank]
                                   ELSE @]
        /\ stage = "ready" => x.stage[o] = "apply"
  <2>1. \/ /\ x' = [x EXCEPT !.stage[o] = "ready", !.deck[x.plan[o]] = x.text[o]]
           /\ x.stage[o] = "apply"
        \/ x' = [x EXCEPT !.stage[o] = "clear"]
        \/ x' = [x EXCEPT !.stage[o] = "failed", !.deck[x.plan[o]] = Blank]
    BY DEF ApplyFills, ClearContent, Stage
  <2>2. [x EXCEPT !.stage[o] = "clear"] = [x EXCEPT !.stage[o] = "clear", !.deck = @]
    BY <1>1, ContentFrame DEF Fields
  <2>3. QED
    BY <2>1, <2>2
<1> DEFINE page == IF stage = "ready" THEN x.text[o] ELSE Blank
<1>4. /\ DOMAIN x' = Fields /\ x'.pc = "contents" /\ x'.plan = x.plan /\ x'.reg = x.reg
      /\ stage = "clear" => x'.deck = x.deck
      /\ stage # "clear" => x'.deck = [x.deck EXCEPT ![x.plan[o]] = page]
      /\ x'.stage = [x.stage EXCEPT ![o] = stage]
      /\ x'.text = x.text /\ x'.image = x.image /\ x'.out = x.out
      /\ x'.repaired = <<>> /\ x'.tell = {} /\ x'.stored = FALSE /\ x'.failed = {}
      /\ x'.fixed = {}
  BY <1>1, <1>3, ContentFrame DEF Fields
<1>5. page # Sample
  BY <1>2, <1>3, TextsMade
<1> HIDE DEF page
<1>6. /\ DOMAIN x'.deck = DOMAIN x.deck /\ stage # "clear" => x'.deck[x.plan[o]] = page
      /\ \A q \in Planned : x.plan[q] # x.plan[o] => x'.deck[x.plan[q]] = x.deck[x.plan[q]]
  BY <1>1, <1>4, ContentFrame
<1>7. \A q \in Planned : x.plan[q] = x.plan[o] => q = o
  BY <1>1, ContentFrame, PlanShape DEF Planned
<1>8. Shape'
  <2>1. Typed'
    BY <1>1, <1>4, <1>6, ContentFrame DEF Inner, Shape, Typed, Places, Looking
  <2>2. Running'
    BY <1>1, <1>4, <1>6, ContentFrame DEF Inner, Shape, Running, At
  <2>3. Registering'
    BY <1>1, <1>4, <1>6, ContentFrame
       DEF Inner, Shape, Registering, At, Underway, Deck, Looking, Planned
  <2>4. Working'
    BY <1>1, <1>4, <1>6, ContentFrame
       DEF Inner, Shape, Working, At, Underway, Deck, Looking, Planned
  <2>5. QED
    BY <2>1, <2>2, <2>3, <2>4 DEF Shape
<1>9. Cleared'
  BY <1>1, <1>2, <1>3, <1>4, <1>5, <1>6, <1>7, ContentFrame
     DEF Inner, Cleared, At, Underway, Deck, Looking, Planned, Filled
<1>10. Counted'
  BY <1>1, <1>4, ContentFrame DEF Inner, Counted, At, Deck, Looking, Planned
<1>11. Apart'
  BY <1>4 DEF Apart, At, Looking, Before
<1>12. Kept'
  <2>1. SamePlan' <=> SamePlan
    BY <1>4 DEF SamePlan, Planned
  <2>2. stage = "ready" => page \in Applied(x.text[o])
    BY DEF page, Applied
  <2>3. QED
    BY <1>1, <1>3, <1>4, <1>6, <1>7, <2>1, <2>2, ContentFrame
       DEF Inner, Kept, Laid, At, Underway, Deck, Looking, Planned, Filled
<1>13. QED
  BY <1>8, <1>9, <1>10, <1>11, <1>12 DEF Inner

(* A slide told of has its row changed and is not completed.               *)
LEMMA TellContentStep ==
  ASSUME Inner, NEW o, TellContent(o)
  PROVE  Inner'
<1>1. At("contents") /\ o \in Planned /\ UNCHANGED <<bucket, pushes>>
  BY DEF TellContent, Stage
<1>2. PICK how, new :
        /\ how \in {"ready", "failed"}
        /\ x.stage[o] = how
        /\ new = IF how = "ready" THEN RowFilled(o, "generating", x.text[o])
                 ELSE RowSet(o, "error")
        /\ \/ Heard(new, [x EXCEPT !.stage[o] = IF how = "ready" THEN "told_ready"
                                                ELSE "told_failed"])
           \/ Raises(new, Idle)
  BY DEF TellContent, Stage, RowSet, RowFilled
<1>3. x.text[o] \in Texts /\ o \in DOMAIN main.rows /\ main.job = "generating" /\ ~main.key
  BY <1>1, ContentFrame DEF Inner, Shape, Typed, Running, Registering, Working, At, Underway
<1>4. \E s \in {"generating", "error"} : RowChanged(new, o, s)
  BY <1>2, <1>3, RowChange DEF Inner, Shape
<1>5. CASE Raises(new, Idle)
  BY <1>1, <1>3, <1>4, <1>5, BreaksOff
     DEF Raises, Inner, Shape, Typed, Running, RowChanged
<1>6. CASE Heard(new, [x EXCEPT !.stage[o] = IF how = "ready" THEN "told_ready"
                                             ELSE "told_failed"])
  <2> DEFINE told == IF how = "ready" THEN "told_ready" ELSE "told_failed"
  <2>1. /\ DOMAIN x' = Fields /\ x'.pc = "contents" /\ x'.plan = x.plan /\ x'.reg = x.reg
        /\ x'.deck = x.deck /\ x'.stage = [x.stage EXCEPT ![o] = told]
        /\ x'.text = x.text /\ x'.image = x.image /\ x'.out = x.out
        /\ x'.repaired = <<>> /\ x'.tell = {} /\ x'.stored = FALSE /\ x'.failed = {}
        /\ x'.fixed = {} /\ main' = new
    BY <1>1, <1>6, ContentFrame DEF Heard, Fields
  <2>0. /\ DOMAIN main' = {"job", "key", "rows"} /\ main'.job = main.job
        /\ main'.key = main.key
        /\ main'.rows \in Rows /\ Len(main'.rows) = Len(main.rows)
        /\ DOMAIN main'.rows = DOMAIN main.rows
        /\ \A q \in DOMAIN main.rows : main'.rows[q].file = main.rows[q].file
        /\ \A q \in DOMAIN main.rows : q # o => main'.rows[q] = main.rows[q]
        /\ main'.rows[o].status # "completed"
    BY <1>4, <2>1 DEF RowChanged
  <2>2. Shape'
    <3>1. Typed'
      BY <1>1, <1>3, <2>0, <2>1, ContentFrame DEF Inner, Shape, Typed, Places, Looking
    <3>2. Running'
      BY <1>1, <1>3, <2>0, <2>1, ContentFrame DEF Inner, Shape, Running, At
    <3>3. Registering'
      BY <1>1, <1>3, <2>0, <2>1, ContentFrame
         DEF Inner, Shape, Registering, At, Underway, Deck, Looking, Planned
    <3>4. Working'
      BY <1>1, <1>3, <2>0, <2>1, ContentFrame
         DEF Inner, Shape, Working, At, Underway, Deck, Looking, Planned
    <3>5. QED
      BY <3>1, <3>2, <3>3, <3>4 DEF Shape
  <2>3. Cleared'
    BY <1>1, <1>2, <2>1, ContentFrame
       DEF Inner, Cleared, At, Underway, Deck, Looking, Planned, Filled
  <2>8. \A q \in Planned : q # o => x'.stage[q] = x.stage[q]
    BY <1>1, <2>1, ContentFrame
  <2>4. Counted'
    <3>1. \A q \in Planned :
            /\ x'.out[q] = "none"
            /\ x'.stage[q] \in {"told_ready", "told_failed"} =>
                 main'.rows[q].status # "completed"
      <4> TAKE q \in Planned
      <4>1. /\ x.out[q] = "none" /\ q \in DOMAIN main.rows
            /\ x.stage[q] \in {"told_ready", "told_failed"} =>
                 main.rows[q].status # "completed"
        BY <1>1, ContentFrame DEF Inner, Counted
      <4>2. CASE q = o
        BY <2>0, <2>1, <4>1, <4>2
      <4>3. CASE q # o
        BY <2>0, <2>1, <2>8, <4>1, <4>3
      <4>4. QED
        BY <4>2, <4>3
    <3>2. QED
      BY <2>1, <3>1 DEF Counted, At, Deck, Looking, Planned
  <2>5. Apart'
    BY <2>1 DEF Apart, At, Looking, Before
  <2>6. Kept'
    BY <1>1, <1>2, <2>1, ContentFrame
       DEF Inner, Kept, Laid, At, Underway, Deck, Looking, Planned, SamePlan, Filled
  <2>7. QED
    BY <2>2, <2>3, <2>4, <2>5, <2>6 DEF Inner
<1>7. QED
  BY <1>2, <1>5, <1>6

(* What every state with a packed deck is made of.                         *)
LEMMA DeckFrame ==
  ASSUME Inner, Deck
  PROVE  /\ DOMAIN x = Fields /\ x.plan \in Plans /\ main.job = "generating" /\ ~main.key
         /\ Planned = 1..Len(x.plan) /\ Len(x.plan) \in Nat /\ Planned \subseteq Order
         /\ DOMAIN main.rows = Planned /\ pushes \in Nat
         /\ DOMAIN x.deck = FilesOf(x.plan) /\ DOMAIN x.stage = Planned
         /\ DOMAIN x.text = Planned
         /\ DOMAIN x.image = Planned /\ DOMAIN x.out = Planned /\ DOMAIN x.output = Planned
         /\ DOMAIN bucket.previews = Order /\ DOMAIN bucket = {"pptx", "pdf", "previews"}
         /\ \A o \in Planned : x.text[o] \in Texts /\ x.plan[o] \in DOMAIN x.deck
<1>1. x.plan \in Plans /\ DOMAIN main.rows = 1..Len(x.plan) /\ DOMAIN x.plan = 1..Len(x.plan)
      /\ Len(x.plan) \in Nat /\ Len(x.plan) <= MaxSlides
  BY PlanShape, RowsMade DEF Inner, Shape, Typed, Registering, Underway
<1>2. 1..Len(x.plan) \subseteq Order
  BY <1>1, BoundAssumption DEF Order
<1>3. main.job = "generating" /\ ~main.key
  BY DEF Inner, Shape, Running, Deck, At, Looking
<1>4. QED
  BY <1>1, <1>2, <1>3 DEF Inner, Shape, Typed, Working, Underway, Planned, FilesOf

(* A step that leaves the deck and the contents as they are.               *)
Stays ==
  /\ DOMAIN x' = Fields /\ x'.plan = x.plan /\ x'.reg = x.reg /\ x'.deck = x.deck
  /\ x'.stage = x.stage /\ x'.text = x.text /\ x'.output = x.output
  /\ x'.repaired = x.repaired
  /\ DOMAIN x'.image = Planned /\ DOMAIN x'.out = Planned
  /\ x'.pc \in Looking \cup {"count", "render_final", "upload"} /\ x'.stored = FALSE
  /\ pushes' = pushes
  /\ main' = main \/ \E o \in Planned : \E s : RowChanged(main', o, s)
  /\ DOMAIN bucket' = {"pptx", "pdf", "previews"} /\ DOMAIN bucket'.previews = Order

(* It leaves the shape, the pages and the slides' sameness as they are.    *)
LEMMA DeckStays ==
  ASSUME Inner, Deck, Stays
  PROVE  /\ Shape' /\ Cleared' /\ Laid' /\ (SamePlan <=> SamePlan')
         /\ Planned' = Planned /\ Ready' = Ready /\ FinalDeck' = FinalDeck
         /\ \A o : (Same(o)' <=> Same(o)) /\ Page(o)' = Page(o)
<1>1. /\ DOMAIN main' = {"job", "key", "rows"} /\ main'.job = "generating" /\ ~main'.key
      /\ main'.rows \in Rows /\ Len(main'.rows) = Len(main.rows)
      /\ \A o \in Planned : main'.rows[o].file = main.rows[o].file
  <2>1. CASE main' = main
    BY <2>1, DeckFrame DEF Inner, Shape, Typed
  <2>2. CASE \E o \in Planned : \E s : RowChanged(main', o, s)
    BY <2>2, DeckFrame DEF RowChanged
  <2>3. QED
    BY <2>1, <2>2 DEF Stays
<1>2. Planned' = Planned /\ Ready' = Ready /\ FinalDeck' = FinalDeck
      /\ (SamePlan <=> SamePlan')
  BY DEF Stays, Planned, Ready, FinalDeck, SamePlan
<1>3. Underway /\ Deck' /\ Underway' /\ ~At("idle")'
      /\ ~At("submit")' /\ ~At("prepare")' /\ ~At("contents")' /\ ~At("render")'
      /\ ~At("upload_pdf")' /\ ~x'.stored
      /\ x'.pc \in Places
  BY DEF Stays, Deck, Underway, At, Looking, Places
<1>4. Typed'
  BY <1>1, <1>3, DeckFrame DEF Stays, Typed
<1>5. Running'
  BY <1>1, <1>3 DEF Running
<1>6. Registering'
  BY <1>1, <1>2, <1>3, DeckFrame DEF Stays, Inner, Shape, Registering
<1>7. Working'
  BY <1>2, <1>3, DeckFrame DEF Stays, Inner, Shape, Working
<1>8. Cleared'
  BY <1>2, <1>3 DEF Stays, Inner, Cleared, Clean
<1>9. \A o : (Same(o)' <=> Same(o)) /\ Page(o)' = Page(o)
  BY <1>2 DEF Stays, Same, Page
<1>10. Laid'
  BY <1>2, <1>3 DEF Stays, Inner, Kept, Laid
<1>11. QED
  BY <1>2, <1>4, <1>5, <1>6, <1>7, <1>8, <1>9, <1>10 DEF Shape

(* The contents are packed and rendered.                                   *)
LEMMA PackStep == ASSUME Inner, PackDeck PROVE Inner'
<1>1. At("contents") /\ UNCHANGED <<main, bucket, pushes>>
      /\ \A o \in Planned : x.stage[o] \in {"told_ready", "told_failed"}
  BY DEF PackDeck, Fatal
<1>2. CASE x' = Idle \/ x' = [Idle EXCEPT !.pc = "report"]
  BY <1>1, <1>2, BreaksOffSilently DEF At
<1>3. CASE x' = [x EXCEPT !.pc = "render", !.output = Pages]
  <2>1. /\ DOMAIN x' = Fields /\ x'.pc = "render" /\ x'.plan = x.plan /\ x'.reg = x.reg
        /\ x'.deck = x.deck /\ x'.stage = x.stage /\ x'.text = x.text /\ x'.image = x.image
        /\ x'.out = x.out /\ x'.output = Pages
        /\ x'.repaired = <<>> /\ x'.tell = {} /\ x'.stored = FALSE /\ x'.failed = {}
        /\ x'.fixed = {}
    BY <1>1, <1>3, ContentFrame DEF Fields
  <2>2. /\ DOMAIN Pages = Planned
        /\ \A o \in Planned : /\ Pages[o].file = x.plan[o]
                              /\ Pages[o].text = x.deck[x.plan[o]] /\ Pages[o].text # Sample
    BY <1>1 DEF Pages, Inner, Cleared, Underway, Filled
  <2> HIDE DEF Pages
  <2>3. Shape'
    <3>1. Typed'
      BY <1>1, <2>1, <2>2, ContentFrame DEF Inner, Shape, Typed, Places, Looking
    <3>2. Running'
      BY <1>1, <2>1, <2>2, ContentFrame DEF Inner, Shape, Running, At
    <3>3. Registering'
      BY <1>1, <2>1, <2>2, ContentFrame
         DEF Inner, Shape, Registering, At, Underway, Deck, Looking, Planned
    <3>4. Working'
      BY <1>1, <2>1, <2>2, ContentFrame
         DEF Inner, Shape, Working, At, Underway, Deck, Looking, Planned
    <3>5. QED
      BY <3>1, <3>2, <3>3, <3>4 DEF Shape
  <2>4. Cleared'
    BY <1>1, <2>1, <2>2 DEF Inner, Cleared, Clean, At, Underway, Deck, Looking, Planned
  <2>5. Counted'
    BY <1>1, <2>1, ContentFrame DEF Inner, Counted, At, Underway, Deck, Looking, Planned
  <2>6. Apart'
    BY <1>1, <2>1 DEF Inner, Apart, At, Looking, Before
  <2>7. Kept'
    <3>1. SamePlan' <=> SamePlan
      BY <2>1 DEF SamePlan, Planned
    <3>2. /\ At("render")' /\ Deck' /\ Underway' /\ Planned' = Planned /\ Ready' = Ready
          /\ FinalDeck' = Pages /\ x'.pc \notin Looking
      BY <2>1 DEF At, Deck, Underway, Planned, Ready, FinalDeck, Looking
    <3>3. /\ SamePlan => \A o \in Planned : x.stage[o] \in {"ready", "told_ready"} =>
                                              x.deck[x.plan[o]] \in Applied(x.text[o])
          /\ \A o \in Planned : x.out[o] = "none"
      BY <1>1 DEF Inner, Kept, Laid, Counted, Underway
    <3>4. SamePlan => \A o \in Ready : Same(o)'
      BY <2>1, <2>2, <3>2, <3>3 DEF Same, Page, Ready, Applied
    <3>5. QED
      BY <2>1, <2>2, <3>1, <3>2, <3>3, <3>4 DEF Kept, Laid, At, Looking
  <2>8. QED
    BY <2>3, <2>4, <2>5, <2>6, <2>7 DEF Inner
<1>4. QED
  BY <1>2, <1>3 DEF PackDeck, Fatal, Packed

(* The pages rendered are those of the packed deck.                        *)
LEMMA RenderStep == ASSUME Inner, RenderDeck PROVE Inner'
<1>1. At("render") /\ Deck /\ Underway /\ UNCHANGED <<main, bucket, pushes>>
  BY DEF RenderDeck, Fatal, Deck, Underway, At
<1>2. CASE Fatal
  BY <1>1, <1>2, BreaksOffSilently DEF Fatal, At
<1>3. CASE x' = [x EXCEPT !.pc = "check", !.check = Ready, !.image = Rendered(x.output)]
  <2>1. /\ Stays /\ x'.pc = "check" /\ x'.check = Ready /\ x'.image = Rendered(x.output)
        /\ x'.out = x.out /\ x'.tell = {} /\ x'.failed = {} /\ x'.fixed = {}
        /\ x.repaired = <<>>
        /\ x'.stored = FALSE /\ x'.repaired = <<>>
    <3>1. x.tell = {} /\ x.failed = {} /\ x.fixed = {} /\ x.stored = FALSE
          /\ x.repaired = <<>>
      BY <1>1 DEF Inner, Counted, Apart, Shape, Typed, Running, Working, At, Before
    <3>2. QED
      BY <1>1, <1>3, <3>1, DeckFrame DEF Stays, Fields, Rendered, Looking
  <2>2. /\ FinalDeck = x.output
        /\ \A o \in Planned : x.out[o] = "none"
        /\ SamePlan => \A o \in Ready : Same(o)
    BY <1>1, <2>1 DEF FinalDeck, Inner, Counted, Kept
  <2>3. Counted'
    BY <1>1, <2>1, DeckStays DEF Inner, Counted, At, Deck, Looking
  <2>4. Apart'
    BY <1>1, <2>1, <2>2, DeckStays DEF Apart, At, Looking, Before, Ready
  <2>5. Kept'
    <3>1. /\ DOMAIN x.output = Planned
          /\ \A o \in Planned : /\ x'.image[o] = x.output[o].text /\ x'.text[o] = x.text[o]
                                /\ Page(o) = x.output[o].text
      BY <1>1, <2>1, <2>2, DeckFrame DEF Rendered, Page, Stays
    <3>2. SamePlan' => \A o \in x'.check : Same(o)' /\ x'.image[o] = Page(o)'
      BY <1>1, <2>1, <2>2, <3>1, DeckStays DEF Ready
    <3>3. /\ x'.output = x.output /\ x'.repaired = <<>> /\ x'.plan = x.plan /\ x'.text = x.text
          /\ x'.deck = x.deck /\ x'.stage = x.stage
      BY <2>1 DEF Stays
    <3>5. Planned' = Planned /\ (SamePlan' <=> SamePlan) /\ Laid'
      BY <1>1, <2>1, DeckStays
    <3>6. QED
      BY <2>1, <2>2, <3>2, <3>3, <3>5 DEF Kept, At
  <2>6. QED
    BY <1>1, <2>1, <2>3, <2>4, <2>5, DeckStays DEF Inner
<1>4. QED
  BY <1>2, <1>3 DEF RenderDeck

(* What a slide that is still to be looked at is like.                     *)
LEMMA ToCheck ==
  ASSUME Inner, At("check") \/ At("publish") \/ At("send_ready") \/ At("fix")
  PROVE  /\ Deck /\ x.stored = FALSE /\ x.tell = {} /\ Ready \subseteq Planned
         /\ x.check \subseteq Ready /\ x.failed \subseteq Ready /\ x.fixed \subseteq Ready
         /\ \A o \in x.check \cup x.failed : x.out[o] = "none"
         /\ x.check \cap x.failed = {}
         /\ \A o \in Planned : x.out[o] = "ready" => o \in Ready
         /\ \A o \in Planned : x.out[o] = "ready" <=> main.rows[o].status = "completed"
         /\ SamePlan => \A o \in Planned : x.out[o] = "ready" =>
              Same(o) /\ main.rows[o].fills = x.text[o] /\ bucket.previews[o] = Page(o)
<1>1. Deck /\ x.stored = FALSE /\ Ready \subseteq Planned
  BY DEF Inner, Shape, Typed, Running, Deck, At, Looking, Ready
<1>2. QED
  BY <1>1 DEF Inner, Counted, Apart, Kept, At, Looking

(* The answers of the visual QA and the previews.                          *)
LEMMA CheckStep == ASSUME Inner, NEW o, CheckSlide(o) PROVE Inner'
<1>1. /\ At("check") /\ o \in x.check /\ UNCHANGED <<main, bucket, pushes>>
      /\ o \in Planned /\ o \in Ready
  BY ToCheck DEF CheckSlide
<1>2. SamePlan => \A q \in x.check : Same(q) /\ x.image[q] = Page(q)
  BY <1>1 DEF Inner, Kept, At
<1>3. /\ Stays /\ x'.stored = FALSE /\ x'.out = x.out /\ x'.image = x.image /\ x'.text = x.text
      /\ x'.check = x.check \ {o} /\ x'.fixed = x.fixed
      /\ \/ x'.pc = "publish" /\ x'.cur = o /\ x'.failed = x.failed /\ x'.tell = {}
         \/ x'.pc = "check" /\ x'.failed = x.failed \cup {o} /\ x'.tell = {}
         \/ x'.pc = "tell" /\ x'.failed = x.failed /\ x'.tell = {o} /\ x'.then = "check"
  <2>1. \/ x' = [[x EXCEPT !.check = @ \ {o}] EXCEPT !.pc = "publish", !.cur = o]
        \/ x' = [[x EXCEPT !.check = @ \ {o}] EXCEPT !.failed = @ \cup {o}]
        \/ x' = [[x EXCEPT !.check = @ \ {o}] EXCEPT !.tell = {o}, !.then = "check",
                                                   !.pc = "tell"]
    BY <1>1, DeckFrame, ToCheck
       DEF CheckSlide, Passes, HasIssues, CallFails, Seen, Telling, At, Fields
  <2>2. /\ DOMAIN x = Fields /\ x.pc = "check" /\ x.stored = FALSE /\ x.tell = {}
        /\ DOMAIN x.image = Planned /\ DOMAIN x.out = Planned
        /\ DOMAIN bucket = {"pptx", "pdf", "previews"} /\ DOMAIN bucket.previews = Order
    BY <1>1, DeckFrame, ToCheck DEF At
  <2>3. CASE x' = [[x EXCEPT !.check = @ \ {o}] EXCEPT !.pc = "publish", !.cur = o]
    BY <1>1, <2>2, <2>3 DEF Stays, Fields, Looking
  <2>4. CASE x' = [[x EXCEPT !.check = @ \ {o}] EXCEPT !.failed = @ \cup {o}]
    BY <1>1, <2>2, <2>4 DEF Stays, Fields, Looking
  <2>5. CASE x' = [[x EXCEPT !.check = @ \ {o}] EXCEPT !.tell = {o}, !.then = "check",
                                                     !.pc = "tell"]
    BY <1>1, <2>2, <2>5 DEF Stays, Fields, Looking
  <2>6. QED
    BY <2>1, <2>3, <2>4, <2>5
<1>4. Counted'
  BY <1>1, <1>3, ToCheck, DeckStays DEF Counted, At, Deck, Looking
<1>5. Apart'
  BY <1>1, <1>3, ToCheck, DeckStays DEF Apart, At, Looking, Before
<1>6. Kept'
  BY <1>1, <1>2, <1>3, ToCheck, DeckStays DEF Kept, At, Looking
<1>7. QED
  BY <1>1, <1>3, <1>4, <1>5, <1>6, ToCheck, DeckStays DEF Inner

(* The preview stored is the page that passed.                             *)
LEMMA PreviewStep == ASSUME Inner, UploadPreview PROVE Inner'
<1>1. At("publish") /\ UNCHANGED <<main, pushes>>
  BY DEF UploadPreview
<1>2. /\ x.cur \in Ready /\ x.cur \in Planned /\ x.cur \in Order /\ x.out[x.cur] = "none"
      /\ x.cur \notin x.check \cup x.failed
      /\ SamePlan => Same(x.cur) /\ x.image[x.cur] = Page(x.cur)
      /\ SamePlan => \A q \in x.check : Same(q) /\ x.image[q] = Page(q)
  BY <1>1, ToCheck, DeckFrame DEF Inner, Counted, Apart, Kept, At, Looking
<1>3. /\ DOMAIN x = Fields /\ x.pc = "publish" /\ x.stored = FALSE /\ x.tell = {}
      /\ DOMAIN x.image = Planned /\ DOMAIN x.out = Planned
      /\ DOMAIN bucket = {"pptx", "pdf", "previews"} /\ DOMAIN bucket.previews = Order
  BY <1>1, DeckFrame, ToCheck DEF At
<1>4. /\ Stays /\ x'.stored = FALSE /\ x'.out = x.out /\ x'.image = x.image /\ x'.text = x.text
      /\ x'.check = x.check /\ x'.fixed = x.fixed /\ x'.failed = x.failed /\ x'.cur = x.cur
      /\ \/ /\ x'.pc = "send_ready" /\ x'.tell = {} /\ bucket'.previews[x.cur] = x.image[x.cur]
            /\ \A q \in Order : q # x.cur => bucket'.previews[q] = bucket.previews[q]
         \/ x'.pc = "tell" /\ x'.tell = {x.cur} /\ x'.then = "check" /\ bucket' = bucket
  <2>1. CASE Go("send_ready") /\ bucket' = [bucket EXCEPT !.previews[x.cur] = x.image[x.cur]]
    BY <1>1, <1>2, <1>3, <2>1 DEF Stays, Fields, Looking, Go
  <2>2. CASE x' = Telling({x.cur}, [x EXCEPT !.pc = "check"]) /\ UNCHANGED bucket
    BY <1>1, <1>2, <1>3, <2>2 DEF Stays, Fields, Looking, Telling
  <2>3. QED
    BY <2>1, <2>2 DEF UploadPreview
<1>5. Counted'
  BY <1>1, <1>2, <1>4, ToCheck, DeckStays DEF Counted, At, Deck, Looking
<1>6. Apart'
  BY <1>1, <1>2, <1>4, ToCheck, DeckStays DEF Apart, At, Looking, Before
<1>7. Kept'
  BY <1>1, <1>2, <1>4, DeckFrame, ToCheck, DeckStays DEF Kept, At, Looking
<1>8. QED
  BY <1>1, <1>4, <1>5, <1>6, <1>7, ToCheck, DeckStays DEF Inner

(* A slide is completed for the worker and the main server alike, or reported.*)
LEMMA SendStep == ASSUME Inner, SendReady PROVE Inner'
<1> DEFINE o == x.cur
           new == RowFilled(o, "completed", x.text[o])
<1>1. At("send_ready") /\ UNCHANGED <<bucket, pushes>>
      /\ \/ Heard(new, [x EXCEPT !.pc = "check", !.out[o] = "ready"])
         \/ Raises(new, Telling({o}, [x EXCEPT !.pc = "check"]))
  BY DEF SendReady, RowFilled
<1>2. /\ o \in Ready /\ o \in Planned /\ o \in Order /\ x.out[o] = "none"
      /\ o \notin x.check \cup x.failed /\ x.text[o] \in Texts
      /\ SamePlan => Same(o) /\ bucket.previews[o] = Page(o)
      /\ SamePlan => \A q \in x.check : Same(q) /\ x.image[q] = Page(q)
  BY <1>1, ToCheck, DeckFrame DEF Inner, Counted, Apart, Kept, At, Looking
<1>3. /\ DOMAIN x = Fields /\ x.pc = "send_ready" /\ x.stored = FALSE /\ x.tell = {}
      /\ DOMAIN x.image = Planned /\ DOMAIN x.out = Planned /\ DOMAIN main.rows = Planned
      /\ DOMAIN bucket = {"pptx", "pdf", "previews"} /\ DOMAIN bucket.previews = Order
  BY <1>1, DeckFrame, ToCheck DEF At
<1>4. RowChanged(new, o, "completed") /\ new.rows[o].fills = x.text[o]
  BY <1>2, <1>3, RowChange DEF Inner, Shape
<1>5. /\ \A q \in Planned : q # o => new.rows[q] = main.rows[q]
      /\ new.rows[o].status = "completed"
  BY <1>3, <1>4 DEF RowChanged
<1> HIDE DEF new
<1>6. /\ Stays /\ x'.stored = FALSE /\ x'.image = x.image /\ x'.text = x.text
      /\ x'.check = x.check /\ x'.fixed = x.fixed /\ x'.failed = x.failed
      /\ \/ /\ x'.pc = "check" /\ x'.tell = {} /\ main' = new /\ x'.out[o] = "ready"
            /\ \A q \in Planned : q # o => x'.out[q] = x.out[q]
         \/ /\ x'.pc = "tell" /\ x'.tell = {o} /\ x'.then = "check" /\ x'.out = x.out
            /\ main' \in {main, new}
  <2>1. CASE Heard(new, [x EXCEPT !.pc = "check", !.out[o] = "ready"])
    <3>1. main' = new /\ x' = [x EXCEPT !.pc = "check", !.out[o] = "ready"]
      BY <2>1 DEF Heard
    <3>2. RowChanged(main', o, "completed")
      BY <1>4, <3>1
    <3>3. QED
      BY <1>1, <1>2, <1>3, <3>1, <3>2 DEF Stays, Fields, Looking
  <2>2. CASE Raises(new, Telling({o}, [x EXCEPT !.pc = "check"]))
    <3>1. main' \in {main, new} /\ x' = Telling({o}, [x EXCEPT !.pc = "check"])
      BY <2>2 DEF Raises
    <3>2. main' = main \/ RowChanged(main', o, "completed")
      BY <1>4, <3>1
    <3>3. QED
      BY <1>1, <1>2, <1>3, <3>1, <3>2 DEF Stays, Fields, Looking, Telling
  <2>3. QED
    BY <1>1, <2>1, <2>2
<1> HIDE DEF o
<1>7. Counted'
  <2>1. \A q \in Planned : x.out[q] = "ready" <=> main.rows[q].status = "completed"
    BY <1>1, ToCheck
  <2>3. CASE x'.pc = "check"
    <3>1. /\ main' = new /\ x'.out[o] = "ready" /\ x'.tell = {}
          /\ \A q \in Planned : q # o => x'.out[q] = x.out[q]
      BY <1>6, <2>3
    <3>2. \A q \in Planned : x'.out[q] = "ready" <=> main'.rows[q].status = "completed"
      BY <1>5, <2>1, <3>1
    <3>3. QED
      BY <1>1, <1>2, <1>6, <2>3, <3>1, <3>2, ToCheck, DeckStays DEF Counted, At, Deck, Looking
  <2>4. CASE x'.pc = "tell"
    <3>1. /\ x'.tell = {o} /\ x'.then = "check" /\ x'.out = x.out
          /\ \A q \in Planned : q # o => main'.rows[q] = main.rows[q]
      BY <1>5, <1>6, <2>4
    <3>2. \A q \in Planned : \/ x'.out[q] = "ready" <=> main'.rows[q].status = "completed"
                             \/ q \in x'.tell
      BY <2>1, <3>1
    <3>3. QED
      BY <1>1, <1>2, <1>6, <2>4, <3>1, <3>2, ToCheck, DeckStays DEF Counted, At, Deck, Looking
  <2>5. QED
    BY <1>6, <2>3, <2>4
<1>8. Apart'
  BY <1>1, <1>2, <1>6, ToCheck, DeckStays DEF Apart, At, Looking, Before
<1>9. Kept'
  BY <1>1, <1>2, <1>4, <1>5, <1>6, ToCheck, DeckStays DEF Kept, At, Looking
<1>10. QED
  BY <1>1, <1>6, <1>7, <1>8, <1>9, ToCheck, DeckStays DEF Inner

(* A slide that failed is reported.                                        *)
LEMMA TellStep == ASSUME Inner, TellError PROVE Inner'
<1>1. /\ At("tell") /\ Deck /\ UNCHANGED <<bucket, pushes>> /\ x.stored = FALSE
      /\ x.tell # {} /\ x.tell \subseteq Planned /\ x.then \in {"check", "count"}
      /\ x.check \subseteq Ready /\ x.failed \subseteq Ready /\ x.fixed \subseteq Ready
      /\ Ready \subseteq Planned
  BY DEF TellError, Inner, Counted, Shape, Typed, Running, Deck, At, Looking, Ready
<1>2. PICK o \in x.tell : o = Smallest(x.tell)
  <2>1. x.tell \in SUBSET Nat
    BY <1>1, DeckFrame DEF Order
  <2>2. QED
    BY <1>1, <2>1, SmallestOf
<1> DEFINE new == RowSet(o, "error")
           where == IF x.tell = {o} THEN x.then ELSE "tell"
<1>3. \/ Heard(new, [x EXCEPT !.out[o] = "error", !.tell = @ \ {o}, !.pc = where])
      \/ Raises(new, Idle)
  BY <1>2 DEF TellError, RowSet
<1>4. /\ DOMAIN x = Fields /\ x.pc = "tell" /\ DOMAIN x.image = Planned
      /\ DOMAIN x.out = Planned
      /\ DOMAIN main.rows = Planned /\ o \in Planned /\ o \in DOMAIN main.rows
      /\ DOMAIN bucket = {"pptx", "pdf", "previews"} /\ DOMAIN bucket.previews = Order
  BY <1>1, DeckFrame DEF At
<1>5. RowChanged(new, o, "error")
  BY <1>4, RowChange, TextsMade DEF Inner, Shape
<1>6. /\ \A q \in Planned : q # o => new.rows[q] = main.rows[q]
      /\ new.rows[o].status = "error"
  BY <1>4, <1>5 DEF RowChanged
<1> HIDE DEF new
<1>7. CASE Raises(new, Idle)
  BY <1>1, <1>5, <1>7, BreaksOff
     DEF Raises, Inner, Shape, Typed, Running, RowChanged
<1>8. CASE Heard(new, [x EXCEPT !.out[o] = "error", !.tell = @ \ {o}, !.pc = where])
  <2>1. main' = new /\ RowChanged(main', o, "error")
    BY <1>5, <1>8 DEF Heard
  <2>2. /\ x'.image = x.image /\ x'.text = x.text /\ x'.check = x.check /\ x'.fixed = x.fixed
        /\ x'.failed = x.failed /\ x'.then = x.then /\ x'.tell = x.tell \ {o} /\ x'.pc = where
        /\ DOMAIN x'.out = Planned /\ x'.out[o] = "error" /\ x'.stored = FALSE
        /\ \A q \in Planned : q # o => x'.out[q] = x.out[q]
        /\ x'.stage = x.stage /\ x'.deck = x.deck /\ x'.plan = x.plan /\ x'.reg = x.reg
        /\ x'.output = x.output /\ x'.repaired = x.repaired /\ DOMAIN x' = Fields
    BY <1>1, <1>4, <1>8 DEF Heard, Fields
  <2>3. /\ where \in {"tell", "check", "count"}
        /\ where = "tell" => x'.tell # {}
        /\ where # "tell" => x'.tell = {} /\ where = x.then
    BY <1>1, <2>2
  <2> HIDE DEF where
  <2>4. Stays
    BY <1>1, <1>4, <2>1, <2>2, <2>3 DEF Stays, Looking
  <2>5. Counted'
    <3>1. \A q \in Planned : \/ x.out[q] = "ready" <=> main.rows[q].status = "completed"
                             \/ q \in x.tell
      BY <1>1 DEF Inner, Counted
    <3>2. \A q \in Planned : \/ x'.out[q] = "ready" <=> main'.rows[q].status = "completed"
                             \/ q \in x'.tell
      BY <1>6, <2>1, <2>2, <3>1
    <3>3. \A q \in Planned : x'.out[q] = "ready" => q \in Ready
      BY <1>1, <2>2 DEF Inner, Counted
    <3>4. QED
      BY <1>1, <2>2, <2>3, <2>4, <3>2, <3>3, DeckStays DEF Counted, At, Deck, Looking
  <2>6. Apart'
    <3>1. where = "check" \/ (where = "tell" /\ x.then = "check") =>
            /\ \A q \in x.check \cup x.failed : x.out[q] = "none" /\ q \notin x.tell
            /\ x.check \cap x.failed = {} /\ x.tell \cap (x.check \cup x.failed) = {}
      BY <1>1, <2>3 DEF Inner, Apart, At, Looking
    <3>2. QED
      BY <1>1, <2>2, <2>3, <3>1 DEF Apart, At, Looking, Before
  <2>7. Kept'
    <3>1. /\ SamePlan => \A q \in x.check : Same(q) /\ x.image[q] = Page(q)
          /\ SamePlan => \A q \in Planned : x.out[q] = "ready" =>
               Same(q) /\ main.rows[q].fills = x.text[q] /\ bucket.previews[q] = Page(q)
      BY <1>1 DEF Inner, Kept, At
    <3>2. SamePlan' => \A q \in Planned : x'.out[q] = "ready" =>
            Same(q)' /\ main'.rows[q].fills = x'.text[q] /\ bucket'.previews[q] = Page(q)'
      BY <1>1, <1>6, <2>1, <2>2, <2>4, <3>1, DeckStays
    <3>3. QED
      BY <1>1, <2>2, <2>3, <2>4, <3>1, <3>2, DeckStays DEF Kept, At
  <2>8. QED
    BY <1>1, <2>4, <2>5, <2>6, <2>7, DeckStays DEF Inner
<1>9. QED
  BY <1>3, <1>7, <1>8

(* The rounds of repair.                                                   *)
LEMMA RoundStep == ASSUME Inner, NextRound PROVE Inner'
<1>1. At("check") /\ x.check = {} /\ UNCHANGED <<main, bucket, pushes>>
  BY DEF NextRound
<1>2. /\ DOMAIN x = Fields /\ x.pc = "check" /\ x.stored = FALSE /\ x.tell = {}
      /\ DOMAIN x.image = Planned /\ DOMAIN x.out = Planned
      /\ DOMAIN bucket = {"pptx", "pdf", "previews"} /\ DOMAIN bucket.previews = Order
  BY <1>1, DeckFrame, ToCheck DEF At
<1>3. /\ Stays /\ x'.stored = FALSE /\ x'.out = x.out /\ x'.image = x.image /\ x'.text = x.text
      /\ \/ /\ x'.pc = "fix" /\ x'.check = x.failed /\ x'.failed = {} /\ x'.fixed = {}
            /\ x'.tell = {}
         \/ /\ x'.pc \in {"tell", "count"} /\ (x'.pc = "count" <=> x'.tell = {})
            /\ x'.tell = x.failed /\ x'.then = "count" /\ x'.check = {} /\ x'.failed = x.failed
            /\ x'.fixed = x.fixed
  <2>1. CASE x' = [x EXCEPT !.pc = "fix", !.round = @ + 1, !.check = x.failed,
                            !.failed = {}, !.fixed = {}]
    BY <1>1, <1>2, <2>1 DEF Stays, Fields, Looking
  <2>2. CASE x' = Telling(x.failed, [x EXCEPT !.pc = "count"])
    <3>1. x' = [x EXCEPT !.tell = x.failed, !.then = "count",
                         !.pc = IF x.failed = {} THEN "count" ELSE "tell"]
      BY <1>2, <2>2 DEF Telling, Fields
    <3>2. QED
      BY <1>1, <1>2, <3>1 DEF Stays, Fields, Looking
  <2>3. QED
    BY <2>1, <2>2 DEF NextRound
<1>4. Counted'
  BY <1>1, <1>3, ToCheck, DeckStays DEF Counted, At, Deck, Looking
<1>5. Apart'
  BY <1>1, <1>3, ToCheck, DeckStays DEF Apart, At, Looking, Before
<1>6. Kept'
  BY <1>1, <1>3, ToCheck, DeckStays DEF Kept, At, Looking
<1>7. QED
  BY <1>1, <1>3, <1>4, <1>5, <1>6, ToCheck, DeckStays DEF Inner

(* A fix changes one slide, in its text and its page.                      *)
LEMMA FixStep == ASSUME Inner, ApplyFix PROVE Inner'
<1>1. At("fix") /\ x.check # {} /\ UNCHANGED <<main, bucket, pushes>>
  BY DEF ApplyFix, Fatal
<1>2. PICK o \in x.check : o = Smallest(x.check)
  <2>1. x.check \in SUBSET Nat
    BY <1>1, DeckFrame, ToCheck DEF Order
  <2>2. QED
    BY <1>1, <2>1, SmallestOf
<1>3. /\ o \in Ready /\ o \in Planned /\ x.out[o] = "none" /\ o \notin x.failed
      /\ x.fixed \cap (x.check \cup x.failed) = {} /\ \A q \in x.fixed : x.out[q] = "none"
      /\ x.stage[o] = "told_ready" /\ x.text[o] \in Texts /\ x.text[o][2] = o
      /\ o \in Nat \ {0}
  <2>1. o \in Ready /\ o \in Planned /\ Deck
    BY <1>1, ToCheck
  <2>2. x.stage[o] = "told_ready" /\ x.text[o] \in Texts /\ o \in Nat \ {0}
    BY <2>1, DeckFrame DEF Ready
  <2>3. x.text[o][2] = o
    BY <2>1, <2>2 DEF Inner, Cleared, Underway
  <2>4. QED
    BY <1>1, <2>1, <2>2, <2>3, ToCheck DEF Inner, Apart
<1>4. /\ DOMAIN x = Fields /\ x.pc = "fix" /\ x.stored = FALSE /\ x.tell = {}
      /\ DOMAIN x.image = Planned /\ DOMAIN x.out = Planned
      /\ DOMAIN bucket = {"pptx", "pdf", "previews"} /\ DOMAIN bucket.previews = Order
      /\ DOMAIN x.text = Planned
  BY <1>1, DeckFrame, ToCheck DEF At
<1>5. CASE Fatal
  BY <1>1, <1>5, BreaksOffSilently DEF Fatal, At
<1>6. CASE HasIssues(o)
  <2>1. /\ Stays /\ x'.stored = FALSE /\ x'.out = x.out /\ x'.image = x.image
        /\ x'.text = x.text
        /\ x'.check = x.check \ {o} /\ x'.fixed = x.fixed /\ x'.failed = x.failed \cup {o}
        /\ x'.pc = "fix" /\ x'.tell = {}
    BY <1>1, <1>4, <1>6 DEF HasIssues, Seen, Stays, Fields, Looking
  <2>2. Counted'
    <3>1. /\ Ready' = Ready /\ Planned' = Planned
          /\ x'.check \subseteq Ready /\ x'.failed \subseteq Ready /\ x'.fixed \subseteq Ready
      BY <1>1, <1>3, <2>1, ToCheck, DeckStays
    <3>2. /\ \A q \in Planned : x.out[q] = "ready" => q \in Ready
          /\ \A q \in Planned : x.out[q] = "ready" <=> main.rows[q].status = "completed"
      BY <1>1, ToCheck
    <3>3. QED
      BY <1>1, <2>1, <3>1, <3>2 DEF Counted, At, Deck, Looking
  <2>3. Apart'
    BY <1>1, <1>3, <2>1, ToCheck, DeckStays DEF Apart, At, Looking, Before
  <2>4. Kept'
    BY <1>1, <2>1, ToCheck, DeckStays DEF Kept, At, Looking
  <2>5. QED
    BY <1>1, <2>1, <2>2, <2>3, <2>4, ToCheck, DeckStays DEF Inner
<1>7. CASE (\E page \in Applied(Edit(x.text[o])) : x' = Fixed(o, page))
           /\ x.reg[o] \in DOMAIN x.deck
  <2> DEFINE t == Edit(x.text[o])
  <2>0. PICK page \in Applied(t) : x' = Fixed(o, page)
    BY <1>7
  <2>1. /\ x'.stored = FALSE /\ x'.out = x.out /\ x'.image = x.image /\ x'.plan = x.plan
        /\ x'.check = x.check \ {o} /\ x'.fixed = x.fixed \cup {o} /\ x'.failed = x.failed
        /\ x'.pc = "fix" /\ x'.tell = {} /\ x'.stage = x.stage /\ x'.reg = x.reg
        /\ x'.output = x.output /\ x'.repaired = x.repaired /\ DOMAIN x' = Fields
        /\ x'.text = [x.text EXCEPT ![o] = t] /\ x'.deck = [x.deck EXCEPT ![x.reg[o]] = page]
    BY <1>1, <1>4, <1>7, <2>0 DEF Fixed, FixedFile, Seen, Fields
  <2>2. t \in Texts /\ t[2] = o /\ page # Sample
    BY <1>3, <2>0, TextsMade DEF Applied
  <2> HIDE DEF t
  <2>3. /\ DOMAIN x'.text = Planned /\ x'.text[o] = t
        /\ \A q \in Planned : q # o => x'.text[q] = x.text[q]
        /\ DOMAIN x'.deck = DOMAIN x.deck /\ x'.deck[x.reg[o]] = page
        /\ \A q \in Planned : x.plan[q] # x.reg[o] => x'.deck[x.plan[q]] = x.deck[x.plan[q]]
    BY <1>1, <1>3, <1>4, <1>7, <2>1, ToCheck, DeckFrame
  <2>4. SamePlan => x.reg[o] = x.plan[o] /\ \A q \in Planned : x.plan[q] = x.plan[o] => q = o
    BY <1>1, <1>3, ToCheck, DeckFrame, PlanShape DEF SamePlan, Planned
  <2>5. /\ Planned' = Planned /\ Ready' = Ready /\ (SamePlan' <=> SamePlan) /\ Deck' /\ Deck
        /\ Underway /\ Underway' /\ FinalDeck' = FinalDeck /\ ~At("idle")
    BY <1>1, <2>1 DEF Planned, Ready, SamePlan, Deck, Underway, FinalDeck, At, Looking
  <2>6. Shape'
    <3>1. Typed'
      BY <1>1, <2>1, <2>2, <2>3, <2>5, ToCheck, DeckFrame
         DEF Inner, Shape, Typed, Places, Looking
    <3>2. Running'
      BY <1>1, <2>1, <2>2, <2>3, <2>5, ToCheck, DeckFrame DEF Inner, Shape, Running, At
    <3>3. Registering'
      BY <1>1, <2>1, <2>2, <2>3, <2>5, ToCheck, DeckFrame
         DEF Inner, Shape, Registering, At, Underway, Deck, Looking, Planned
    <3>4. Working'
      BY <1>1, <2>1, <2>2, <2>3, <2>5, ToCheck, DeckFrame
         DEF Inner, Shape, Working, At, Underway, Deck, Looking, Planned
    <3>5. QED
      BY <3>1, <3>2, <3>3, <3>4 DEF Shape
  <2>7. Cleared'
    <3>1. \A q \in Planned :
            /\ x.stage[q] \in {"fit", "fit_again", "revise", "apply", "ready", "told_ready"} =>
                 x'.text[q][2] = q
            /\ x.stage[q] \in Filled => x'.deck[x.plan[q]] # Sample
      <4> TAKE q \in Planned
      <4>1. /\ x.stage[q] \in {"fit", "fit_again", "revise", "apply", "ready", "told_ready"} =>
                 x.text[q][2] = q
            /\ x.stage[q] \in Filled => x.deck[x.plan[q]] # Sample
        BY <2>5 DEF Inner, Cleared
      <4>2. QED
        BY <2>2, <2>3, <4>1
    <3>2. Clean(x.output) /\ Clean(x.repaired)
      BY <2>5 DEF Inner, Cleared
    <3>3. QED
      BY <2>1, <2>5, <3>1, <3>2 DEF Cleared, Clean, At
  <2>8. Counted'
    BY <1>1, <1>3, <2>1, <2>5, ToCheck DEF Counted, At, Deck, Looking
  <2>9. Apart'
    BY <1>1, <1>3, <2>1, <2>5, ToCheck DEF Apart, At, Looking, Before
  <2>10. Laid'
    <3>1. /\ \A q \in Planned : /\ x.output[q].file = x.plan[q]
                                /\ x.repaired # <<>> => x.repaired[q].file = x.plan[q]
          /\ SamePlan => \A q \in Planned :
               x.stage[q] \in {"ready", "told_ready"} =>
                 x.deck[x.plan[q]] \in Applied(x.text[q])
      BY <2>5 DEF Inner, Kept, Laid
    <3>2. SamePlan => \A q \in Planned :
            x.stage[q] \in {"ready", "told_ready"} =>
              x'.deck[x.plan[q]] \in Applied(x'.text[q])
      BY <2>0, <2>3, <2>4, <3>1
    <3>3. QED
      BY <2>1, <2>5, <3>1, <3>2 DEF Laid
  <2>11. Kept'
    <3>1. SamePlan => \A q \in Planned : q # o /\ Same(q) => Same(q)' /\ Page(q)' = Page(q)
      BY <2>1, <2>3, <2>4, <2>5 DEF Same, Page
    <3>2. SamePlan' => \A q \in Planned : x'.out[q] = "ready" =>
            Same(q)' /\ main'.rows[q].fills = x'.text[q] /\ bucket'.previews[q] = Page(q)'
      BY <1>1, <1>3, <2>1, <2>3, <2>5, <3>1, ToCheck
    <3>3. QED
      BY <2>1, <2>5, <2>10, <3>2 DEF Kept, At, Looking
  <2>12. QED
    BY <2>6, <2>7, <2>8, <2>9, <2>11 DEF Inner
<1>8. QED
  BY <1>2, <1>5, <1>6, <1>7 DEF ApplyFix, FixedFile

(* The repaired deck.                                                      *)
LEMMA PackedOnce ==
  ASSUME Inner, Deck
  PROVE  /\ DOMAIN Pages = Planned /\ Pages # <<>> /\ Clean(Pages)
         /\ \A o \in Planned : Pages[o].file = x.plan[o] /\ Pages[o].text = x.deck[x.plan[o]]
         /\ SamePlan => \A o \in Ready : x.deck[x.plan[o]] \in Applied(x.text[o])
<1>1. /\ DOMAIN Pages = Planned
      /\ \A o \in Planned : Pages[o].file = x.plan[o] /\ Pages[o].text = x.deck[x.plan[o]]
  BY DEF Pages
<1>2. \A o \in Planned : x.deck[x.plan[o]] # Sample
  BY DEF Inner, Shape, Working, Cleared, Underway, Filled
<1>3. Pages # <<>>
  <2>1. 1 \in Planned
    BY DeckFrame, PlanShape
  <2>2. DOMAIN <<>> = {}
    OBVIOUS
  <2>3. QED
    BY <1>1, <2>1, <2>2
<1>4. SamePlan => \A o \in Ready : o \in Planned /\ x.deck[x.plan[o]] \in Applied(x.text[o])
  BY DEF Inner, Kept, Laid, Underway, Ready
<1>5. QED
  BY <1>1, <1>2, <1>3, <1>4 DEF Clean

(* The fixed deck is packed, or its slides are reported.                   *)
LEMMA PackFixedStep == ASSUME Inner, PackFixed PROVE Inner'
<1>1. /\ At("fix") /\ x.check = {} /\ UNCHANGED <<main, bucket, pushes>>
      /\ x.fixed \cap (x.check \cup x.failed) = {} /\ \A q \in x.fixed : x.out[q] = "none"
  BY DEF PackFixed, Inner, Apart
<1>2. /\ DOMAIN x = Fields /\ x.pc = "fix" /\ x.stored = FALSE /\ x.tell = {}
      /\ DOMAIN x.image = Planned /\ DOMAIN x.out = Planned
      /\ DOMAIN bucket = {"pptx", "pdf", "previews"} /\ DOMAIN bucket.previews = Order
  BY <1>1, DeckFrame, ToCheck DEF At
<1>3. CASE \/ x.fixed = {} /\ Go("check")
           \/ x.fixed # {} /\ x' = Telling(x.fixed, [x EXCEPT !.pc = "check"])
  <2>1. /\ Stays /\ x'.stored = FALSE /\ x'.out = x.out /\ x'.image = x.image
        /\ x'.text = x.text
        /\ x'.check = {} /\ x'.fixed = x.fixed /\ x'.failed = x.failed
        /\ \/ x'.pc = "check" /\ x'.tell = {}
           \/ x'.pc = "tell" /\ x'.tell = x.fixed /\ x.fixed # {} /\ x'.then = "check"
    <3>1. CASE Go("check")
      BY <1>1, <1>2, <3>1 DEF Go, Stays, Fields, Looking
    <3>2. CASE x.fixed # {} /\ x' = Telling(x.fixed, [x EXCEPT !.pc = "check"])
      BY <1>1, <1>2, <3>2 DEF Telling, Stays, Fields, Looking
    <3>3. QED
      BY <1>3, <3>1, <3>2
  <2>2. Counted'
    BY <1>1, <2>1, ToCheck, DeckStays DEF Counted, At, Deck, Looking
  <2>3. Apart'
    BY <1>1, <2>1, ToCheck, DeckStays DEF Apart, At, Looking, Before
  <2>4. Kept'
    BY <1>1, <2>1, ToCheck, DeckStays DEF Kept, At, Looking
  <2>5. QED
    BY <1>1, <2>1, <2>2, <2>3, <2>4, ToCheck, DeckStays DEF Inner
<1>4. CASE x.fixed # {} /\ x' = [x EXCEPT !.pc = "render_fixed", !.repaired = Pages]
  <2>1. /\ x'.stored = FALSE /\ x'.out = x.out /\ x'.image = x.image /\ x'.plan = x.plan
        /\ x'.check = {} /\ x'.fixed = x.fixed /\ x'.failed = x.failed /\ x'.deck = x.deck
        /\ x'.pc = "render_fixed" /\ x'.tell = {} /\ x'.stage = x.stage /\ x'.reg = x.reg
        /\ x'.output = x.output /\ x'.repaired = Pages /\ DOMAIN x' = Fields
        /\ x'.text = x.text
    BY <1>1, <1>2, <1>4 DEF Fields
  <2>2. /\ Planned' = Planned /\ Ready' = Ready /\ (SamePlan' <=> SamePlan) /\ Deck' /\ Deck
        /\ Underway /\ Underway' /\ ~At("idle")
    BY <1>1, <2>1 DEF Planned, Ready, SamePlan, Deck, Underway, At, Looking
  <2>3. /\ DOMAIN Pages = Planned /\ Pages # <<>> /\ Clean(Pages)
        /\ \A o \in Planned : Pages[o].file = x.plan[o] /\ Pages[o].text = x.deck[x.plan[o]]
        /\ SamePlan => \A o \in Ready : x.deck[x.plan[o]] \in Applied(x.text[o])
        /\ Ready \subseteq Planned
    BY <2>2, PackedOnce DEF Ready
  <2>4. Shape'
    <3>1. Typed'
      BY <1>1, <2>1, <2>2, <2>3, ToCheck, DeckFrame DEF Inner, Shape, Typed, Places, Looking
    <3>2. Running'
      BY <1>1, <2>1, <2>2, <2>3, ToCheck, DeckFrame DEF Inner, Shape, Running, At
    <3>3. Registering'
      BY <1>1, <2>1, <2>2, <2>3, ToCheck, DeckFrame
         DEF Inner, Shape, Registering, At, Underway, Deck, Looking, Planned
    <3>4. Working'
      BY <1>1, <2>1, <2>2, <2>3, ToCheck, DeckFrame
         DEF Inner, Shape, Working, At, Underway, Deck, Looking, Planned
    <3>5. QED
      BY <3>1, <3>2, <3>3, <3>4 DEF Shape
  <2>5. Cleared'
    BY <2>1, <2>2, <2>3 DEF Inner, Cleared, Clean, At
  <2>6. Counted'
    BY <1>1, <2>1, <2>2, ToCheck DEF Counted, At, Deck, Looking
  <2>7. Apart'
    BY <1>1, <2>1, <2>2, ToCheck DEF Apart, At, Looking, Before
  <2>8. Laid'
    BY <2>1, <2>2, <2>3 DEF Inner, Kept, Laid
  <2>9. Kept'
    <3>1. /\ SamePlan => \A o \in Ready : Same(o)'
          /\ \A o \in Planned : Page(o)' = x.deck[x.plan[o]]
          /\ \A o \in Planned : Same(o) => x.deck[x.plan[o]] = Page(o)
      BY <2>1, <2>2, <2>3 DEF Same, Page, FinalDeck
    <3>2. \A o \in Planned : x.out[o] = "ready" => o \in Ready
      BY <1>1, ToCheck
    <3>3. QED
      BY <1>1, <2>1, <2>2, <2>3, <2>8, <3>1, <3>2, ToCheck DEF Kept, At, Looking
  <2>10. QED
    BY <2>4, <2>5, <2>6, <2>7, <2>9 DEF Inner
<1>5. QED
  BY <1>3, <1>4 DEF PackFixed

(* The fixed slides are looked at again as they would be kept.             *)
LEMMA RenderFixedStep == ASSUME Inner, RenderFixed PROVE Inner'
<1>1. /\ At("render_fixed") /\ UNCHANGED <<main, bucket, pushes>> /\ Deck /\ x.stored = FALSE
      /\ x.check = {} /\ x.repaired # <<>> /\ x.tell = {}
      /\ x.failed \subseteq Ready /\ x.fixed \subseteq Ready /\ Ready \subseteq Planned
      /\ x.fixed \cap x.failed = {}
      /\ \A q \in x.fixed \cup x.failed : x.out[q] = "none"
  BY DEF RenderFixed, Inner, Shape, Typed, Running, Apart, Counted, Kept, At, Deck, Looking,
     Ready
<1>2. /\ SamePlan => \A q \in x.fixed : Same(q)
      /\ SamePlan => \A q \in Planned : x.out[q] = "ready" =>
           Same(q) /\ main.rows[q].fills = x.text[q] /\ bucket.previews[q] = Page(q)
      /\ \A q \in Planned : x.out[q] = "ready" <=> main.rows[q].status = "completed"
      /\ \A q \in Planned : x.out[q] = "ready" => q \in Ready
  BY <1>1 DEF Inner, Kept, Counted, At
<1>3. PICK missing \in SUBSET x.fixed :
        x' = Telling(missing,
               [x EXCEPT !.pc = "check", !.check = x.fixed \ missing,
                         !.image = [o \in Planned |-> IF o \in x.fixed \ missing
                                                      THEN Rendered(x.repaired)[o] ELSE @[o]]])
  BY DEF RenderFixed
<1>4. /\ DOMAIN x = Fields /\ x.pc = "render_fixed"
      /\ DOMAIN x.image = Planned /\ DOMAIN x.out = Planned
      /\ DOMAIN bucket = {"pptx", "pdf", "previews"} /\ DOMAIN bucket.previews = Order
      /\ DOMAIN x.repaired = Planned
  BY <1>1, DeckFrame DEF At, Inner, Shape, Working
<1>5. /\ Stays /\ x'.stored = FALSE /\ x'.out = x.out /\ x'.text = x.text
      /\ x'.check = x.fixed \ missing /\ x'.fixed = x.fixed /\ x'.failed = x.failed
      /\ x'.pc = (IF missing = {} THEN "check" ELSE "tell")
      /\ x'.tell = missing /\ x'.then = "check"
      /\ \A q \in x'.check : x'.image[q] = x.repaired[q].text
  <2> DEFINE image == [o \in Planned |-> IF o \in x.fixed \ missing
                                         THEN Rendered(x.repaired)[o] ELSE x.image[o]]
  <2>1. x' = [x EXCEPT !.check = x.fixed \ missing, !.image = image, !.tell = missing,
                       !.then = "check", !.pc = IF missing = {} THEN "check" ELSE "tell"]
    BY <1>3, <1>4 DEF Telling, Fields
  <2>2. /\ DOMAIN image = Planned
        /\ \A q \in x.fixed \ missing : image[q] = x.repaired[q].text
    BY <1>1, <1>4 DEF Rendered
  <2> HIDE DEF image
  <2>3. QED
    BY <1>1, <1>4, <2>1, <2>2 DEF Stays, Fields, Looking
<1>6. Ready' = Ready /\ Planned' = Planned
      /\ (SamePlan' <=> SamePlan)
      /\ \A q : (Same(q)' <=> Same(q)) /\ Page(q)' = Page(q)
  BY <1>1, <1>5, DeckStays
<1>7. Counted'
  BY <1>1, <1>2, <1>5, <1>6 DEF Counted, At, Deck, Looking
<1>8. Apart'
  BY <1>1, <1>5 DEF Apart, At, Looking, Before
<1>9. Kept'
  <2>1. SamePlan => \A q \in x'.check : Same(q) /\ x'.image[q] = Page(q)
    BY <1>1, <1>2, <1>5 DEF Page, FinalDeck
  <2>2. QED
    BY <1>1, <1>2, <1>5, <1>6, <2>1, DeckStays DEF Kept, At
<1>10. QED
  BY <1>1, <1>5, <1>7, <1>8, <1>9, DeckStays DEF Inner

(* The result is counted and stored.                                       *)
LEMMA CountStep == ASSUME Inner, CountOutcomes PROVE Inner'
<1>1. /\ At("count") /\ UNCHANGED <<main, bucket, pushes>> /\ Deck /\ x.stored = FALSE
      /\ x.tell = {} /\ Ready \subseteq Planned
  BY DEF CountOutcomes, Fatal, Inner, Shape, Typed, Running, Counted, At, Deck, Ready
<1>2. /\ SamePlan => \A q \in Planned : x.out[q] = "ready" =>
           Same(q) /\ main.rows[q].fills = x.text[q] /\ bucket.previews[q] = Page(q)
      /\ \A q \in Planned : x.out[q] = "ready" <=> main.rows[q].status = "completed"
      /\ \A q \in Planned : x.out[q] = "ready" => q \in Ready
  BY <1>1 DEF Inner, Kept, Counted, At
<1>3. CASE Fatal
  BY <1>1, <1>3, BreaksOffSilently DEF Fatal, At
<1>4. CASE /\ Completed # {}
           /\ x' = [x EXCEPT !.pc = IF x.repaired = <<>> THEN "upload" ELSE "render_final",
                             !.done = Cardinality(Completed)]
  <2>1. /\ Stays /\ x'.stored = FALSE /\ x'.out = x.out /\ x'.text = x.text /\ x'.tell = {}
        /\ x'.pc \in {"upload", "render_final"} /\ x'.done = Cardinality(Completed)
    BY <1>1, <1>4, DeckFrame DEF Stays, Fields
  <2>2. Ready' = Ready /\ Planned' = Planned /\ (SamePlan' <=> SamePlan)
        /\ \A q : (Same(q)' <=> Same(q)) /\ Page(q)' = Page(q)
    BY <1>1, <2>1, DeckStays
  <2>3. Completed' = Completed
    BY <2>1, <2>2 DEF Completed
  <2>4. Counted'
    BY <1>1, <1>2, <1>4, <2>1, <2>2, <2>3 DEF Counted, At, Deck, Looking
  <2>5. Apart'
    BY <2>1 DEF Apart, At, Looking, Before
  <2>6. Kept'
    BY <1>1, <1>2, <2>1, <2>2, DeckStays DEF Kept, At
  <2>7. QED
    BY <1>1, <2>1, <2>4, <2>5, <2>6, DeckStays DEF Inner
<1>5. QED
  BY <1>3, <1>4 DEF CountOutcomes

(* What is on record when the deck goes to the bucket.                      *)
LEMMA ToStore ==
  ASSUME Inner, At("render_final") \/ At("upload") \/ At("upload_pdf")
  PROVE  /\ Deck /\ Underway /\ x.stored = FALSE /\ x.tell = {} /\ x.pc \notin Looking
         /\ Completed # {} /\ x.done = Cardinality(Completed)
         /\ Clean(FinalDeck)
         /\ SamePlan => \A q \in Planned : x.out[q] = "ready" =>
              Same(q) /\ main.rows[q].fills = x.text[q] /\ bucket.previews[q] = Page(q)
         /\ \A q \in Planned : x.out[q] = "ready" <=> main.rows[q].status = "completed"
         /\ \A q \in Planned : x.out[q] = "ready" => q \in Ready
<1>1. /\ Deck /\ Underway /\ x.stored = FALSE /\ x.tell = {} /\ x.pc \notin Looking
      /\ Completed # {} /\ x.done = Cardinality(Completed)
      /\ SamePlan => \A q \in Planned : x.out[q] = "ready" =>
           Same(q) /\ main.rows[q].fills = x.text[q] /\ bucket.previews[q] = Page(q)
      /\ \A q \in Planned : x.out[q] = "ready" <=> main.rows[q].status = "completed"
      /\ \A q \in Planned : x.out[q] = "ready" => q \in Ready
  BY DEF Inner, Shape, Typed, Running, Counted, Kept, At, Deck, Underway, Looking
<1>2. Clean(FinalDeck)
  BY <1>1 DEF Inner, Cleared, FinalDeck
<1>3. QED
  BY <1>1, <1>2

(* A repaired deck is rendered for its PDF.                                *)
LEMMA RenderFinalStep == ASSUME Inner, RenderFinal PROVE Inner'
<1>1. At("render_final") /\ UNCHANGED <<main, bucket, pushes>>
  BY DEF RenderFinal, Fatal
<1>2. CASE Fatal
  BY <1>1, <1>2, BreaksOffSilently DEF Fatal, At
<1>3. CASE Go("upload")
  <2>1. /\ Stays /\ x'.stored = FALSE /\ x'.out = x.out /\ x'.text = x.text /\ x'.tell = {}
        /\ x'.pc = "upload" /\ x'.done = x.done
    BY <1>1, <1>3, ToStore, DeckFrame DEF Stays, Fields, Go
  <2>2. Ready' = Ready /\ Planned' = Planned /\ (SamePlan' <=> SamePlan)
        /\ \A q : (Same(q)' <=> Same(q)) /\ Page(q)' = Page(q)
    BY <1>1, <2>1, ToStore, DeckStays
  <2>3. Completed' = Completed
    BY <2>1, <2>2 DEF Completed
  <2>4. Counted'
    BY <1>1, <2>1, <2>2, <2>3, ToStore DEF Counted, At, Deck, Looking
  <2>5. Apart'
    BY <2>1 DEF Apart, At, Looking, Before
  <2>6. Kept'
    BY <1>1, <2>1, <2>2, ToStore, DeckStays DEF Kept, At
  <2>7. QED
    BY <1>1, <2>1, <2>4, <2>5, <2>6, ToStore, DeckStays DEF Inner
<1>4. QED
  BY <1>2, <1>3 DEF RenderFinal

(* The deck and its PDF are stored as they are.                            *)
LEMMA UploadStep == ASSUME Inner, UploadPptx \/ UploadPdf PROVE Inner'
<1>1. At("upload") \/ (At("upload_pdf") /\ bucket.pptx = FinalDeck)
  <2>1. At("upload_pdf") => bucket.pptx = FinalDeck
    BY DEF Inner, Kept
  <2>2. QED
    BY <2>1 DEF UploadPptx, UploadPdf
<1>4. UNCHANGED <<main, pushes>>
  BY DEF UploadPptx, UploadPdf, Fatal
<1>2. CASE Fatal /\ UNCHANGED bucket
  BY <1>1, <1>2, <1>4, BreaksOffSilently DEF Fatal, At
<1>3. CASE ~(Fatal /\ UNCHANGED bucket)
  <2>1. /\ DOMAIN x = Fields /\ DOMAIN bucket = {"pptx", "pdf", "previews"}
        /\ DOMAIN bucket.previews = Order /\ x.stored = FALSE /\ x.tell = {}
    BY <1>1, ToStore, DeckFrame
  <2>2. /\ x'.out = x.out /\ x'.text = x.text /\ x'.tell = {} /\ x'.done = x.done
        /\ x'.plan = x.plan /\ x'.reg = x.reg /\ x'.deck = x.deck /\ x'.stage = x.stage
        /\ x'.image = x.image /\ x'.output = x.output /\ x'.repaired = x.repaired
        /\ DOMAIN x' = Fields /\ DOMAIN bucket' = DOMAIN bucket
        /\ bucket'.previews = bucket.previews /\ bucket'.pptx = FinalDeck
        /\ \/ x'.pc = "upload_pdf" /\ x'.stored = FALSE
           \/ x'.pc = "report" /\ x'.stored = TRUE /\ bucket'.pdf = FinalDeck
    <3>1. CASE /\ At("upload") /\ x' = [x EXCEPT !.pc = "upload_pdf"]
               /\ bucket' = [bucket EXCEPT !.pptx = FinalDeck]
      BY <2>1, <3>1 DEF Fields
    <3>2. CASE /\ bucket.pptx = FinalDeck /\ x' = [x EXCEPT !.pc = "report", !.stored = TRUE]
               /\ bucket' = [bucket EXCEPT !.pdf = FinalDeck]
      BY <2>1, <3>2 DEF Fields
    <3>3. QED
      BY <1>1, <1>3, <3>1, <3>2 DEF UploadPptx, UploadPdf, Go, At
  <2>3. /\ Planned' = Planned /\ Ready' = Ready /\ (SamePlan' <=> SamePlan) /\ Deck'
        /\ Underway' /\ FinalDeck' = FinalDeck
        /\ \A q : (Same(q)' <=> Same(q)) /\ Page(q)' = Page(q)
    BY <2>2 DEF Planned, Ready, SamePlan, Deck, Underway, FinalDeck, Same, Page, At
  <2>4. Completed' = Completed
    BY <2>2, <2>3 DEF Completed
  <2>5. main.job = "generating" /\ ~main.key
    BY <1>1, ToStore, DeckFrame
  <2>6. Shape'
    <3>1. Typed'
      BY <1>1, <1>4, <2>2, <2>3, <2>5, ToStore, DeckFrame
         DEF Inner, Shape, Typed, Places, Looking
    <3>2. Running'
      BY <1>1, <1>4, <2>2, <2>3, <2>5, ToStore, DeckFrame DEF Inner, Shape, Running, At
    <3>3. Registering'
      BY <1>1, <1>4, <2>2, <2>3, <2>5, ToStore, DeckFrame
         DEF Inner, Shape, Registering, At, Underway, Deck, Looking, Planned
    <3>4. Working'
      BY <1>1, <1>4, <2>2, <2>3, <2>5, ToStore, DeckFrame
         DEF Inner, Shape, Working, At, Underway, Deck, Looking, Planned
    <3>5. QED
      BY <3>1, <3>2, <3>3, <3>4 DEF Shape
  <2>13. /\ Deck /\ Underway /\ Clean(FinalDeck) /\ Completed # {}
         /\ x.done = Cardinality(Completed)
         /\ x'.pc \in {"upload_pdf", "report"} /\ x'.stored \in BOOLEAN
         /\ SamePlan => \A q \in Planned : x.out[q] = "ready" =>
              Same(q) /\ main.rows[q].fills = x.text[q] /\ bucket.previews[q] = Page(q)
         /\ \A q \in Planned : x.out[q] = "ready" <=> main.rows[q].status = "completed"
         /\ \A q \in Planned : x.out[q] = "ready" => q \in Ready
    BY <1>1, <2>2, ToStore
  <2>7. Cleared'
    <3>1. /\ \A q \in Planned :
             /\ x.stage[q] \in {"fit", "fit_again", "revise", "apply", "ready", "told_ready"} =>
                  x.text[q][2] = q
             /\ x.stage[q] \in Filled => x.deck[x.plan[q]] # Sample
          /\ Clean(x.output) /\ Clean(x.repaired)
      BY <2>13 DEF Inner, Cleared
    <3>2. QED
      BY <2>2, <2>3, <2>13, <3>1 DEF Cleared, Clean
  <2>8. Counted'
    BY <1>4, <2>2, <2>3, <2>4, <2>13 DEF Counted, At, Looking
  <2>9. Apart'
    BY <2>2 DEF Apart, At, Looking, Before
  <2>10. Laid'
    <3>1. Laid
      BY DEF Inner, Kept
    <3>2. QED
      BY <2>2, <2>3, <2>13, <3>1 DEF Laid
  <2>11. Kept'
    BY <1>4, <2>2, <2>3, <2>10, <2>13 DEF Kept, At
  <2>12. QED
    BY <2>6, <2>7, <2>8, <2>9, <2>11 DEF Inner
<1>5. QED
  BY <1>2, <1>3

-----------------------------------------------------------------------------
(* The verdict *)

(* Until the verdict there is nothing to agree with.                       *)
LEMMA Undecided ==
  ASSUME Running', main'.job = "generating"
  PROVE  NoSampleText' /\ VerdictAgrees' /\ ReadyIsInDeck'
BY DEF Running, NoSampleText, VerdictAgrees, ReadyIsInDeck

(* The rows the main server has as completed are the ones the worker counts. *)
LEMMA CountedRows ==
  ASSUME Inner, At("report"), x.stored
  PROVE  /\ Deck /\ IsFiniteSet(Planned) /\ Cardinality(Planned) = Len(x.plan)
         /\ {o \in DOMAIN main.rows : main.rows[o].status = "completed"} = Completed
         /\ Completed \subseteq Planned /\ Completed # {} /\ x.done = Cardinality(Completed)
         /\ x.done \in Nat \ {0} /\ (x.done = Len(x.plan) <=> Completed = Planned)
<1>1. Deck /\ DOMAIN main.rows = Planned /\ Planned = 1..Len(x.plan) /\ Len(x.plan) \in Nat
  BY DeckFrame DEF Deck
<1>2. IsFiniteSet(Planned) /\ Cardinality(Planned) = Len(x.plan)
  BY <1>1, FS_Interval
<1>3. /\ {o \in DOMAIN main.rows : main.rows[o].status = "completed"} = Completed
      /\ Completed \subseteq Planned /\ Completed # {} /\ x.done = Cardinality(Completed)
  BY <1>1 DEF Inner, Counted, Completed, At
<1>4. /\ IsFiniteSet(Completed) /\ Cardinality(Completed) \in Nat \ {0}
      /\ Cardinality(Completed) = Cardinality(Planned) => Completed = Planned
  BY <1>2, <1>3, FS_Subset, FS_EmptySet, FS_CardinalityType
<1>5. QED
  BY <1>1, <1>2, <1>3, <1>4

(* all_completed, when the main server takes it.                           *)
LEMMA VerdictStep ==
  ASSUME Inner, At("report"), UNCHANGED bucket,
         main' = [main EXCEPT !.job = JobStatus, !.key = x.stored]
  PROVE  NoSampleText' /\ VerdictAgrees' /\ ReadyIsInDeck'
<1>1. main'.job = JobStatus /\ main'.key = x.stored /\ main'.rows = main.rows
      /\ x.stored \in BOOLEAN
  BY DEF Inner, Shape, Typed
<1>2. CASE ~x.stored
  <2>1. main'.job = "error" /\ ~main'.key
    <3>1. x.done = 0
      BY <1>2 DEF Inner, Counted
    <3>2. JobStatus = "error"
      BY <3>1 DEF JobStatus
    <3>3. QED
      BY <1>1, <1>2, <3>2
  <2>2. QED
    BY <2>1 DEF NoSampleText, VerdictAgrees, ReadyIsInDeck
<1>3. CASE x.stored
  <2>1. bucket.pptx = FinalDeck /\ bucket.pdf = FinalDeck /\ Deck
    BY <1>3, CountedRows DEF Inner, Kept
  <2>2. NoSampleText'
    BY <1>3 DEF NoSampleText, Inner, Cleared, Clean
  <2>3. VerdictAgrees'
    <3>1. /\ main'.job = "completed" => x.done = Len(x.plan)
          /\ main'.job = "partial_error" => x.done # Len(x.plan)
      BY <1>1, <1>3, CountedRows DEF JobStatus
    <3>2. DOMAIN main.rows = Planned
      BY <2>1, DeckFrame
    <3>3. QED
      BY <1>1, <1>3, <3>1, <3>2, CountedRows DEF VerdictAgrees
  <2>4. ReadyIsInDeck'
    <3>1. SUFFICES ASSUME SameFiles' PROVE ReadyIsInDeck'
      BY DEF ReadyIsInDeck
    <3>2. DOMAIN main.rows = Planned /\ \A o \in Planned : x.reg[o] = main.rows[o].file
      BY <2>1, DeckFrame DEF Inner, Shape, Registering, Underway
    <3>3. \A o \in Planned : FinalDeck[o].file = x.plan[o]
      BY <2>1 DEF Inner, Kept, Laid, FinalDeck
    <3>4. \A o \in Planned : FinalDeck[o].file = main.rows[o].file
      BY <1>1, <2>1, <3>1, <3>2 DEF SameFiles
    <3>5. SamePlan
      BY <3>2, <3>3, <3>4 DEF SamePlan
    <3>6. \A o \in Planned : main.rows[o].status = "completed" => x.out[o] = "ready"
      BY <2>1 DEF Inner, Counted, At
    <3>7. \A o \in Planned : x.out[o] = "ready" =>
            /\ FinalDeck[o].text \in Applied(main.rows[o].fills)
            /\ bucket.previews[o] = FinalDeck[o].text
      BY <2>1, <3>5 DEF Inner, Kept, Same, Page
    <3>8. QED
      BY <1>1, <2>1, <3>2, <3>6, <3>7 DEF ReadyIsInDeck
  <2>5. QED
    BY <2>2, <2>3, <2>4
<1>4. QED
  BY <1>1, <1>2, <1>3

(* The report is heard once or tried again.                                *)
LEMMA ReportStep == ASSUME Inv, AllCompleted PROVE Inv'
<1>1. /\ At("report") /\ UNCHANGED bucket /\ x' = Idle /\ pushes' \in Nat
      /\ main' \in {main, [main EXCEPT !.job = JobStatus, !.key = x.stored]}
  BY DEF AllCompleted, Heard, Raises, Inv, Inner, Shape, Typed
<1>2. /\ DOMAIN main = {"job", "key", "rows"} /\ main.rows \in Rows /\ main.job = "generating"
      /\ DOMAIN bucket = {"pptx", "pdf", "previews"} /\ DOMAIN bucket.previews = Order
      /\ ~main.key
  BY <1>1 DEF Inv, Inner, Shape, Typed, Running, At
<1>3. CASE main' = main
  <2>1. Inner'
    BY <1>1, <1>2, <1>3, BreaksOff DEF Inv
  <2>2. QED
    BY <1>2, <1>3, <2>1, Undecided DEF Inv, Inner, Shape
<1>4. CASE main' = [main EXCEPT !.job = JobStatus, !.key = x.stored]
  <2>1. /\ DOMAIN main' = {"job", "key", "rows"} /\ main'.rows \in Rows
        /\ main'.job # "generating"
    BY <1>2, <1>4 DEF JobStatus
  <2>2. Inner'
    BY <1>1, <1>2, <2>1, BreaksOff DEF Inv
  <2>3. QED
    BY <1>1, <1>4, <2>2, VerdictStep DEF Inv
<1>5. QED
  BY <1>1, <1>3, <1>4

(* The main server's clock.                                                *)
LEMMA HealStep == ASSUME Inv, HealStuck PROVE Inv'
<1> DEFINE rows == [o \in DOMAIN main.rows |->
                      IF main.rows[o].status \in InProgress
                      THEN [main.rows[o] EXCEPT !.status = "error"] ELSE main.rows[o]]
           done == {o \in DOMAIN rows : rows[o].status = "completed"}
           job == IF done = {} THEN "error"
                  ELSE IF done = DOMAIN rows THEN "completed" ELSE "partial_error"
<1>1. /\ At("idle") /\ UNCHANGED <<bucket, x, pushes>>
      /\ main' = [main EXCEPT !.rows = rows, !.job = IF @ = "generating" THEN job ELSE @]
  BY DEF HealStuck
<1>2. /\ DOMAIN main = {"job", "key", "rows"} /\ main.rows \in Rows /\ x.stored = FALSE
      /\ Len(main.rows) \in Nat /\ DOMAIN main.rows = 1..Len(main.rows)
      /\ \A o \in DOMAIN main.rows : main.rows[o] \in Row
  BY <1>1, RowsMade DEF Inv, Inner, Shape, Typed, Running, At
<1>3. \A o \in DOMAIN main.rows :
        /\ rows[o] \in Row /\ rows[o].file = main.rows[o].file
        /\ rows[o].status = "completed" <=> main.rows[o].status = "completed"
        /\ rows[o].status = "completed" => rows[o] = main.rows[o]
  BY <1>2 DEF Row, InProgress
<1>4. DOMAIN rows = DOMAIN main.rows
  OBVIOUS
<1>5. rows \in Rows /\ Len(rows) = Len(main.rows)
  <2> HIDE DEF rows
  <2>0. rows = [o \in 1..Len(main.rows) |-> rows[o]]
    BY <1>2 DEF rows
  <2>1. rows \in [1..Len(main.rows) -> Row]
    BY <1>2, <1>3, <2>0
  <2>2. rows \in Seq(Row)
    BY <1>2, <2>1
  <2>3. QED
    BY <1>2, <2>1, <2>2, LenProperties DEF Rows
<1>6. done = {o \in DOMAIN main.rows : main.rows[o].status = "completed"}
  BY <1>3, <1>4
<1>7. /\ job # "generating"
      /\ job = "completed" => done # {} /\ done = DOMAIN rows
      /\ job = "partial_error" => done # {} /\ done # DOMAIN rows
  OBVIOUS
<1> HIDE DEF rows, done, job
<1>8. /\ main'.rows = rows /\ main'.key = main.key /\ DOMAIN main' = {"job", "key", "rows"}
      /\ main.job = "generating" => main'.job = job
      /\ main.job # "generating" => main'.job = main.job
  BY <1>1, <1>2
<1>9. Inner'
  <2>1. Shape'
    BY <1>1, <1>2, <1>5, <1>7, <1>8
       DEF Inv, Inner, Shape, Typed, Running, Registering, Working,
       At, Underway, Deck, Looking
  <2>2. Cleared' /\ Apart' /\ Kept'
    BY <1>1, <1>2
       DEF Inv, Inner, Cleared, Apart, Before, Kept, Laid, At, Underway, Deck, Looking
  <2>3. Counted'
    BY <1>1, <1>2 DEF Inv, Inner, Counted, At, Deck, Looking
  <2>4. QED
    BY <2>1, <2>2, <2>3 DEF Inner
<1>10. NoSampleText'
  BY <1>1, <1>8 DEF Inv, NoSampleText
<1>11. VerdictAgrees'
  <2>1. {o \in DOMAIN main'.rows : main'.rows[o].status = "completed"} = done
    BY <1>8 DEF done
  <2>2. QED
    BY <1>4, <1>6, <1>7, <1>8, <2>1 DEF Inv, VerdictAgrees
<1>12. ReadyIsInDeck'
  <2>1. SameFiles' => SameFiles
    BY <1>1, <1>3, <1>4, <1>5, <1>8 DEF SameFiles
  <2>2. QED
    BY <1>1, <1>3, <1>4, <1>8, <2>1 DEF Inv, ReadyIsInDeck
<1>13. QED
  BY <1>9, <1>10, <1>11, <1>12 DEF Inv

(* The steps of an execution do not touch the job's status.                *)
LEMMA JobStays ==
  ASSUME Inner,
         \/ Push \/ Crash \/ CreatePlan \/ SubmitPlan \/ PrepareDeck \/ Content
         \/ PackDeck \/ RenderDeck \/ (\E o \in Order : CheckSlide(o))
         \/ UploadPreview \/ SendReady \/ TellError
         \/ NextRound \/ ApplyFix \/ PackFixed \/ RenderFixed
         \/ CountOutcomes \/ RenderFinal \/ UploadPptx \/ UploadPdf
  PROVE  main'.job = "generating"
<1>1. ~At("idle") \/ Push => main.job = "generating"
  BY DEF Inner, Shape, Running, Push
<1>2. DOMAIN main = {"job", "key", "rows"}
  BY DEF Inner, Shape, Typed
<1>3. CASE \/ Push \/ Crash \/ CreatePlan \/ PrepareDeck \/ PackDeck \/ RenderDeck
           \/ UploadPreview \/ (\E o \in Order : CheckSlide(o)) \/ NextRound \/ ApplyFix
           \/ PackFixed \/ RenderFixed
           \/ CountOutcomes \/ RenderFinal \/ UploadPptx \/ UploadPdf
  <2>1. main' = main /\ (~At("idle") \/ Push)
    BY <1>3
       DEF Crash, CreatePlan, PrepareDeck, PackDeck, RenderDeck, UploadPreview, CheckSlide,
       NextRound, ApplyFix, PackFixed, RenderFixed, CountOutcomes, RenderFinal, UploadPptx,
       UploadPdf, Push, Fatal, At
  <2>2. QED
    BY <1>1, <2>1
<1>4. CASE SubmitPlan
  BY <1>1, <1>2, <1>4 DEF SubmitPlan, Heard, Raises, At
<1>5. CASE Content
  <2>1. PICK o \in Order : \/ CreateFills(o) \/ Preflight(o) \/ ReviseFills(o)
                           \/ ApplyFills(o) \/ ClearContent(o) \/ TellContent(o)
    BY <1>5 DEF Content
  <2>2. CASE CreateFills(o) \/ Preflight(o) \/ ReviseFills(o)
    <3>1. At("contents") /\ main' = main
      BY <2>2, Writing DEF Writes, Then
    <3>2. QED
      BY <1>1, <3>1 DEF At
  <2>3. CASE ApplyFills(o) \/ ClearContent(o) \/ TellContent(o)
    BY <1>1, <1>2, <2>3 DEF ApplyFills, ClearContent, TellContent, Stage, Heard, Raises, At
  <2>4. QED
    BY <2>1, <2>2, <2>3
<1>6. CASE SendReady
  BY <1>1, <1>2, <1>6 DEF SendReady, Heard, Raises, At
<1>7. CASE TellError
  BY <1>1, <1>2, <1>7 DEF TellError, Heard, Raises, At
<1>8. QED
  BY <1>3, <1>4, <1>5, <1>6, <1>7

(* The queue forgets a job that is over.                                   *)
LEMMA SkipStep == ASSUME Inv, Skip PROVE Inv'
<1>1. UNCHANGED <<main, bucket, x>> /\ pushes' \in Nat
  BY DEF Skip
<1>2. QED
  BY <1>1 DEF Inv, Inner, Shape, Typed, Running, Registering, Working, Cleared, Counted, Apart,
     Kept, Laid, NoSampleText, VerdictAgrees, ReadyIsInDeck, SameFiles, At, Underway, Deck,
     Planned, SamePlan, Same, Page, FinalDeck, Ready, Completed, Clean

-----------------------------------------------------------------------------
(* The theorems *)

(* Nothing has happened yet.                                               *)
LEMMA Initially == Init => Inv
<1> SUFFICES ASSUME Init PROVE Inv
  OBVIOUS
<1>1. /\ DOMAIN x = Fields /\ x.pc = "idle" /\ x.stored = FALSE /\ x.repaired = <<>>
      /\ x.tell = {}
      /\ x.done = 0 /\ x.failed = {} /\ x.fixed = {}
  BY DEF Init, Idle, Fields
<1>2. /\ main.job = "generating" /\ ~main.key /\ main.rows = <<>>
      /\ DOMAIN main = {"job", "key", "rows"}
      /\ DOMAIN bucket = {"pptx", "pdf", "previews"} /\ DOMAIN bucket.previews = Order
      /\ pushes \in Nat /\ main.rows \in Rows
  BY BoundAssumption DEF Init, Rows
<1>3. Inner
  BY <1>1, <1>2
     DEF Inner, Shape, Typed, Running, Registering, Working, Cleared, Counted, Apart,
     Before, Kept, Laid, At, Underway, Deck, Looking, Places
<1>4. QED
  BY <1>2, <1>3 DEF Inv, NoSampleText, VerdictAgrees, ReadyIsInDeck

(* Every step keeps the invariant.                                         *)
LEMMA StepKeeps == ASSUME Inv, [Next]_vars PROVE Inv'
<1> USE DEF Inv
<1>1. CASE \/ Push \/ Crash \/ CreatePlan \/ SubmitPlan \/ PrepareDeck \/ Content
           \/ PackDeck \/ RenderDeck \/ (\E o \in Order : CheckSlide(o))
           \/ UploadPreview \/ SendReady \/ TellError
           \/ NextRound \/ ApplyFix \/ PackFixed \/ RenderFixed
           \/ CountOutcomes \/ RenderFinal \/ UploadPptx \/ UploadPdf
  <2>1. Inner'
    <3>1. CASE Push
      BY <3>1, PushStep
    <3>2. CASE Crash
      BY <3>2, BreaksOffSilently DEF Crash
    <3>3. CASE CreatePlan
      BY <3>3, PlanStep
    <3>4. CASE SubmitPlan
      BY <3>4, SubmitStep
    <3>5. CASE PrepareDeck
      BY <3>5, PrepareStep
    <3>6. CASE Content
      <4>1. PICK o \in Order : \/ CreateFills(o) \/ Preflight(o) \/ ReviseFills(o)
                               \/ ApplyFills(o) \/ ClearContent(o) \/ TellContent(o)
        BY <3>6 DEF Content
      <4>2. CASE CreateFills(o) \/ Preflight(o) \/ ReviseFills(o)
        BY <4>2, Writing, WriteStep
      <4>3. CASE ApplyFills(o) \/ ClearContent(o)
        BY <4>3, FillStep
      <4>4. CASE TellContent(o)
        BY <4>4, TellContentStep
      <4>5. QED
        BY <4>1, <4>2, <4>3, <4>4
    <3>7. CASE PackDeck
      BY <3>7, PackStep
    <3>8. CASE RenderDeck
      BY <3>8, RenderStep
    <3>9. CASE \E o \in Order : CheckSlide(o)
      BY <3>9, CheckStep
    <3>10. CASE UploadPreview
      BY <3>10, PreviewStep
    <3>11. CASE SendReady
      BY <3>11, SendStep
    <3>12. CASE TellError
      BY <3>12, TellStep
    <3>13. CASE NextRound
      BY <3>13, RoundStep
    <3>14. CASE ApplyFix
      BY <3>14, FixStep
    <3>15. CASE PackFixed
      BY <3>15, PackFixedStep
    <3>16. CASE RenderFixed
      BY <3>16, RenderFixedStep
    <3>17. CASE CountOutcomes
      BY <3>17, CountStep
    <3>18. CASE RenderFinal
      BY <3>18, RenderFinalStep
    <3>19. CASE UploadPptx \/ UploadPdf
      BY <3>19, UploadStep
    <3>20. QED
      BY <1>1, <3>1, <3>2, <3>3, <3>4, <3>5, <3>6, <3>7, <3>8, <3>9, <3>10, <3>11, <3>12,
         <3>13,
         <3>14, <3>15, <3>16, <3>17, <3>18, <3>19
  <2>2. main'.job = "generating"
    BY <1>1, JobStays
  <2>3. QED
    BY <2>1, <2>2, Undecided DEF Inner, Shape
<1>2. CASE Skip
  BY <1>2, SkipStep
<1>3. CASE HealStuck
  BY <1>3, HealStep
<1>4. CASE AllCompleted
  BY <1>4, ReportStep
<1>5. CASE UNCHANGED vars
  BY <1>5
     DEF vars, Inner, Shape, Typed, Running, Registering, Working, Cleared, Counted, Apart,
     Kept, Laid, NoSampleText, VerdictAgrees, ReadyIsInDeck, SameFiles, At, Underway, Deck,
     Planned, SamePlan, Same, Page, FinalDeck, Ready, Completed, Clean
<1>6. QED
  BY <1>1, <1>2, <1>3, <1>4, <1>5 DEF Next

(* The invariant holds throughout the generation of a deck.                *)
THEOREM Invariance == Spec => []Inv
<1>1. Inv /\ [Next]_vars => Inv'
  BY StepKeeps
<1>2. QED
  BY <1>1, Initially, PTL DEF Spec

(* No page of a deck handed to the user shows the template's samples, for
   any template, any number of slides, fixes and pushes.                   *)
THEOREM NoSampleTextHolds == Spec => []NoSampleText
<1>1. Inv => NoSampleText
  BY DEF Inv
<1>2. QED
  BY <1>1, Invariance, PTL

(* The job's verdict is the one its slides give: what the worker counts is
   what the main server heard, lost answers and reruns included.           *)
THEOREM VerdictAgreesHolds == Spec => []VerdictAgrees
<1>1. Inv => VerdictAgrees
  BY DEF Inv
<1>2. QED
  BY <1>1, Invariance, PTL

(* A completed slide is the same in its fills, its preview, the stored deck
   and the PDF, when the rows name the files of the deck.                  *)
THEOREM ReadyIsInDeckHolds == Spec => []ReadyIsInDeck
<1>1. Inv => ReadyIsInDeck
  BY DEF Inv
<1>2. QED
  BY <1>1, Invariance, PTL

=============================================================================
