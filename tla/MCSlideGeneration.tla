--------------------------- MODULE MCSlideGeneration ---------------------------
(* Small instances of SlideGeneration for TLC.                             *)
EXTENDS SlideGeneration, TLC

Symmetry == Permutations(File)

(* What is overwritten before it is read again is left out: the fills and   *)
(* the preview of a slide that is not completed, the stored deck before the
   execution at hand has stored its own, and in an execution the text of a
   slide with an outcome, its page, and the first packed deck once there is
   a repaired one.                                                         *)
Stored == main.key \/ x.pc = "upload_pdf" \/ x.stored

Shown(o) == o \in DOMAIN main.rows /\ main.rows[o].status = "completed"

Open(o) == x.out[o] = "none" /\ x.stage[o] \notin {"clear", "failed", "told_failed"}

Essential ==
  <<main.job, main.key, pushes,
    [o \in DOMAIN main.rows |-> [main.rows[o] EXCEPT !.fills = IF Shown(o) THEN @ ELSE Absent]],
    [o \in Order |-> IF Shown(o) \/ (x.pc = "send_ready" /\ x.cur = o)
                     THEN bucket.previews[o] ELSE Absent],
    IF Stored THEN <<bucket.pptx, bucket.pdf>> ELSE <<>>,
    [x EXCEPT !.text = [o \in DOMAIN @ |-> IF Open(o) THEN @[o] ELSE Absent],
              !.image = [o \in DOMAIN @ |->
                           IF o \in x.check \/ (x.pc = "publish" /\ o = x.cur) THEN @[o] ELSE Absent],
              !.output = IF x.repaired = <<>> THEN @ ELSE <<>>,
              !.stage = IF x.pc \in {"contents", "render"} THEN @ ELSE <<>>,
              !.cur = IF x.pc \in {"publish", "send_ready"} THEN @ ELSE 0,
              !.fixed = IF x.pc \in {"fix", "render_fixed"} THEN @ ELSE {},
              !.then = IF x.pc = "tell" THEN @ ELSE "idle"]>>
=============================================================================
