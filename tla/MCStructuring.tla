---------------------------- MODULE MCStructuring ----------------------------
(* Small instances of FilePlacing, and with it of Structuring, for TLC.    *)
EXTENDS FilePlacing

Block(up, level, sec, slot, blank) ==
  [up |-> up, level |-> level, sec |-> sec, slot |-> slot, blank |-> blank]

(* An activity without blocks.                                             *)
Bare == [act |-> Block(None, 2, None, None, FALSE)]

(* A category as the main server lays it out: an anchor and its slots, all *)
(* empty.                                                                  *)
Laid == [act |-> Block(None, 2, None, None, FALSE),
         c |-> Block("act", 3, "episodes", None, FALSE),
         e |-> Block("c", 4, None, Anchor, TRUE),
         f |-> Block("e", 5, None, "t1", TRUE)]

(* The same with a written anchor.                                         *)
Begun == [Laid EXCEPT !.e.blank = FALSE]

(* Blocks written by hand: no section and no slots.                        *)
Free == [act |-> Block(None, 2, None, None, FALSE),
         c |-> Block("act", 3, None, None, FALSE),
         e |-> Block("c", 4, None, None, FALSE)]

At(slot, at) == [slot |-> slot, at |-> at]

(* Two long pieces, one a call; three short ones, two a call.              *)
Long(blocks, shapes) ==
  [tree |-> blocks, pieces |-> <<1, 2>>, size |-> 1, label |-> <<None, None>>,
   hint |-> <<None, None>>, meaning |-> <<None, None>>, gap |-> None,
   shapes |-> shapes, homes |-> {"c", "section"}]
Short(blocks, shapes) ==
  [Long(blocks, shapes) EXCEPT !.pieces = <<1, 2, 3>>, !.size = 2,
     !.label = <<None, None, None>>, !.hint = <<None, None, None>>,
     !.meaning = <<None, None, None>>]

Usual == {At("t1", "new"), At("t1", "e"), At("t2", "old"), At(Anchor, "new")}
Odd == {At("result", "new"), At("summary", "old"), At("b1", "new"), At("lesson", "act")}

Headings == [Short(Bare, Usual) EXCEPT !.label = <<"A", "A", "B">>]
Words == [Long(Bare, Odd) EXCEPT !.homes = {"merged"}, !.hint = <<"t1", None>>,
                                 !.meaning = <<None, "growth">>]
Steps == [Words EXCEPT !.meaning = <<None, "t2">>]
Reply == [Long(Begun, {At("t1", "e"), At("t1", "new"), At("o1", "e")}) EXCEPT !.gap = "e"]
ByHand == [Long(Free, {At("t1", "new"), At("t1", "c"), At("growth", "c")}) EXCEPT !.homes = {"c", "section"}]

(* A file: its lines, the answers a line may get and the wishes a message  *)
(* may express.                                                            *)
File(blocks, lines, may, wishes) ==
  [tree |-> blocks, lines |-> lines, may |-> may, wishes |-> wishes]
Plain(text) == [msg |-> FALSE, head |-> FALSE, sub |-> FALSE, name |-> FALSE,
                num |-> None, known |-> FALSE, text |-> text, plain |-> FALSE, size |-> 4]
Message(plain) == [Plain("message") EXCEPT !.msg = TRUE, !.plain = plain]
Title(n, text) == [Plain(text) EXCEPT !.head = TRUE, !.num = n]
Sub(text) == [Plain(text) EXCEPT !.head = TRUE, !.sub = TRUE, !.size = 2]
Sized(line, size) == [line EXCEPT !.size = size]
To(slot, ep) == [slot |-> slot, ep |-> ep, why |-> None]
Out(why) == [slot |-> Exclude, ep |-> None, why |-> why]
NoWish == [only |-> {}, without |-> {}]

(* Two projects, a subheading and a text: chunks, episodes and titles.     *)
Projects ==
  File(Bare, <<Title(1, "p"), Sub("s"), Title(2, "q"), Plain("t")>>,
       <<{To(Anchor, 1)},
         {To(Anchor, 2), To("t1", 1), To(Heading, None)},
         {To(Anchor, 3), To("b1", 3), Out(None)},
         {To("b1", 4), To("t2", 2), To("growth", None)}>>, {NoWish})

(* A message with a request, and lines that are left out for it.           *)
Request ==
  File(Laid, <<Message(FALSE), Plain("a"), Plain("b"), Plain("c")>>,
       <<{To(Instruction, None), To("t1", 1)}, {To(Anchor, 2), Out("request")},
         {To("t1", 2), Out("request"), Out(None)}, {To("growth", None), To("t1", 4)}>>,
       {NoWish, [only |-> {"episodes"}, without |-> {}], [only |-> {}, without |-> {"learning"}]})

(* A plain request, a title repeated, a text repeated and one the activity *)
(* holds already.                                                          *)
Repeats ==
  File(Begun, <<Message(TRUE), Title(1, "p"), Title(1, "r"), Plain("a"), [Plain("a") EXCEPT !.known = TRUE],
                Plain("a")>>,
       <<{To(Instruction, None)}, {To(Anchor, 2)}, {To(Anchor, 3), To(Anchor, 2)},
         {To("t1", 2), To(Anchor, 4)}, {To("t2", 3)}, {To("t1", 3), To("b1", 4)}>>,
       {NoWish, [only |-> {"learning"}, without |-> {}]})

(* The name of a section, a title alone, lessons in an activity that has   *)
(* an empty category.                                                      *)
Sections ==
  File(Laid, <<[Sub("n") EXCEPT !.name = TRUE], Plain("a"), Sub("s"), Plain("b")>>,
       <<{To("t1", 1), Out(None)}, {To("t1", 2), To(Anchor, 2)},
         {To("o1", 2), To("growth", None)}, {To("t2", 2), To("growth", None)}>>, {NoWish})

(* An episode of titles that are longer than a block, and a marker.        *)
Titles ==
  File(Laid, <<Plain("a"), Sized(Title(1, "p"), 6), Plain("b"), Sized(Plain("c"), 0), Plain("d")>>,
       <<{To(Anchor, 1)}, {To(Anchor, 1), To("t1", 1)}, {To(Anchor, 1), To("growth", None)},
         {To("t1", 1)}, {To(Anchor, 1), To("t1", 1)}>>, {NoWish})

(* A slot with more text than a block, and slots of two templates.         *)
Texts ==
  File(Laid, <<Title(2, "p"), Sub("s"), Sized(Plain("a"), 9), Plain("b"), Sized(Plain("c"), 12)>>,
       <<{To(Anchor, 1)}, {To("t1", 1), To("growth", None)}, {To("t1", 1), To("growth", None)},
         {To("t1", 1), To("b1", 1)}, {To("t1", 1), To("t2", 1), To("growth", None)}>>, {NoWish})

TitlesOnly == {Titles}
Files == {Projects, Request, Repeats, Sections, Titles, Texts}

(* An answer to a question about one of two episodes.                      *)
TwoEpisodes == [act |-> Begun.act, c |-> Begun.c, e |-> Begun.e, f |-> Begun.f,
                d |-> Begun.e, g |-> [Begun.f EXCEPT !.up = "d"]]
ReplyOnly == {[Reply EXCEPT !.tree = TwoEpisodes, !.gap = "d"]}

(* The activity without blocks and the wording of slots; an answer to an  *)
(* open question; blocks written by hand; the laid out category.           *)
AllInputs == Files \cup {Headings, Words, Steps, Reply, ByHand,
                        Long(Laid, Usual \ {At("t1", "e")}), Long(Begun, Usual \ {At("t2", "old")})}
=============================================================================
