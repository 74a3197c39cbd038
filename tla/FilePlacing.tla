----------------------------- MODULE FilePlacing -----------------------------
(* The way of a file through the content filter and the structuring node   *)
(* (file_pipeline): a model assigns every line a slot and an episode,      *)
(* chunk by chunk; rules correct the assignment, exclusions are checked a  *)
(* second time, and the blocks are made from the assignment without        *)
(* another call.  It shares the tree, the items and pc with Structuring,   *)
(* whose node it ends in.                                                  *)
EXTENDS Structuring

CONSTANTS
  ChunkLines,   \* lines of one call
  ListingGap,   \* lines between two titles of a list of contents
  MaxContent    \* characters of a block

(* Every line has a length.                                                *)
ASSUME LineAssumption ==
  \A i \in Inputs : "lines" \in DOMAIN i => \A l \in 1..Len(i.lines) : i.lines[l].size \in Nat

VARIABLES
  answer,       \* line -> the slot, the episode and the reason it was given
  left,         \* the chunks not answered yet
  scope,        \* sections the message asks for, and sections it excludes
  gone,         \* lines a second call or the user's request has excluded
  assigned      \* line -> the slot and the episode it is placed by, of those placed

fvars == <<answer, left, scope, gone, assigned>>
-----------------------------------------------------------------------------
(* Lines.  The lines of the message come first.  A line is of the message  *)
(* or not, looks like a heading or not, names a section or not, may be the *)
(* title of a numbered project, may be in the activity already, has an     *)
(* identity to compare it with other lines, and so many characters (none   *)
(* when it is a mere marker of a list).                                    *)
Line(l) == input.lines[l]
Lines == 1..Len(input.lines)
FileLines == {l \in Lines : ~Line(l).msg}
Heading == "HEADING"
Exclude == "EXCLUDE"
Instruction == "INSTRUCTION"
Slots == Leaf \cup {Anchor, "growth"}
InSlot(a, l) == a[l].slot \in Slots
InEpisodes(a, l) == a[l].slot \in Leaf \cup {Anchor}
InOrder(S) == SetToSortSeq(S, LAMBDA k, l : k < l)
PerLine(F(_)) == Each(Lines, F)

(* Chunks: cut in front of a project or a heading when they are long       *)
(* enough, anywhere when they are too long, and never in a list of titles. *)
Chunks ==
  LET file == InOrder(FileLines)
      titles == {l \in FileLines : Line(l).num # None}
      listed(l) == \E t \in titles : t # l /\ t <= l + ListingGap /\ l <= t + ListingGap
      full(c, l) == \/ 10 * Len(c) >= 4 * ChunkLines /\ Line(l).num # None /\ ~listed(l)
                    \/ 10 * Len(c) >= 6 * ChunkLines /\ Line(l).head /\ ~listed(l)
                    \/ 10 * Len(c) >= 15 * ChunkLines
      add(cs, l) == IF Last(cs) # <<>> /\ full(Last(cs), l) THEN Append(cs, <<l>>)
                    ELSE [cs EXCEPT ![Len(cs)] = Append(@, l)]
      cut == IF Len(file) <= ChunkLines THEN <<file>> ELSE FoldLeft(add, <<<<>>>>, file)
  IN  [cut EXCEPT ![1] = InOrder(Lines \ FileLines) \o @]

(* An episode cut at the border of a chunk goes on, if the next chunk does *)
(* not give it a title.                                                    *)
Stitch(a) ==
  LET titled == {a[l].ep : l \in {k \in Lines : a[k].slot = Anchor}}
      slotted(b, c) == SelectSeq(c, LAMBDA l : InSlot(b, l))
      join(b, n) ==
        LET before == slotted(b, Chunks[n])
            after == slotted(b, Chunks[n + 1])
            last == b[Last(before)]
            next == b[Head(after)]
        IN  IF /\ before # <<>> /\ after # <<>> /\ last.ep # None /\ next.ep # None
               /\ SectionOf(last.slot) = SectionOf(next.slot) /\ next.ep \notin titled
            THEN PerLine(LAMBDA l : IF b[l].ep = next.ep THEN [b[l] EXCEPT !.ep = last.ep] ELSE b[l])
            ELSE b
  IN  FoldLeft(join, a, [n \in 1..Len(Chunks) - 1 |-> n])

(* One title for an episode: the others go where the next line of the      *)
(* episode is, or the one before.                                          *)
SingleTitle(a) ==
  LET plain(b, l) == {k \in Lines : InEpisodes(b, k) /\ b[k].slot # Anchor /\ b[k].ep = b[l].ep}
      next(b, l) == LET after == {k \in plain(b, l) : k > l} IN
                    IF after # {} THEN First(after)
                    ELSE IF plain(b, l) # {} THEN Greatest(plain(b, l)) ELSE None
      extra(b, l) == /\ b[l].slot = Anchor /\ b[l].ep # None
                     /\ \E k \in 1..l - 1 : b[k].slot = Anchor /\ b[k].ep = b[l].ep
      one(b, l) == IF extra(b, l) /\ next(b, l) # None
                   THEN [b EXCEPT ![l].slot = b[next(b, l)].slot] ELSE b
  IN  FoldLeft(one, a, InOrder(Lines))

(* Where two projects have titles of their own, whatever follows a title   *)
(* outside a project belongs to it.                                        *)
AttachToProjects(a) ==
  LET title(l) == Line(l).num # None /\ a[l].slot = Anchor /\ a[l].ep # None
      of(n) == First({l \in Lines : title(l) /\ Line(l).num = n})
      numbers == {Line(l).num : l \in {k \in Lines : title(k)}}
      projects == {a[of(n)].ep : n \in numbers}
      current(l) == LET T == {k \in 1..l : a[k].slot # None /\ Line(k).num \in numbers}
                    IN  IF T = {} THEN None ELSE a[of(Line(Greatest(T)).num)].ep
      slot(b, l) == LET next == First({k \in l + 1..Len(input.lines) :
                                   b[k].ep = b[l].ep /\ b[k].slot \in Leaf})
                    IN  IF b[l].slot # Anchor THEN b[l].slot
                        ELSE IF next = None THEN "b1" ELSE b[next].slot
      attach(b, l) ==
        IF Line(l).num # None \/ current(l) = None \/ ~InEpisodes(b, l) \/ b[l].ep \in projects
        THEN b
        ELSE PerLine(LAMBDA k :
               IF k = l THEN [b[k] EXCEPT !.slot = slot(b, l), !.ep = current(l)]
               ELSE IF b[l].ep # None /\ b[k].ep = b[l].ep
               THEN [b[k] EXCEPT !.ep = current(l)] ELSE b[k])
  IN  IF Cardinality(numbers) < 2 THEN a
      ELSE FoldLeft(attach, a, InOrder(Lines))

Arranged(a) == AttachToProjects(SingleTitle(Stitch(a)))

(* Names of sections, and titles that stand alone, are headings.           *)
DemoteHeadings(a) ==
  LET alone(l) == a[l].ep = None \/ \A k \in Lines : a[k].ep = a[l].ep => k = l
  IN  PerLine(LAMBDA l :
         IF a[l].slot # None /\ Line(l).head /\ (Line(l).name \/ (a[l].slot = Anchor /\ alone(l)))
         THEN [a[l] EXCEPT !.slot = Heading] ELSE a[l])

(* A subheading goes with the text below it.                               *)
HeadingFollows(a) ==
  LET given == {l \in FileLines : a[l].slot # None}
      below(l) == {k \in given : k > l /\ Cardinality({j \in given : l < j /\ j <= k}) <= 3}
      text(l) == First({k \in below(l) : InSlot(a, k) /\ ~Line(k).sub})
      moves(l) == /\ l \in given /\ InSlot(a, l) /\ a[l].slot # Anchor
                  /\ Line(l).sub /\ Line(l).num = None
                  /\ text(l) # None /\ a[text(l)].slot # Anchor
  IN  PerLine(LAMBDA l : IF moves(l) THEN [a[l] EXCEPT !.slot = a[text(l)].slot, !.ep = a[text(l)].ep]
                         ELSE a[l])

(* Sections the user did not ask for, of the lines of the file.            *)
OutOfScope(a, s) ==
  {l \in FileLines : /\ InSlot(a, l)
                     /\ \/ s.only # {} /\ SectionOf(a[l].slot) \notin s.only
                        \/ SectionOf(a[l].slot) \in s.without}

(* What is placed: lines in a slot; a line without one goes with the line  *)
(* before it.                                                              *)
Skipped(a, out, l) ==
  l \in out \/ a[l].slot = Instruction \/ (a[l].slot = Heading /\ Line(l).head)
AnsweredOnly(a, out) ==
  Each({l \in Lines : InSlot(a, l) /\ ~Skipped(a, out, l)}, LAMBDA l : a[l])
Assigned(a, out) ==
  LET before(l) == {k \in 1..l : InSlot(a, k) /\ ~Skipped(a, out, k)}
  IN  Each({l \in Lines : ~Skipped(a, out, l) /\ before(l) # {}},
           LAMBDA l : a[Greatest(before(l))])
-----------------------------------------------------------------------------
(* Blocks from the assignment.                                             *)

(* Episodes of one project, or with the same first line, are one.          *)
KeyOf(ep) == IF ep = None THEN <<"auto">>
             ELSE IF Line(ep).num # None THEN <<"project", Line(ep).num>> ELSE <<"line", Line(ep).text>>

(* Where each line goes, and the rank it has among the lines there.  A     *)
(* title after the title of its episode waits for the next line of the     *)
(* episode, or comes behind the title when there is none; a text twice in  *)
(* a slot is placed once.                                                  *)
LineKey(l) == IF assigned[l].slot = "growth" THEN <<"learning">> ELSE KeyOf(assigned[l].ep)
Entry(l, slot) == [key |-> LineKey(l), slot |-> slot, rank |-> 0]
LinesAt(g, k, slot) == {l \in DOMAIN g : g[l].key = k /\ g[l].slot = slot}
Insert(g, l, slot) ==
  Each(DOMAIN g \cup {l}, LAMBDA m : IF m = l THEN Entry(l, slot) ELSE g[m])
Flushed(g, l) ==
  LET waits(m) == m \in LinesAt(g, LineKey(l), "waiting") /\ assigned[l].slot # Anchor
  IN  Each(DOMAIN g, LAMBDA m : IF waits(m) THEN Entry(m, assigned[l].slot) ELSE g[m])
Put(g, l) ==
  LET k == LineKey(l)
      slot == assigned[l].slot
      twins == {m \in LinesAt(Flushed(g, l), k, slot) : Line(m).text = Line(l).text}
  IN  IF slot = Anchor /\ LinesAt(g, k, Anchor) # {} /\ Line(l).num = None THEN Insert(g, l, "waiting")
      ELSE IF k # <<"learning">> /\ twins # {} THEN Flushed(g, l)
      ELSE Insert(Flushed(g, l), l, slot)

Placing == {l \in DOMAIN assigned : ~Line(l).known /\ Line(l).size # 0}
Grouped ==
  LET run[l \in 0..Len(input.lines)] ==
        IF l = 0 THEN <<>> ELSE IF l \in Placing THEN Put(run[l - 1], l) ELSE run[l - 1]
      g == run[Len(input.lines)]
  IN  Each(DOMAIN g, LAMBDA l :
         IF g[l].slot = "waiting" THEN [g[l] EXCEPT !.slot = Anchor, !.rank = 1] ELSE g[l])

(* Of several titles of one project the longest is kept; of several        *)
(* templates the one with most slots, the others' lines by their slots;    *)
(* without a title the first line is the title.                            *)
TitlesKept(g) ==
  LET titles(k) == {l \in LinesAt(g, k, Anchor) : Line(l).num # None}
      longest(k) == First({l \in titles(k) : \A m \in titles(k) : Line(m).size <= Line(l).size})
      dropped(l) == l \in titles(g[l].key) /\ l # longest(g[l].key)
  IN  Each({l \in DOMAIN g : ~dropped(l)}, LAMBDA l : g[l])
OneTemplate(g) ==
  LET leaves(k) == {g[l].slot : l \in {m \in DOMAIN g : g[m].key = k}} \cap Leaf
      used(k, t) == Cardinality(leaves(k) \cap Template[t])
      chosen(k) == CHOOSE t \in DOMAIN Template : \A u \in DOMAIN Template : used(k, u) <= used(k, t)
      fit(x) == [x EXCEPT !.rank = Least(LinesAt(g, x.key, x.slot)),
                          !.slot = IF @ \in Template[chosen(x.key)] THEN @
                                   ELSE CHOOSE q \in Template[chosen(x.key)] : TRUE]
  IN  Each(DOMAIN g, LAMBDA l : IF g[l].slot \in Leaf THEN fit(g[l]) ELSE g[l])
WithTitle(g) ==
  LET of(k) == {l \in DOMAIN g : g[l].key = k}
      raise(l) == LET k == g[l].key IN /\ k # <<"learning">> /\ l = First(of(k))
                                       /\ \A m \in of(k) : g[m].slot # Anchor
  IN  Each(DOMAIN g, LAMBDA l : IF raise(l) THEN [g[l] EXCEPT !.slot = Anchor] ELSE g[l])

(* The lines of a title are joined and cut at the length of a block: those *)
(* that begin behind the cut are gone.                                     *)
Precedes(g, k, l) == g[k].rank < g[l].rank \/ (g[k].rank = g[l].rank /\ k < l)
Full(S) == S # {} /\ SumFunction([l \in S |-> Line(l).size + 1]) >= MaxContent
TitleCut(g) ==
  LET title(l) == LinesAt(g, g[l].key, Anchor)
      room(l) == ~Full({m \in title(l) : Precedes(g, m, l)})
      cut(l) == g[l].slot = Anchor /\ \E m \in title(l) : (m = l \/ Precedes(g, m, l)) /\ ~room(m)
  IN  Each({l \in DOMAIN g : ~cut(l)}, LAMBDA l : g[l])

(* The lines of a slot are joined: a subheading to the text after it, and  *)
(* texts while there is room; then a new block begins.  A line is in the   *)
(* block it begins in, the end of a text too long for a block is cut off.  *)
JoinedBlocks(order) ==
  LET join(us, l) ==
        IF us # <<>> /\ Last(us).sub /\ ~Line(l).sub
        THEN [us EXCEPT ![Len(us)] = [lines |-> @.lines \cup {l}, size |-> @.size + 2 + Line(l).size,
                                      sub |-> FALSE]]
        ELSE Append(us, [lines |-> {l}, size |-> Line(l).size, sub |-> Line(l).sub])
      fill(bs, u) ==
        IF bs # <<>> /\ Last(bs).size + 1 + u.size <= MaxContent
        THEN [bs EXCEPT ![Len(bs)] = [lines |-> @.lines \cup u.lines, size |-> @.size + 1 + u.size]]
        ELSE Append(bs, [lines |-> u.lines, size |-> Least({u.size, MaxContent})])
  IN  FoldLeft(fill, <<>>, FoldLeft(join, <<>>, order))
BlockOf(g, l) ==
  LET S == LinesAt(g, g[l].key, g[l].slot)
      bs == JoinedBlocks(SetToSortSeq(S, LAMBDA k, m : Precedes(g, k, m)))
  IN  CHOOSE n \in DOMAIN bs : l \in bs[n].lines

(* The blocks of some slots of a key, and the lines of a block.            *)
BlocksAt(g, k, slots) == {<<g[l].slot, BlockOf(g, l)>> : l \in {m \in DOMAIN g : g[m].key = k /\ g[m].slot \in slots}}
LinesIn(g, k, p) == {l \in LinesAt(g, k, p[1]) : BlockOf(g, l) = p[2]}

(* An empty anchor whose empty slots fit is filled, once; else a new one   *)
(* is made with all slots of its template, which the lines have chosen     *)
(* before the first was raised.  The first block of a slot fills it, the   *)
(* others are new.                                                         *)
Opened(h, k) == UNION {Template[TemplateOf(h[l].slot)] : l \in {m \in DOMAIN h : h[m].key = k /\ h[m].slot \in Leaf}}
PlaceKey(s, g, k, open) ==
  LET slots == {q \in Leaf : LinesAt(g, k, q) # {}}
      sec == IF k = <<"learning">> THEN "learning" ELSE "episodes"
      t == IF Category(sec) # None THEN s ELSE WithSection(s, sec)
      new(slot, src) == Item(Category(sec), IF Category(sec) = None THEN SectionItem(t, sec) ELSE None,
                             None, slot, src)
      used == {x.target : x \in All(s)}
      own(a, slot) == {b \in Children(a) : tree[b].slot = slot /\ tree[b].blank /\ b \notin used}
      blank == {a \in own(Category(sec), Anchor) :
                  /\ \A b \in Children(a) : tree[b].blank
                  /\ slots \subseteq {tree[b].slot : b \in Children(a)}}
      fill(a, p) == LET x == Item(a, None, None, p[1], LinesIn(g, k, p)) IN
        IF p[2] # 1 \/ own(a, p[1]) = {} THEN x ELSE Update(x, CHOOSE b \in own(a, p[1]) : TRUE)
      child(p) == Item(None, Fresh(t), None, p[1], LinesIn(g, k, p))
      lesson(p) == IF Category(sec) = None THEN new("growth", LinesIn(g, k, p)) ELSE fill(Category(sec), p)
      title == new(Anchor, LinesAt(g, k, Anchor))
      empty == {<<q, 1>> : q \in open \ slots}
  IN  IF sec = "learning" THEN AppendedEach(t, BlocksAt(g, k, {"growth"}), lesson)
      ELSE IF Category(sec) # None /\ blank # {}
      THEN LET a == CHOOSE b \in blank : TRUE
           IN  AppendedEach(Appended(t, <<Update(title, a)>>), BlocksAt(g, k, slots), LAMBDA p : fill(a, p))
      ELSE AppendedEach(Appended(t, <<title>>), BlocksAt(g, k, slots) \cup empty, child)

Blocks ==
  LET h == OneTemplate(TitlesKept(Grouped))
      g == TitleCut(WithTitle(h))
      order == SetToSeq({g[l].key : l \in DOMAIN g})
      run[n \in 0..Len(order)] ==
        IF n = 0 THEN <<>> ELSE PlaceKey(run[n - 1], g, order[n], Opened(h, order[n]))
  IN  run[Len(order)]
-----------------------------------------------------------------------------
NoAnswer == [slot |-> None, ep |-> None, why |-> None]

(* Every answer about the lines of S: for each one of those it may get.    *)
AnswersFor(S, may(_)) == {b \in [S -> UNION {may(l) : l \in S}] : \A l \in S : b[l] \in may(l)}
IsFile == "lines" \in DOMAIN input

FInit ==
  /\ input \in Inputs
  /\ continued = None /\ reported = None /\ items = <<>> /\ asked = {}
  /\ batch = 0 /\ attempt = 0 /\ rerun = FALSE
  /\ pc = IF IsFile THEN "gate" ELSE "match"
  /\ answer = IF IsFile THEN [l \in Lines |-> NoAnswer] ELSE <<>>
  /\ left = {} /\ scope = [only |-> {}, without |-> {}] /\ gone = {}
  /\ assigned = <<>>

Kept == UNCHANGED <<input, continued, reported, asked, batch, attempt, rerun>>

(* Is it a document about an experience at all, with a sentence to show    *)
(* for it?  The chunks are asked for at the same time, and cancelled when  *)
(* it is not.                                                              *)
Gate ==
  /\ pc = "gate"
  /\ \/ pc' = "assign" /\ left' = DOMAIN Chunks
     \/ pc' = "refused" /\ UNCHANGED left
  /\ Kept /\ UNCHANGED <<items, answer, scope, gone, assigned>>

(* A chunk is answered, a line left out or answered wrongly after a second *)
(* call for it; the message's wish is added to what other chunks read of   *)
(* it.                                                                     *)
AssignChunk(n) ==
  /\ pc = "assign" /\ n \in left
  /\ \E b \in AnswersFor(All(Chunks[n]), LAMBDA l : input.may[l] \cup {NoAnswer}) :
       answer' = b @@ answer
  /\ \E s \in input.wishes :
       scope' = [only |-> scope.only \cup s.only, without |-> scope.without \cup s.without]
  /\ left' = left \ {n}
  /\ Kept /\ UNCHANGED <<items, pc, gone, assigned>>

(* When all chunks are answered the assignment is corrected.  A plain      *)
(* request to tidy up is no wish about the scope.                          *)
Arrange ==
  /\ pc = "assign" /\ left = {}
  /\ answer' = Arranged(answer)
  /\ pc' = "verify"
  /\ scope' = IF \A l \in Lines : answer'[l].slot = Instruction => Line(l).plain
              THEN [only |-> {}, without |-> {}] ELSE scope
  /\ Kept /\ UNCHANGED <<items, left, gone, assigned>>

(* What is to be excluded is checked: as unrelated, and against the user's *)
(* instruction.  Lines to be kept are assigned again.                      *)
VerifyExclusions ==
  LET told == \E l \in Lines : answer[l].slot = Instruction /\ ~Line(l).plain
      candidates == {l \in Lines : answer[l].slot = Exclude}
      requested == {l \in candidates : told /\ answer[l].why = "request"}
      unrelated == candidates \ requested
  IN
  /\ pc = "verify"
  /\ \E relevant \in SUBSET unrelated :
     \E spared \in SUBSET (requested \cup (IF told THEN unrelated ELSE {})) :
       LET byRequest == IF told THEN relevant \ spared ELSE {}
           keep == (relevant \ byRequest) \cup (spared \cap requested)
       IN  /\ gone' = candidates \ keep
           /\ \E b \in AnswersFor(keep, LAMBDA l :
                        {answer[l]} \cup {x \in input.may[l] : x.slot \in Slots}) :
                answer' = b @@ answer
  /\ pc' = "place"
  /\ Kept /\ UNCHANGED <<items, left, scope, assigned>>

PlaceLines ==
  /\ pc = "place"
  /\ LET a == HeadingFollows(DemoteHeadings(answer))
         out == gone \cup OutOfScope(a, scope)
         b == Assigned(a, out)
     IN  /\ answer' = a /\ gone' = out /\ assigned' = b
         /\ pc' = IF DOMAIN b = {} THEN "refused" ELSE "structure"
  /\ Kept /\ UNCHANGED <<items, left, scope>>

(* The structuring node, for a file.                                       *)
StructureFile ==
  /\ pc = "structure"
  /\ items' = Blocks /\ pc' = "placed"
  /\ Kept /\ UNCHANGED fvars

(* A call fails, and with it the node.                                     *)
FileFails ==
  /\ pc \in {"gate", "assign", "verify", "structure"} /\ pc' = "failed"
  /\ Kept /\ UNCHANGED <<items, answer, left, scope, gone, assigned>>

FNext == \/ Next /\ UNCHANGED fvars
         \/ Gate \/ (\E n \in left : AssignChunk(n)) \/ Arrange \/ VerifyExclusions
         \/ PlaceLines \/ StructureFile \/ FileFails
FSpec == FInit /\ [][FNext]_<<vars, fvars>>
-----------------------------------------------------------------------------
(* A line k stands for l: the same text in the same slot of an episode (k  *)
(* may be a title that went there to the text below it), or another        *)
(* numbered title of the episode.                                          *)
StandsFor(k, l) ==
  /\ LineKey(k) = LineKey(l)
  /\ \/ Line(k).text = Line(l).text /\ assigned[k].slot \in {assigned[l].slot, Anchor}
     \/ Line(k).num # None /\ Line(l).num # None /\ assigned[k].slot = Anchor /\ assigned[l].slot = Anchor

(* Why a line may be left out: a second call or the user excluded it, it   *)
(* looks like a heading and was called one, the activity holds it already, *)
(* it is a mere marker, another line stands for it - and in two cases      *)
(* nobody intended: it was called an instruction, or neither it nor any    *)
(* line before it has a slot.                                              *)
LeftOut(l) ==
  \/ l \in gone
  \/ Line(l).head /\ answer[l].slot = Heading
  \/ Line(l).known
  \/ Line(l).size = 0
  \/ /\ l \in DOMAIN assigned
     /\ \E k \in DOMAIN assigned \ {l} : StandsFor(k, l) /\ \E x \in All(items) : k \in x.src
  \/ answer[l].slot = Instruction
  \/ \A k \in 1..l : ~InSlot(answer, k) \/ k \in gone

(* It is a title of an episode whose other titles fill the block.          *)
TitleFull(l) ==
  /\ l \in DOMAIN assigned /\ assigned[l].slot = Anchor
  /\ \E x \in All(items) : Full(x.src) /\ \A k \in x.src : LineKey(k) = LineKey(l)

(* A line of the file begins in exactly one block, or it is left out for   *)
(* one of the reasons above.                                               *)
NoLineLost ==
  pc = "placed" => \A l \in Lines :
    \/ Cardinality(Holding(items, l)) = 1
    \/ Holding(items, l) = {} /\ (LeftOut(l) \/ TitleFull(l))

(* No line is thrown away because a title is full, as the comment in build *)
(* has it of the titles that no text follows; the cut throws them away.    *)
NothingDropped ==
  pc = "placed" => \A l \in Lines :
    Cardinality(Holding(items, l)) = 1 \/ (Holding(items, l) = {} /\ LeftOut(l))
=============================================================================
