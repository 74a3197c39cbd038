---------------------------- MODULE Structuring ----------------------------
(* The node that turns the pieces of a message or a file into blocks       *)
(* (nodes/structure.py).  A language model is asked batch by batch which   *)
(* piece belongs where; its answers are repaired by some thirty rules,     *)
(* what is still missing or placed twice is asked for once more, and the   *)
(* result of all batches is checked, if need be after a second round over  *)
(* everything.  The text of a block is put together from its pieces by the *)
(* code, so an item has a text exactly when it has a source.               *)
EXTENDS Integers, FiniteSets, SequencesExt

CONSTANTS
  Inputs,     \* what the node may be given, and how the model may answer
  None

(* None is no name of a slot, no block and no number.                      *)
ASSUME NoneAssumption ==
  None \notin Nat \cup {"act", "anchor", "result", "lesson", "summary", "growth", "episodes", "learning",
                      "b1", "t1", "t2", "o1"}

(* The pieces of a message are told apart by their numbers; a file has     *)
(* finitely many lines.                                                    *)
ASSUME InputAssumption ==
  \A i \in Inputs :
    IF "lines" \in DOMAIN i THEN Len(i.lines) \in Nat
    ELSE \A j, k \in DOMAIN i.pieces : i.pieces[j] = i.pieces[k] => j = k

(* The part of the catalogue the rules tell apart: a section whose anchors *)
(* stand for episodes, with three templates below an anchor, and a section *)
(* with a slot of its own.                                                 *)
Anchor == "anchor"
Template == [basic |-> {"b1"}, trouble |-> {"t1", "t2"}, other |-> {"o1"}]
Leaf == UNION {Template[t] : t \in DOMAIN Template}
TemplateOf(slot) == CHOOSE t \in DOMAIN Template : slot \in Template[t]
Direct == [episodes |-> {Anchor}, learning |-> {"growth"}]
SectionOf(slot) == IF slot = "growth" THEN "learning" ELSE "episodes"

VARIABLES
  input,      \* what the node is given
  continued,  \* the anchor the pieces continue, or None
  reported,   \* the block the answers call a category of episodes, or None
  items,      \* the items of the batches and attempts so far
  asked,      \* the pieces of the next call
  batch, attempt, rerun,
  pc

vars == <<input, continued, reported, items, asked, batch, attempt, rerun, pc>>
-----------------------------------------------------------------------------
(* The input: the activity's blocks, the pieces in their order and how     *)
(* many one call takes (two, of long pieces one), for each piece its       *)
(* heading, the slot that headings of the document fix and the slot        *)
(* its wording fixes, the block an open question is about; and what an     *)
(* answer may do with a piece, and where it may put an anchor of its own.  *)
tree == input.tree
Sources == input.pieces
BatchSize == input.size
label == input.label
hint == input.hint
meaning == input.meaning
gap == input.gap
Shape == input.shapes
Homes == input.homes
-----------------------------------------------------------------------------
(* Blocks of the activity.                                                 *)
Act == "act"
Alias == DOMAIN tree
Below(a) == {b \in Alias : \/ tree[b].up = a
                           \/ tree[b].up \in Alias /\ tree[tree[b].up].up = a}
Children(a) == {b \in Alias : tree[b].up = a}
IsBlank(a) == \A b \in {a} \cup Below(a) : tree[b].blank
Episodes == {a \in Alias : tree[a].slot = Anchor /\ ~IsBlank(a)}
BlankAnchors == {a \in Alias : tree[a].slot = Anchor /\ IsBlank(a)}
BlankSlots(S) == {b \in S : tree[b].blank /\ tree[b].slot # None}
Categories == {a \in Children(Act) : tree[a].sec # None}
Category(sec) == IF \E a \in Categories : tree[a].sec = sec
                 THEN CHOOSE a \in Categories : tree[a].sec = sec ELSE None
SectionAt(a) == IF a \in Categories THEN tree[a].sec
                ELSE IF tree[a].up \in Categories THEN tree[tree[a].up].sec
                ELSE IF tree[a].up \in Alias /\ tree[tree[a].up].up \in Categories
                     THEN tree[tree[tree[a].up].up].sec ELSE None

(* A block reported as a category counts when it is one of level 3.        *)
ReportedAs(a) == IF a = reported /\ a # None /\ tree[a].level = 3
                 THEN "episodes" ELSE None
Known(sec) == IF Category(sec) = None /\ ReportedAs(reported) = sec
              THEN reported ELSE Category(sec)

(* Items: the list of an answer is a function of the numbers of its items, *)
(* which are in its order.                                                 *)
Item(ref, par, sec, slot, src) ==
  [act |-> "add", target |-> None, ref |-> ref, par |-> par,
   sec |-> sec, slot |-> slot, src |-> src]
Update(x, b) == [x EXCEPT !.act = "update", !.target = b, !.ref = None,
                          !.par = None, !.sec = None, !.slot = None]
Under(x, a) == [x EXCEPT !.ref = a, !.par = None]
Beneath(x, i) == [x EXCEPT !.ref = None, !.par = i]
Holder(x) == <<x.ref, x.par>>
HasText(x) == x.src # {}
IsAnchor(x) == x.slot = Anchor

(* The items of S, each one made by F.  The choice has one candidate: it   *)
(* makes TLC compute the function once, and not at every use.              *)
Each(S, F(_)) == LET f == [i \in S |-> F(i)] IN CHOOSE g \in {f} : g = f

All(s) == {s[i] : i \in DOMAIN s}
Kids(s, i) == {j \in DOMAIN s : s[j].par = i}
Placed(s) == UNION {x.src : x \in All(s)}
Least(S) == CHOOSE q \in S : \A r \in S : q <= r
Greatest(S) == CHOOSE q \in S : \A r \in S : r <= q
First(S) == IF S = {} THEN None ELSE Least(S)
LabelOf(S) == LET L == {q \in S : label[q] # None}
              IN  IF L = {} THEN None ELSE label[Least(L)]

(* New items come behind all others.                                       *)
Top(s) == Greatest({0} \cup DOMAIN s \cup ({x.par : x \in All(s)} \ {None}))
Fresh(s) == Top(s) + 1
Appended(s, new) ==
  Each(DOMAIN s \cup {Top(s) + k : k \in DOMAIN new},
       LAMBDA i : IF i \in DOMAIN s THEN s[i] ELSE new[i - Top(s)])

AppendedEach(s, S, F(_)) ==
  LET order == SetToSeq(S) IN Appended(s, [k \in DOMAIN order |-> F(order[k])])

(* The new items above item i, nearest first, and the block they end in.   *)
Parent(s, i) == IF i \in DOMAIN s /\ s[i].ref = None /\ s[i].par \in DOMAIN s THEN s[i].par ELSE None
Above(s, i) ==
  LET up[k \in 0..Cardinality(DOMAIN s)] == IF k = 0 THEN i ELSE Parent(s, up[k - 1])
  IN  Each(0..Cardinality(DOMAIN s), LAMBDA k : up[k])
Ancestor(s, i, S) ==
  LET up == Above(s, i)
      hits == {k \in DOMAIN up : k > 0 /\ up[k] \in S}
  IN  IF hits = {} THEN None ELSE up[Least(hits)]
Root(s, i) ==
  LET up == Above(s, i)
  IN  s[up[Least({k \in DOMAIN up : Parent(s, up[k]) = None})]].ref
-----------------------------------------------------------------------------
(* Slots of an answer.                                                     *)

(* A category and an anchor in one item become two.  The number behind     *)
(* such an item is free for its anchor.                                    *)
SplitMerged(s) ==
  LET whole == {i \in DOMAIN s : s[i].sec # None /\ (s[i].slot # None \/ HasText(s[i]))}
      rest(i) == IF i \in whole THEN [s[i] EXCEPT !.slot = None, !.src = {}]
                 ELSE IF s[i].par \in whole THEN Beneath(s[i], s[i].par + 1) ELSE s[i]
      part(i) == IF i \in DOMAIN s THEN rest(i)
                 ELSE Item(None, i - 1, None, s[i - 1].slot, s[i - 1].src)
  IN  Each(DOMAIN s \cup {j + 1 : j \in whole}, part)

(* Names the model is known to invent for a slot.                          *)
Invented == [result |-> "t2", lesson |-> "growth"]
OfficialSlots(s) ==
  LET name(i) == IF s[i].slot \in DOMAIN Invented THEN [s[i] EXCEPT !.slot = Invented[s[i].slot]] ELSE s[i]
  IN  Each(DOMAIN s, name)

(* A summary invented below a template is the summary of the anchor: it    *)
(* moves into an empty anchor above it, or becomes an anchor.              *)
FoldSummary(s) ==
  LET fits(i) == s[i].slot = "summary" /\ s[i].par \in DOMAIN s
                   /\ IsAnchor(s[s[i].par]) /\ ~HasText(s[s[i].par])
      taken(a) == First({i \in Kids(s, a) : fits(i)})
      gone == {i \in DOMAIN s : fits(i) /\ taken(s[i].par) = i}
      fold(i) == IF IsAnchor(s[i]) /\ taken(i) # None THEN [s[i] EXCEPT !.src = s[taken(i)].src]
                 ELSE IF s[i].slot = "summary" THEN [s[i] EXCEPT !.slot = Anchor] ELSE s[i]
  IN  Each(DOMAIN s \ gone, fold)

KnownSources(s, known) == Each(DOMAIN s, LAMBDA i : [s[i] EXCEPT !.src = @ \cap known])

(* The heading a piece stands under decides its slot, unless the pieces of *)
(* the item stand under different ones.                                    *)
ApplyHints(s) ==
  LET hints(x) == {hint[q] : q \in x.src} \ {None}
      apply(x) == IF x.act = "add" /\ Cardinality(hints(x)) = 1
                  THEN [x EXCEPT !.slot = CHOOSE h \in hints(x) : TRUE] ELSE x
  IN  Each(DOMAIN s, LAMBDA i : apply(s[i]))

(* Plain words of a single short piece decide the step of a template.      *)
AlignTroubleshooting(s) ==
  LET align(x) == IF /\ x.slot \in Template.trouble /\ Cardinality(x.src) = 1
                     /\ \A q \in x.src : hint[q] = None /\ meaning[q] \in Template.trouble
                  THEN [x EXCEPT !.slot = meaning[CHOOSE q \in x.src : TRUE]] ELSE x
  IN  Each(DOMAIN s, LAMBDA i : align(s[i]))

(* Words of learning move an item to the section of its own.               *)
AlignLearning(s) ==
  LET places == {tree[b].up : b \in {a \in Alias : tree[a].slot = "growth"}}
      place == IF Cardinality(places) = 1 THEN CHOOSE a \in places : TRUE ELSE Act
      align(x) == IF /\ x.act = "add"
                     /\ \A q \in x.src : hint[q] = None
                     /\ \E q \in x.src : meaning[q] = "growth"
                  THEN [Under(x, place) EXCEPT !.sec = None, !.slot = "growth"] ELSE x
  IN  Each(DOMAIN s, LAMBDA i : align(s[i]))

(* One category per section, one item per slot and parent: the first of    *)
(* several stays, with the children or the pieces of the others.           *)
SectionItem(s, sec) == First({i \in DOMAIN s : s[i].sec = sec})
MergeSections(s) ==
  LET extra == {i \in DOMAIN s : s[i].sec # None /\ SectionItem(s, s[i].sec) # i}
      move(x) == IF x.par \in extra THEN [x EXCEPT !.par = SectionItem(s, s[x.par].sec)] ELSE x
  IN  Each(DOMAIN s \ extra, LAMBDA i : move(s[i]))

Twins(s, i) ==
  IF s[i].slot = None \/ IsAnchor(s[i]) THEN {i}
  ELSE {j \in DOMAIN s : s[j].slot = s[i].slot /\ Holder(s[j]) = Holder(s[i])}
Firsts(s) == {i \in DOMAIN s : Least(Twins(s, i)) = i}
KeptFirst(s) == Each(Firsts(s), LAMBDA i : s[i])
MergeSlots(s) ==
  Each(Firsts(s), LAMBDA i : [s[i] EXCEPT !.src = UNION {s[j].src : j \in Twins(s, i)}])

(* An empty item with a slot nobody knows is dropped.                      *)
DropJunk(s) ==
  LET junk == {i \in DOMAIN s : /\ s[i].slot \notin Leaf \cup {Anchor, "growth", None}
                                /\ ~HasText(s[i]) /\ Kids(s, i) = {}}
  IN  Each(DOMAIN s \ junk, LAMBDA i : s[i])
-----------------------------------------------------------------------------
(* Places of an answer.                                                    *)

SectionsUnderActivity(s) ==
  Each(DOMAIN s, LAMBDA i : IF s[i].sec # None THEN [s[i] EXCEPT !.ref = Act] ELSE s[i])

(* An item of level 4 below a block of another level or section goes to    *)
(* the category of its section, or to the activity.                        *)
Reroute(s) ==
  LET misplaced(x) == /\ x.act = "add" /\ x.slot \in {Anchor, "growth"} /\ x.ref \in Alias
                      /\ \/ tree[x.ref].level \notin {2, 3}
                         \/ SectionAt(x.ref) \notin {None, SectionOf(x.slot)}
      home(x) == LET c == Category(SectionOf(x.slot)) IN IF c = None THEN Act ELSE c
  IN  Each(DOMAIN s, LAMBDA i : IF misplaced(s[i]) THEN Under(s[i], home(s[i])) ELSE s[i])

(* The nearest of some items up to item i, else the first.                 *)
Nearest(S, i) == IF \E j \in S : j <= i THEN Greatest({j \in S : j <= i}) ELSE First(S)

(* s with a new category for the section, unless it has one.               *)
WithSection(s, sec) ==
  IF \E x \in All(s) : x.sec = sec THEN s
  ELSE Appended(s, <<Item(Act, None, sec, None, {})>>)

(* An item of level 4 belongs directly below a category of its section.    *)
PlaceDirect(s, i) ==
  LET x == s[i]
      sec == SectionOf(x.slot)
      own == Ancestor(s, i, {j \in DOMAIN s : s[j].sec = sec})
      made == LET t == WithSection(s, sec) IN [t EXCEPT ![i] = Beneath(x, SectionItem(t, sec))]
      foreign == \/ x.par \in DOMAIN s /\ s[x.par].slot # None
                 \/ x.ref # None /\ ReportedAs(x.ref) \notin {None, sec}
  IN  IF x.slot \notin {Anchor, "growth"} THEN s
      ELSE IF own # None THEN [s EXCEPT ![i] = Beneath(x, own)]
      ELSE IF Root(s, i) = Act THEN made
      ELSE IF ~foreign THEN s
      ELSE IF ReportedAs(reported) = sec THEN [s EXCEPT ![i] = Under(x, reported)]
      ELSE made

(* An item of level 5 belongs below an anchor: one it hangs below already, *)
(* the nearest one before it in the category, or a new one.                *)
PlaceLeaf(s, i) ==
  LET x == s[i]
      own == Ancestor(s, i, {j \in DOMAIN s : IsAnchor(s[j])})
      cat == Ancestor(s, i, {j \in DOMAIN s : s[j].sec = "episodes"})
      t == IF cat = None /\ Root(s, i) = Act THEN WithSection(s, "episodes") ELSE s
      home == IF cat = None /\ Root(s, i) = Act THEN SectionItem(t, "episodes") ELSE cat
      near == Nearest({j \in Kids(t, home) : IsAnchor(t[j])}, i)
  IN  IF x.slot \notin Leaf THEN s
      ELSE IF own # None THEN [s EXCEPT ![i] = Beneath(x, own)]
      ELSE IF home = None THEN s
      ELSE IF near # None THEN [t EXCEPT ![i] = Beneath(x, near)]
      ELSE [Appended(t, <<Item(None, home, None, Anchor, {})>>) EXCEPT ![i] = Beneath(x, Fresh(t))]

(* Item by item, in their order.                                           *)
PlaceDirects(s) ==
  LET run[k \in 0..Top(s)] ==
        IF k = 0 THEN s ELSE IF k \in DOMAIN s THEN PlaceDirect(run[k - 1], k) ELSE run[k - 1]
  IN  run[Top(s)]
PlaceLeaves(s) ==
  LET run[k \in 0..Top(s)] ==
        IF k = 0 THEN s ELSE IF k \in DOMAIN s THEN PlaceLeaf(run[k - 1], k) ELSE run[k - 1]
  IN  run[Top(s)]
NormalizeHierarchy(s) == PlaceLeaves(PlaceDirects(s))

(* A new category the activity has already, or the answers say it has, is  *)
(* that category.                                                          *)
MergeIntoCategories(s) ==
  LET gone == {i \in DOMAIN s : s[i].act = "add" /\ s[i].sec # None /\ Known(s[i].sec) # None}
      move(x) == IF x.par \in gone THEN Under(x, Known(s[x.par].sec)) ELSE x
  IN  Each(DOMAIN s \ gone, LAMBDA i : move(s[i]))

(* An item of level 5 that reaches a block without passing an anchor: it   *)
(* goes to the anchor that is continued there, to the nearest new anchor   *)
(* below the same block, or to a new empty one.                            *)
AdoptOrphan(s, t, i) ==
  LET x == s[i]
      block == Root(s, i)
      orphan == /\ x.slot \in Leaf /\ block # None
                /\ Ancestor(s, i, {j \in DOMAIN s : IsAnchor(s[j])}) = None
                /\ block # continued /\ tree[block].level # 4
      near == Nearest({j \in DOMAIN s : IsAnchor(s[j]) /\ Root(s, j) = block}, i)
      new == First({j \in DOMAIN t \ DOMAIN s : t[j].ref = block})
  IN  IF ~orphan THEN t
      ELSE IF continued # None /\ tree[continued].up = block
      THEN [t EXCEPT ![i] = Under(x, continued)]
      ELSE IF near # None THEN [t EXCEPT ![i] = Beneath(x, near)]
      ELSE IF new # None THEN [t EXCEPT ![i] = Beneath(x, new)]
      ELSE [Appended(t, <<Item(block, None, None, Anchor, {})>>) EXCEPT ![i] = Beneath(x, Fresh(t))]

AdoptOrphans(s) ==
  LET run[k \in 0..Top(s)] ==
        IF k = 0 THEN s ELSE IF k \in DOMAIN s THEN AdoptOrphan(s, run[k - 1], k) ELSE run[k - 1]
  IN  run[Top(s)]
-----------------------------------------------------------------------------
(* Episodes.                                                               *)

(* A new empty anchor beside the one that is continued is that one.        *)
ContinueEpisode(s) ==
  LET gone == {i \in DOMAIN s : /\ continued # None /\ s[i].ref = tree[continued].up
                                /\ IsAnchor(s[i]) /\ ~HasText(s[i])}
      bare == {i \in DOMAIN s : s[i].par \in gone /\ ~HasText(s[i])}
      move(x) == IF x.par \in gone THEN Under(x, continued) ELSE x
  IN  Each(DOMAIN s \ (gone \cup bare), LAMBDA i : move(s[i]))

EpisodeLabel(s, i) ==
  IF LabelOf(s[i].src) # None THEN LabelOf(s[i].src)
  ELSE LabelOf(UNION {s[j].src : j \in Kids(s, i)})

(* A batch does not end an episode: an anchor at the place of one of an    *)
(* earlier batch is that one, unless both stand under different headings.  *)
MergeAnchors(s, earlier) ==
  LET old(i) == {j \in DOMAIN s \cap earlier : IsAnchor(s[j]) /\ Holder(s[j]) = Holder(s[i])}
      named(i) == {j \in old(i) : EpisodeLabel(s, j) = EpisodeLabel(s, i)}
      unnamed(i) == \A j \in old(i) : EpisodeLabel(s, j) = None
      into(i) == IF i \in earlier \/ ~IsAnchor(s[i]) THEN None
                 ELSE IF EpisodeLabel(s, i) = None \/ unnamed(i) THEN First(old(i))
                 ELSE First(named(i))
      gone == {i \in DOMAIN s : into(i) # None}
      move(i) == [s[i] EXCEPT !.src = @ \cup UNION {s[j].src : j \in {z \in gone : into(z) = i}},
                              !.par = IF @ \in gone THEN into(@) ELSE @]
  IN  Each(DOMAIN s \ gone, move)

(* A new anchor with a text beside the one that is continued fills empty   *)
(* slots of that one, if it is clear which.                                *)
ReuseAnchor(s) ==
  LET beside(i) == continued # None /\ s[i].ref = tree[continued].up /\ IsAnchor(s[i])
      blanks == BlankSlots(Below(continued))
      group(i) == {i} \cup Kids(s, i)
      filled(i) == {j \in group(i) : HasText(s[j])}
      exact(i) == {j \in filled(i) : \E b \in blanks : tree[b].slot = s[j].slot}
      left(i) == {b \in blanks : \A j \in exact(i) : s[j].slot # tree[b].slot}
      clear(i) == /\ beside(i) /\ blanks # {} /\ filled(i) # {}
                  /\ \/ filled(i) = exact(i)
                     \/ Cardinality(filled(i) \ exact(i)) = 1 /\ Cardinality(left(i)) = 1
      anchors == {i \in DOMAIN s : clear(i)}
      slotOf(i, j) == CHOOSE b \in IF j \in exact(i) THEN blanks ELSE left(i) :
                        j \in exact(i) => tree[b].slot = s[j].slot
      fill(j) == IF \E i \in anchors : j \in filled(i)
                 THEN Update(s[j], slotOf(CHOOSE i \in anchors : j \in filled(i), j)) ELSE s[j]
  IN  Each(DOMAIN s \ UNION {group(i) \ filled(i) : i \in anchors}, fill)

(* Templates below one anchor: the two that correspond become one, and of  *)
(* several the only one with a text stays.                                 *)
TemplatesAt(s, h) == {TemplateOf(x.slot) : x \in {y \in All(s) : y.slot \in Leaf /\ Holder(y) = h}}
CollapseTemplates(s) ==
  LET both(x) == x.slot = "b1" /\ TemplatesAt(s, Holder(x)) = {"basic", "trouble"}
  IN  Each(DOMAIN s, LAMBDA i : IF both(s[i]) THEN [s[i] EXCEPT !.slot = "t1"] ELSE s[i])

PruneTemplates(s) ==
  LET written(h) == {TemplateOf(x.slot) : x \in
                       {y \in All(s) : y.slot \in Leaf /\ Holder(y) = h /\ HasText(y)}}
      extra(x) == /\ x.slot \in Leaf /\ Cardinality(written(Holder(x))) = 1
                  /\ TemplateOf(x.slot) \notin written(Holder(x))
  IN  Each({i \in DOMAIN s : ~extra(s[i])}, LAMBDA i : s[i])

(* An anchor with the very pieces of an item below it gives them up.       *)
DedupeAnchor(s) ==
  LET twice(i) == IsAnchor(s[i]) /\ \E j \in Kids(s, i) : s[j].src = s[i].src
  IN  Each(DOMAIN s, LAMBDA i : IF twice(i) THEN [s[i] EXCEPT !.src = {}] ELSE s[i])

(* An item that would stand beside an empty block for its slot fills it.   *)
FillEmptySlots(s) ==
  LET blanks(x) == {b \in BlankSlots(Children(x.ref)) : tree[b].slot = x.slot}
      fill(x) == IF /\ x.act = "add" /\ x.ref \in Alias /\ x.slot \notin {None, Anchor}
                    /\ HasText(x) /\ blanks(x) # {}
                 THEN Update(x, CHOOSE b \in blanks(x) : TRUE) ELSE x
  IN  Each(DOMAIN s, LAMBDA i : fill(s[i]))

(* Pieces of another heading leave an anchor for a new one beside it.  The *)
(* new ones come first and push the others back.                           *)
SeparateGroups(s) ==
  LET anchors == {i \in DOMAIN s : s[i].act = "add" /\ IsAnchor(s[i])}
      voiced(i) == {j \in Kids(s, i) : LabelOf(s[j].src) # None}
      name(i) == IF LabelOf(s[i].src) # None THEN LabelOf(s[i].src)
                 ELSE IF voiced(i) = {} THEN None ELSE LabelOf(s[Least(voiced(i))].src)
      place(i) == <<s[i].par, LabelOf(s[i].src)>>
      strays == {place(j) : j \in {i \in DOMAIN s : /\ s[i].par \in anchors
                                                    /\ place(i)[2] \notin {None, name(s[i].par)}}}
      order == SetToSeq(strays)
      n == Cardinality(strays)
      back(i) == IF i = None THEN None ELSE i + n
      new(k) == LET x == s[order[k][1]] IN Item(x.ref, back(x.par), None, x.slot, {})
      move(i) == IF place(i) \in strays
                 THEN Beneath(s[i], CHOOSE k \in 1..n : order[k] = place(i))
                 ELSE [s[i] EXCEPT !.par = back(@)]
  IN  Each(1..n \cup {j + n : j \in DOMAIN s}, LAMBDA i : IF i <= n THEN new(i) ELSE move(i - n))

(* The rules, in the order in which every answer goes through them with    *)
(* the items before it.                                                    *)
Fixed(s, known, earlier) ==
  LET slots == AlignLearning(AlignTroubleshooting(ApplyHints(
                 KnownSources(FoldSummary(OfficialSlots(SplitMerged(s))), known))))
      merged == DropJunk(MergeSlots(MergeSections(slots)))
      placed == MergeIntoCategories(NormalizeHierarchy(Reroute(SectionsUnderActivity(merged))))
      episodes == MergeAnchors(ContinueEpisode(Reroute(AdoptOrphans(placed))), earlier)
      templates == PruneTemplates(DedupeAnchor(MergeSlots(CollapseTemplates(ReuseAnchor(episodes)))))
  IN  MergeIntoCategories(SeparateGroups(FillEmptySlots(templates)))
-----------------------------------------------------------------------------
(* What follows the last batch.                                            *)

Subtree(s, i) == {j \in DOMAIN s : i \in All(Above(s, j))}
DropEmptySections(s) ==
  LET empty == {i \in DOMAIN s : s[i].sec # None /\ \A j \in Subtree(s, i) : ~HasText(s[j])}
  IN  Each(DOMAIN s \ UNION {Subtree(s, j) : j \in empty}, LAMBDA i : s[i])

SameGroup(x, y) == y.slot \in Leaf /\ Holder(y) = Holder(x) /\ TemplateOf(y.slot) = TemplateOf(x.slot)
DropEmptyTemplates(s) ==
  LET empty(i) == /\ s[i].slot \in Leaf /\ Kids(s, i) = {}
                  /\ \A y \in All(s) : SameGroup(s[i], y) => ~HasText(y)
  IN  Each({i \in DOMAIN s : ~empty(i)}, LAMBDA i : s[i])

(* New categories and templates get their other slots, empty.              *)
FillSlots(s, holes) == AppendedEach(s, holes, LAMBDA hole : Item(None, hole[1], None, hole[2], {}))
FillSections(s) ==
  FillSlots(s, UNION {{<<i, slot>> : slot \in Direct[s[i].sec] \ {s[j].slot : j \in Kids(s, i)}} :
                      i \in {j \in DOMAIN s : s[j].sec # None}})
FillTemplates(s) ==
  LET leaves == {x \in All(s) : x.slot \in Leaf /\ x.ref = None}
      missing(x) == Template[TemplateOf(x.slot)] \ {y.slot : y \in {z \in leaves : z.par = x.par}}
  IN  FillSlots(s, UNION {{<<x.par, slot>> : slot \in missing(x)} : x \in leaves})

(* An empty anchor the activity came with takes the place of a new one.    *)
FillBlankAnchor(s) ==
  LET filled == {i \in DOMAIN s : s[i].act = "update"}
      join(i) == IF s[i].par \in filled THEN Under(s[i], s[s[i].par].target) ELSE s[i]
      joined == Each(DOMAIN s, join)
      free == BlankAnchors \ ({s[i].target : i \in filled} \cup {x.ref : x \in All(joined)})
      slots(a) == {tree[b].slot : b \in BlankSlots(Children(a))}
      fits(i, a) == /\ joined[i].act = "add" /\ IsAnchor(joined[i]) /\ joined[i].ref = tree[a].up
                    /\ {joined[j].slot : j \in Kids(joined, i)} \subseteq slots(a)
      taker(a) == First({i \in DOMAIN s : fits(i, a)})
      taken == {a \in free : taker(a) # None}
      blank(i) == CHOOSE a \in taken : taker(a) = i
      takers == {taker(a) : a \in taken}
      move(i) == IF i \in takers THEN Update(joined[i], blank(i))
                 ELSE IF joined[i].par \in takers THEN Under(joined[i], blank(joined[i].par)) ELSE joined[i]
      bare == {i \in DOMAIN s : ~HasText(joined[i]) /\ {i, joined[i].par} \cap takers # {}}
  IN  Each(DOMAIN s \ bare, move)

DropChildless(s) ==
  LET bare(i) == /\ s[i].act = "add" /\ ~HasText(s[i]) /\ Kids(s, i) = {}
                 /\ s[i].sec # None \/ IsAnchor(s[i])
  IN  Each({i \in DOMAIN s : ~bare(i)}, LAMBDA i : s[i])

Completed(s) ==
  LET full == FillTemplates(FillSections(DropEmptyTemplates(DropEmptySections(s))))
  IN  DropChildless(DropChildless(FillEmptySlots(FillBlankAnchor(ReuseAnchor(full)))))

(* The checks of the result.                                               *)
Holding(s, q) == {i \in DOMAIN s : q \in s[i].src}
CoversOnce(s) == \A q \in All(Sources) : Cardinality(Holding(s, q)) = 1

ItemsValid(s) ==
  \A x \in All(s) :
    \/ x.act = "update"
    \/ /\ x.slot \in Leaf \cup {Anchor, "growth", None}
       /\ x.sec # None => ~HasText(x) /\ x.slot = None /\ x.par = None

TemplatesValid(s) ==
  \A i \in {j \in DOMAIN s : s[j].slot \in Leaf} :
    LET x == s[i] IN
    /\ x.par # None => x.par \in DOMAIN s /\ IsAnchor(s[x.par])
    /\ \A j \in DOMAIN s : s[j].slot = x.slot /\ Holder(s[j]) = Holder(x) => j = i
    /\ x.par # None => Template[TemplateOf(x.slot)] \subseteq {s[j].slot : j \in Kids(s, x.par)}
    /\ Cardinality(TemplatesAt(s, Holder(x))) = 1

SectionsValid(s) ==
  \A i \in {j \in DOMAIN s : s[j].sec # None} :
    /\ \A j \in DOMAIN s : s[j].sec = s[i].sec => j = i
    /\ s[i].ref = Act /\ {s[j].slot : j \in Kids(s, i)} = Direct[s[i].sec]

(* A result that contradicts what the answers report, or the decision on   *)
(* the episode, is worth another round.                                    *)
Contradicts(s) ==
  \/ \E x \in All(s) : x.sec = "episodes" /\ reported \notin {None, Act}
  \/ \E x \in All(s) : continued # None /\ x.ref = tree[continued].up /\ IsAnchor(x)

SubtreesValid(s) ==
  \A i \in DOMAIN s : s[i].sec # None \/ IsAnchor(s[i]) => \E j \in Subtree(s, i) : HasText(s[j])

(* The last piece answers the open question, when there is one.            *)
GapValid(s) ==
  gap # None => \A x \in All(s) : Last(Sources) \in x.src /\ x.act = "add" => x.ref = gap
-----------------------------------------------------------------------------
(* The batches: pieces in their order, as many as fit, and never of two    *)
(* headings.  A batch starts where the heading changes, and in a run of    *)
(* pieces of one heading whenever one is full.                             *)
RunStart(k) == Least({j \in 1..k : \A m \in j..k : label[Sources[m]] = label[Sources[k]]})
Starts == {k \in DOMAIN Sources : (k - RunStart(k)) % BatchSize = 0}
BatchOf(k) == Cardinality({j \in Starts : j <= k})
Batches == Cardinality(Starts)
Batch(n) == {Sources[k] : k \in {j \in DOMAIN Sources : BatchOf(j) = n}}
SoFar == UNION {Batch(n) : n \in 1..batch}

Init ==
  /\ input \in Inputs
  /\ continued = None /\ reported = None /\ items = <<>> /\ asked = {}
  /\ batch = 0 /\ attempt = 0 /\ rerun = FALSE /\ pc = "match"

StartRound(again) ==
  /\ items' = <<>> /\ batch' = 1 /\ asked' = Batch(1) /\ attempt' = 0
  /\ rerun' = again /\ pc' = "ask"
  /\ reported' \in {None} \cup {a \in Alias \ {Act} : Category("episodes") = None}
  /\ UNCHANGED <<input>>

(* Which episode the pieces continue is asked first; of the answer to an   *)
(* open question it is known.  No answer means a new episode.              *)
MatchEpisode ==
  /\ pc = "match"
  /\ continued' \in IF gap \in Episodes THEN {gap}
                    ELSE IF gap # None THEN {None} ELSE Episodes \cup {None}
  /\ StartRound(FALSE)

Fails ==
  /\ pc' = "failed" /\ asked' = {}
  /\ UNCHANGED <<input, continued, reported, items,
                 batch, attempt, rerun>>

(* A second round over all batches, once.                                  *)
StartAgain ==
  IF rerun THEN Fails ELSE StartRound(TRUE) /\ UNCHANGED continued

(* The items of an answer: every use of a piece at a place, the anchor the *)
(* answer makes itself and its category.                                   *)
Uses == {<<shape, q>> : shape \in Shape, q \in All(Sources)}
Answered(uses, home, old) ==
  LET n == Top(items)
      at(shape) == {u[2] : u \in {v \in uses : v[1] = shape}}
      heads == {x \in Shape : x.slot = Anchor /\ x.at = "new"}
      text == UNION {at(shape) : shape \in heads}
      shapes == SetToSeq({u[1] : u \in uses} \ heads)
      head == IF home = "merged" THEN n + 1 ELSE n + 2
      own == IF \A u \in uses : u[1].at # "new" THEN {}
             ELSE IF home = "section" THEN {n + 1, n + 2} ELSE {head}
      category == Item(Act, None, "episodes", IF home = "merged" THEN Anchor ELSE None,
                       IF home = "merged" THEN text ELSE {})
      anchor == IF home = "section" THEN Item(None, n + 1, None, Anchor, text)
                ELSE Item(home, None, None, Anchor, text)
      other(shape) == IF shape.at \in {"new", "old"}
                      THEN Item(None, IF shape.at = "new" THEN head ELSE old, None, shape.slot, at(shape))
                      ELSE Item(IF shape.at \in Alias THEN shape.at ELSE Act, None, None,
                                shape.slot, at(shape))
      item(i) == IF i \in DOMAIN items THEN items[i]
                 ELSE IF i = n + 1 THEN category ELSE IF i = n + 2 THEN anchor ELSE other(shapes[i - n - 2])
  IN  Each(DOMAIN items \cup own \cup {n + 2 + k : k \in DOMAIN shapes}, item)

(* Numbers of items are arbitrary: after a call they are numbered anew.    *)
Renamed(s) ==
  LET rank(i) == Cardinality({j \in DOMAIN s : j <= i})
      parent(i) == IF i = None THEN None ELSE IF i \in DOMAIN s THEN rank(i) ELSE 0
      renamed(x) == [x EXCEPT !.par = parent(@)]
  IN  Each({rank(i) : i \in DOMAIN s}, LAMBDA k : renamed(s[CHOOSE i \in DOMAIN s : rank(i) = k]))

Missing(s) == Batch(batch) \ Placed(s)
Twice(s) == {q \in Batch(batch) : Cardinality(Holding(s, q)) > 1}

(* The pieces to ask for again: what is missing or placed twice, and the   *)
(* pieces of this batch that share an item with one of them.               *)
Together(s, S) == \A x \in All(s) : x.src \cap S # {} => x.src \cap Batch(batch) \subseteq S
Spread(s, S) ==
  {q \in Batch(batch) : \A T \in SUBSET Batch(batch) : S \subseteq T /\ Together(s, T) => q \in T}

ClearedWhole(s, S) ==
  Each(DOMAIN s, LAMBDA i : IF s[i].src \subseteq S THEN [s[i] EXCEPT !.src = {}] ELSE s[i])
Cleared(s, S) == Each(DOMAIN s, LAMBDA i : [s[i] EXCEPT !.src = @ \ S])

AcceptBatch(s) ==
  /\ Missing(s) \cup Twice(s) = {}
  /\ items' = Renamed(s) /\ batch' = batch + 1 /\ asked' = Batch(batch + 1) /\ attempt' = 0
  /\ pc' = IF batch = Batches THEN "check" ELSE "ask"
  /\ UNCHANGED <<input, continued, reported, rerun>>

AskAgain(s) ==
  /\ Missing(s) \cup Twice(s) # {} /\ attempt = 0
  /\ LET repair == Spread(s, Missing(s) \cup Twice(s)) IN
       /\ items' = Renamed(Cleared(s, repair)) /\ asked' = repair
  /\ attempt' = 1
  /\ UNCHANGED <<input, continued, reported, batch, rerun, pc>>

LoseBatch(s) ==
  /\ Missing(s) \cup Twice(s) # {} /\ attempt = 1
  /\ StartAgain

(* The model answers: it may forget a piece, use one twice, or use a piece *)
(* it was not asked for.                                                   *)
Olds == {i \in DOMAIN items : items[i].slot # None}
Fits(uses, old) ==
  /\ Cardinality({u \in uses : u[2] \notin asked}) <= 1
  /\ Cardinality(uses) <= Cardinality(asked) + 1
  /\ old # None <=> \E u \in uses : u[1].at = "old"
Few == {{}} \cup {{u, v, w} : u, v, w \in Uses}

Answer ==
  /\ pc = "ask"
  /\ \E old \in Olds \cup {None} : \E uses \in {S \in Few : Fits(S, old)} :
     \E home \in IF \E u \in uses : u[1].at = "new" THEN Homes \cap (Alias \cup {"section", "merged"})
                 ELSE {Act} :
     \E s \in {Fixed(Answered(uses, home, old), SoFar, DOMAIN items)} :
       AcceptBatch(s) \/ AskAgain(s) \/ LoseBatch(s)

(* An answer that cannot be read, or none in time: the batch is asked for  *)
(* a second time, as it is.                                                *)
Unreadable ==
  /\ pc = "ask"
  /\ IF attempt = 1 THEN Fails
     ELSE /\ attempt' = 1
          /\ UNCHANGED <<input, continued, reported, items,
                         asked, batch, rerun, pc>>

(* An item that is no addition, or names two parents of two families.      *)
Inconsistent == pc = "ask" /\ Fails

CheckResult ==
  /\ pc = "check"
  /\ LET s == Completed(items) IN
       IF ~(CoversOnce(s) /\ ItemsValid(s) /\ TemplatesValid(s) /\ SectionsValid(s)) THEN Fails
       ELSE IF Contradicts(s) THEN StartAgain
       ELSE IF ~(SubtreesValid(s) /\ GapValid(s)) THEN Fails
       ELSE /\ items' = s /\ pc' = "done"
            /\ UNCHANGED <<input, continued, reported, asked,
                           batch, attempt, rerun>>

Next == MatchEpisode \/ Answer \/ Unreadable \/ Inconsistent \/ CheckResult
Spec == Init /\ [][Next]_vars
-----------------------------------------------------------------------------
(* Properties.                                                             *)

(* A piece of the batches so far is in some item or is being asked for:    *)
(* the rules that merge, move and drop items, run over the items of all    *)
(* batches with every answer, lose nothing of an earlier batch, and a      *)
(* repair asks for all it has taken away.                                  *)
NothingForgotten == pc \in {"ask", "check", "done"} => SoFar \subseteq Placed(items) \cup asked

(* What is asked for is not placed already.                                *)
AskedOnce == pc = "ask" => \A q \in asked : q \notin Placed(items)

(* What the comments say and the program does not do (README, section 8).  *)

(* No two items fill the same block: the second would replace the text of  *)
(* the first.                                                              *)
EachBlockOnce ==
  pc = "done" => \A x, y \in All(items) :
    x.act = "update" /\ y.act = "update" /\ x.target = y.target => x = y

(* The answer to an open question stays with its anchor.                   *)
AnswerAtItsAnchor ==
  pc = "done" /\ gap # None => \A x \in All(items) : Last(Sources) \in x.src =>
    \/ x.act = "add" /\ x.ref = gap
    \/ x.act = "update" /\ x.target \in Below(gap)
=============================================================================
