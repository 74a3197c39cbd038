--------------------------- MODULE MapGraph_proofs ---------------------------
(***************************************************************************)
(* Proofs about MapGraph, for any map, any input and any bounds.           *)
(***************************************************************************)
EXTENDS MapGraph, SequenceTheorems, TLAPS

-----------------------------------------------------------------------------
(* The inductive invariant: of a state s of the graph and the question g    *)

Fields == {"node", "extracted", "text", "new", "ans", "reason", "snap", "target", "items",
           "gapUpdate", "refined", "errors", "repairs", "commit", "conflicts"}

Early == {"router", "file_processor", "file_cleanup", "content_filter", "target_activity"}

(* Nodes a graph that recovers from a conflict may be at.                  *)
Late == {"structure", "refine", "validate", "fallback", "end", "posted"}

(* The alias i stands for the block x in the state's own snapshot.         *)
Means(s, i, x) == i \in Alias(s.snap, s.target) /\ Resolve(s.snap, s.target, i) = x

SourcesOf(s, g) ==
  s.new \cup (IF g # None /\ g.kind = "new_child_block" THEN s.ans ELSE {})

ExtendsOf(s, g) == g # None /\ g.kind = "extend_block" /\ s.ans # {}

ReusableOf(s) ==
  IF s.errors # {} /\ \A e \in s.errors : e.to = "refine"
  THEN DOMAIN s.refined \ {e.id : e \in s.errors} ELSE {}

(* The map m, whose blocks without a text are its empty slots.             *)
Mapped(m) ==
  /\ DOMAIN m = {"version", "tree", "text"}
  /\ m.version \in Nat /\ m.text \in [Block -> Nat]
  /\ DOMAIN m.tree \subseteq Activity
  /\ \A a \in DOMAIN m.tree : m.tree[a] \in Seq(Block)
  /\ \A b \in Block : m.text[b] = 0 => b \in Blank

(* The activities that held the block of the question g at the start.      *)
Home(g) == Owners([tree |-> InitialTree], g.anchor)

(* What every state s of the graph has, with the open question g: an answer
   only to a question, pieces of the input, and nothing made of nothing.   *)
Sound(s, g) ==
  /\ g \in Gaps
  /\ DOMAIN s = Fields
  /\ s.node \in Early \cup Late
  /\ s.ans \subseteq {Answer}
  /\ g = None => s.ans = {}
  /\ g # None => s.new \subseteq Source
  /\ SourcesOf(s, g) = {} => s.items = <<>>
  /\ Len(s.items) \in Nat /\ DOMAIN s.items = 1..Len(s.items)
  /\ \A i \in DOMAIN s.items : DOMAIN s.items[i] = {"act", "ref", "srcs", "meant"}
  /\ s.node \in Early => s.items = <<>> /\ s.errors = {}
  /\ s.node = "target_activity" => s.new \cup s.ans # {}
  /\ Mapped(s.snap)
  /\ s.node \in Early => s.snap.tree = InitialTree

(* An answer to the question g goes to its block, or into an empty slot.   *)
Answers(g, o) ==
  \/ o.meant = g.anchor
  \/ g.kind = "new_child_block" /\ o.act = "update" /\ o.meant \in Blank

(* An operation that refers to the block it is meant for.                  *)
Aimed(s, g, o) ==
  /\ Means(s, o.ref, o.meant)
  /\ Answer \in o.srcs /\ g # None => Answers(g, o)

(* The items structure has placed: every piece once, each where meant.     *)
Placed(s, g) ==
  /\ \A i \in DOMAIN s.items : Aimed(s, g, s.items[i])
  /\ UNION {s.items[i].srcs : i \in DOMAIN s.items} = SourcesOf(s, g)
  /\ \A i, j \in DOMAIN s.items : i # j => s.items[i].srcs \cap s.items[j].srcs = {}

(* The update that takes an answer to the block of the question.           *)
Extended(s, g) ==
  IF ExtendsOf(s, g)
  THEN /\ DOMAIN s.gapUpdate = {1}
       /\ DOMAIN s.gapUpdate[1] = {"ref", "base", "meant"}
       /\ Means(s, s.gapUpdate[1].ref, s.gapUpdate[1].meant)
       /\ s.gapUpdate[1].meant = g.anchor
  ELSE s.gapUpdate = <<>>

(* The text of each operation says what the operation was made of.         *)
Says(s) ==
  \A i \in DOMAIN s.refined : s.refined[i].says = IF i = 0 THEN s.ans ELSE s.items[i].srcs

Refined(s, g) ==
  /\ DOMAIN s.refined = DOMAIN s.items \cup (IF s.gapUpdate = <<>> THEN {} ELSE {0})
  /\ Says(s)

(* What is to be committed.                                                *)
Right(s, g) ==
  /\ \A o \in s.commit :
       /\ DOMAIN o = {"act", "ref", "srcs", "says", "base", "meant"}
       /\ Aimed(s, g, o) /\ o.says = o.srcs
  /\ UNION {o.srcs : o \in s.commit} = s.new \cup s.ans
  /\ \A o, q \in s.commit : o # q => o.srcs \cap q.srcs = {}

(* A turn with an answer is about an activity that held its block.         *)
Homed(s, g) == g # None /\ s.ans # {} /\ s.target # None => s.target \in Home(g)

(* Nodes whose state goes on to what is committed.                         *)
Working(s) ==
  \/ s.node \in {"structure", "refine", "validate", "posted"}
  \/ s.node = "end" /\ s.reason = None

(* What the nodes rely on, node by node.                                   *)
Ready(s, g) ==
  /\ Working(s) => Homed(s, g)
  /\ s.node = "structure" => s.errors = {} \/ \E e \in s.errors : e.to = "structure"
  /\ s.node = "refine" => (s.target # None => Placed(s, g)) /\ (ReusableOf(s) # {} => Says(s))
  /\ s.node = "validate" \/ (s.node = "end" /\ s.reason = None) \/ s.node = "posted" =>
       Placed(s, g) /\ Extended(s, g) /\ Refined(s, g) /\ s.errors = {}
  /\ (s.node = "end" /\ s.reason = None) \/ s.node = "posted" => Right(s, g)

Good(s, g) == Sound(s, g) /\ Ready(s, g)

(* The map of a state is the present one, or an older version.             *)
Current(s) ==
  s.snap.version <= map.version /\ (s.snap.version = map.version => s.snap = map)

(* The checkpoint holds every extract, and nothing of a recovery.          *)
Checkpointed ==
  /\ Mapped(map) /\ Current(mem) /\ Current(saved)
  /\ saved.extracted = mem.extracted
  /\ saved.conflicts = 0
  /\ mem.conflicts # 0 => mem.node \in Late

(* Nothing is applied before the request is over.                          *)
OnceApplied == applied # {} => status \in {"committed", "closed"}

Inv ==
  /\ Good(mem, turn.gap) /\ Good(saved, turn.gap) /\ Checkpointed /\ OnceApplied
  /\ OriginalUntilExtracted /\ AppliedAsMeant /\ AnswerReachesItsGap

-----------------------------------------------------------------------------
(* The state of the graph stays good, node by node *)

(* A step leads to its state, and to the checkpoint of it or the old one.  *)
LEMMA NodeStep ==
  ASSUME NEW next, NEW s, Step(next, s), turn' = turn,
         Good([s EXCEPT !.node = next], turn.gap), Good(saved, turn.gap)
  PROVE  Good(mem', turn'.gap) /\ Good(saved', turn'.gap)
BY DEF Step, Save

(* Nodes that ask nothing of what was made so far.                         *)
LEMMA Passing ==
  ASSUME NEW s, NEW g, Sound(s, g), NEW next \in Early \cup {"fallback"},
         s.node \in Early \/ next = "fallback",
         next = "target_activity" => s.new \cup s.ans # {}
  PROVE  Good([s EXCEPT !.node = next], g)
BY DEF Good, Sound, Ready, Early, Late, Fields, SourcesOf, Working

(* The router, the files and the filter.                                   *)
LEMMA EarlyStep ==
  ASSUME Good(mem, turn.gap), Good(saved, turn.gap),
         \/ Router \/ FilesRead \/ CleanedUp \/ FilterFile \/ FilterChat
  PROVE  Good(mem', turn'.gap) /\ Good(saved', turn'.gap)
<1>1. turn' = turn
  BY DEF Router, FilesRead, CleanedUp, FilterFile, FilterChat, Frame
<1>2. Sound(mem, turn.gap)
  BY DEF Good
<1>3. ASSUME NEW r PROVE Sound([mem EXCEPT !.reason = r], turn.gap)
  BY <1>2 DEF Sound, Fields, SourcesOf
<1>4. CASE Router
  <2>1. mem.node \in Early
    BY <1>4 DEF Router, At, Early
  <2>2. PICK next \in {"file_processor", "content_filter"} : Step(next, mem)
        \/ Step("fallback", [mem EXCEPT !.reason = "out_of_scope"])
    BY <1>4 DEF Router
  <2>3. QED
    BY <1>1, <1>2, <1>3, <2>1, <2>2, NodeStep, Passing DEF Early
<1>5. CASE FilesRead
  <2>1. mem.node \in Early
    BY <1>5 DEF FilesRead, At, Early
  <2> DEFINE done == mem.extracted \cup (got \ turn.unreadable)
             why == IF done = {} THEN "file_unreadable" ELSE mem.reason
             s(text) == [mem EXCEPT !.extracted = done, !.text = text, !.reason = why]
  <2>2. PICK text \in BOOLEAN : Step("file_cleanup", s(text))
    BY <1>5 DEF FilesRead
  <2>3. Sound(s(text), turn.gap) /\ s(text).node \in Early
    BY <1>2, <2>1 DEF Sound, Fields, SourcesOf
  <2>4. QED
    BY <1>1, <2>2, <2>3, NodeStep, Passing DEF Early
<1>6. CASE CleanedUp
  <2>1. mem.node \in Early
    BY <1>6 DEF CleanedUp, At, Early
  <2>2. PICK next \in {"content_filter", "fallback"} : Step(next, mem)
    BY <1>6 DEF CleanedUp
  <2>3. QED
    BY <1>1, <1>2, <2>1, <2>2, NodeStep, Passing DEF Early
<1>7. ASSUME NEW new, NEW ans, Filtered(new, ans), mem.node = "content_filter",
             ans \subseteq {Answer}, turn.gap = None => ans = {},
             turn.gap # None => new \subseteq Source
      PROVE  Good(mem', turn'.gap) /\ Good(saved', turn'.gap)
  <2>1. CASE new \cup ans = {}
    BY <1>1, <1>2, <1>3, <1>7, <2>1, NodeStep, Passing DEF Filtered
  <2>2. CASE new \cup ans # {}
    <3> DEFINE s == [mem EXCEPT !.new = new, !.ans = ans]
    <3>1. Sound(s, turn.gap) /\ s.node \in Early /\ s.new \cup s.ans # {}
      BY <1>2, <1>7, <2>2 DEF Sound, Fields, SourcesOf, Early
    <3>2. Step("target_activity", s)
      BY <1>7, <2>2 DEF Filtered
    <3>3. QED
      BY <1>1, <3>1, <3>2, NodeStep, Passing DEF Early
  <2>3. QED
    BY <2>1, <2>2
<1>8. CASE FilterFile
  BY <1>1, <1>2, <1>3, <1>7, <1>8, NodeStep, Passing DEF FilterFile, At
<1>9. CASE FilterChat
  <2>1. PICK c \in Classified : Filtered(c.new, c.ans)
    BY <1>9 DEF FilterChat
  <2>2. QED
    BY <1>7, <1>9, <2>1 DEF Classified, FilterChat, At
<1>10. QED
  BY <1>4, <1>5, <1>6, <1>8, <1>9

(* The target: with it, an answer that extends its block needs no item.    *)
LEMMA SelectTargetStep ==
  ASSUME Good(mem, turn.gap), Good(saved, turn.gap), SelectTarget
  PROVE  Good(mem', turn'.gap) /\ Good(saved', turn'.gap)
<1>1. turn' = turn /\ mem.node = "target_activity" /\ Sound(mem, turn.gap)
  BY DEF SelectTarget, Frame, At, Good
<1>2. CASE Step("fallback", [mem EXCEPT !.target = None, !.reason = "ambiguous_target"])
  <2>1. Sound([mem EXCEPT !.target = None, !.reason = "ambiguous_target"], turn.gap)
    BY <1>1 DEF Sound, Fields, SourcesOf
  <2>2. QED
    BY <1>1, <1>2, <2>1, NodeStep, Passing
<1>3. ASSUME NEW a \in Targets, Step(AfterTarget, [mem EXCEPT !.target = a])
      PROVE  Good(mem', turn'.gap) /\ Good(saved', turn'.gap)
  <2> DEFINE s == [[mem EXCEPT !.target = a] EXCEPT !.node = AfterTarget]
  <2>1. /\ Sound(s, turn.gap) /\ s.items = <<>> /\ s.errors = {} /\ s.node = AfterTarget
        /\ s.new = mem.new /\ s.ans = mem.ans
    BY <1>1 DEF Sound, Fields, SourcesOf, Early, Late, AfterTarget
  <2>2. Homed(s, turn.gap)
    <3>1. Owners(mem.snap, turn.gap.anchor) = Home(turn.gap)
      BY <1>1 DEF Sound, Early, Home, Owners, AliasesOf, Alias, Resolve
    <3>2. mem.ans # {} => a \in Home(turn.gap)
      BY <3>1 DEF Targets, Answering
    <3>3. s.target = a
      BY <1>1 DEF Sound, Fields
    <3>4. QED
      BY <2>1, <3>2, <3>3 DEF Homed
  <2>3. CASE AfterTarget = "structure"
    BY <1>1, <1>3, <2>1, <2>3, <2>2, NodeStep DEF Good, Ready
  <2>4. CASE AfterTarget = "refine"
    <3>1. mem.new = {} /\ turn.gap.kind = "extend_block"
      BY <2>4 DEF AfterTarget
    <3>2. SourcesOf(s, turn.gap) = {}
      BY <2>1, <3>1 DEF SourcesOf
    <3>3. Placed(s, turn.gap)
      BY <2>1, <3>2 DEF Placed
    <3>4. ReusableOf(s) = {}
      BY <2>1 DEF ReusableOf
    <3>5. QED
      BY <1>1, <1>3, <2>1, <2>4, <2>2, <3>3, <3>4, NodeStep DEF Good, Ready
  <2>5. QED
    BY <2>3, <2>4 DEF AfterTarget
<1>4. QED
  BY <1>2, <1>3 DEF SelectTarget

(* A block for some pieces is aimed where they are meant to go: one with
   the answer below its anchor, or into an empty slot.                     *)
LEMMA HomesAimed ==
  ASSUME Sound(mem, turn.gap), NEW P \in SUBSET Sources, NEW o \in Homes(P)
  PROVE  /\ DOMAIN o = {"act", "ref", "srcs", "meant"} /\ o.srcs = P
         /\ Aimed(mem, turn.gap, o)
<1> DEFINE item(act, i) == [act |-> act, ref |-> i, srcs |-> P,
                            meant |-> Resolve(mem.snap, mem.target, i)]
<1>1. CASE \E i \in Parents(P) : o = item("add", i)
  <2>1. PICK i \in Parents(P) : o = item("add", i)
    BY <1>1
  <2>2. i \in Context
    BY DEF Parents, Anchors, AliasesOf, Context
  <2>3. Answer \in P /\ turn.gap # None => o.meant = turn.gap.anchor
    BY <2>1 DEF Parents, Anchors, AliasesOf
  <2>4. QED
    BY <2>1, <2>2, <2>3 DEF Aimed, Answers, Means, Context
<1>2. CASE \E i \in {j \in Context \ {0} : mem.snap.text[Resolve(mem.snap, mem.target, j)] = 0} :
              o = item("update", i)
  <2>1. PICK i \in Context \ {0} :
          mem.snap.text[Resolve(mem.snap, mem.target, i)] = 0 /\ o = item("update", i)
    BY <1>2
  <2>2. Resolve(mem.snap, mem.target, i) \in Block
    <3>1. /\ mem.target \in DOMAIN mem.snap.tree
          /\ i \in 1..Len(mem.snap.tree[mem.target])
          /\ mem.snap.tree[mem.target] \in Seq(Block)
      BY <2>1 DEF Context, Alias, Sound, Mapped
    <3>2. QED
      BY <3>1 DEF Resolve
  <2>3. Resolve(mem.snap, mem.target, i) \in Blank
    BY <2>1, <2>2 DEF Sound, Mapped
  <2>4. Answer \in P /\ turn.gap # None => turn.gap.kind = "new_child_block"
    BY DistinctAssumption DEF Sources, Sound
  <2>5. QED
    BY <2>1, <2>3, <2>4 DEF Aimed, Answers, Means, Context
<1>3. QED
  BY <1>1, <1>2 DEF Homes

(* Splitting pieces loses and repeats none of them.                        *)
LEMMA SplitsCover ==
  ASSUME NEW P, NEW split \in Splits(P)
  PROVE  /\ Len(split) \in {1, 2} /\ DOMAIN split = 1..Len(split)
         /\ UNION {split[j] : j \in 1..Len(split)} = P
         /\ \A j, k \in 1..Len(split) : j # k => split[j] \cap split[k] = {}
<1>1. CASE split = <<P>>
  BY <1>1
<1>2. CASE split # <<P>>
  <2>1. PICK A \in SUBSET P : split = <<A, P \ A>>
    BY <1>2 DEF Splits
  <2>2. Len(split) = 2 /\ split[1] = A /\ split[2] = P \ A /\ DOMAIN split = 1..2
    BY <2>1
  <2>3. UNION {split[j] : j \in 1..2} = P
    BY <2>2
  <2>4. QED
    BY <2>2, <2>3
<1>3. QED
  BY <1>1, <1>2

(* The blocks structure places take every piece once.                      *)
LEMMA StructureStep ==
  ASSUME Good(mem, turn.gap), Good(saved, turn.gap), StructureBlocks \/ StructureNothing
  PROVE  Good(mem', turn'.gap) /\ Good(saved', turn'.gap)
<1>1. /\ turn' = turn /\ mem.node = "structure"
      /\ Sound(mem, turn.gap)
      /\ mem.errors = {} \/ \E e \in mem.errors : e.to = "structure"
      /\ Homed(mem, turn.gap)
  BY DEF StructureBlocks, StructureNothing, Frame, At, Good, Ready, Working
<1>2. CASE StructureBlocks
  <2>1. PICK split \in Splits(Sources) :
          \E items \in UNION {[1..Len(split) -> UNION {Homes(split[j]) : j \in 1..Len(split)}]} :
            /\ \A j \in 1..Len(split) : items[j].srcs = split[j]
            /\ Step("refine", [mem EXCEPT !.items = items])
    BY <1>2 DEF StructureBlocks
  <2> DEFINE n == Len(split)
  <2>2. PICK items \in [1..n -> UNION {Homes(split[j]) : j \in 1..n}] :
          /\ \A j \in 1..n : items[j].srcs = split[j]
          /\ Step("refine", [mem EXCEPT !.items = items])
    BY <2>1
  <2> DEFINE s == [[mem EXCEPT !.items = items] EXCEPT !.node = "refine"]
  <2>3. /\ n \in {1, 2} /\ DOMAIN items = 1..n /\ UNION {split[j] : j \in 1..n} = Sources
        /\ \A j, k \in 1..n : j # k => split[j] \cap split[k] = {}
    BY SplitsCover
  <2>4. Len(items) = n
    <3>1. items \in Seq(UNION {Homes(split[j]) : j \in 1..n})
      BY <2>3
    <3>2. QED
      BY <2>3, <3>1, LenProperties
  <2>5. ASSUME NEW j \in 1..n
        PROVE  /\ DOMAIN items[j] = {"act", "ref", "srcs", "meant"}
               /\ Aimed(mem, turn.gap, items[j])
    <3>1. PICK k \in 1..n : items[j] \in Homes(split[k])
      BY <2>2
    <3>2. split[k] \subseteq Sources
      BY <2>3
    <3>3. QED
      BY <1>1, <3>1, <3>2, HomesAimed
  <2>6. /\ s.items = items /\ s.node = "refine" /\ s.errors = mem.errors /\ s.new = mem.new
        /\ s.ans = mem.ans /\ s.snap = mem.snap /\ s.target = mem.target
        /\ s.refined = mem.refined /\ DOMAIN s = Fields
    BY <1>1 DEF Sound, Fields
  <2>7. SourcesOf(s, turn.gap) = Sources /\ Sources # {}
    BY <1>2, <2>6 DEF SourcesOf, Sources, StructureBlocks
  <2> HIDE DEF n, s
  <2>8. Sound(s, turn.gap)
    <3>1. Len(s.items) \in Nat /\ DOMAIN s.items = 1..Len(s.items)
      BY <2>3, <2>4, <2>6
    <3>2. \A i \in DOMAIN s.items : DOMAIN s.items[i] = {"act", "ref", "srcs", "meant"}
      BY <2>3, <2>5, <2>6
    <3>3. QED
      BY <1>1, <2>6, <2>7, <3>1, <3>2 DEF Sound, Early, Late
  <2>9. Placed(s, turn.gap)
    <3>1. \A j \in 1..n : Aimed(s, turn.gap, items[j])
      BY <2>5, <2>6 DEF Aimed, Means
    <3>2. UNION {items[j].srcs : j \in 1..n} = Sources
      BY <2>2, <2>3
    <3>3. \A j, k \in 1..n : j # k => items[j].srcs \cap items[k].srcs = {}
      BY <2>2, <2>3
    <3>4. QED
      BY <2>3, <2>6, <2>7, <3>1, <3>2, <3>3 DEF Placed
  <2>10. ReusableOf(s) = {}
    BY <1>1, <2>6 DEF ReusableOf
  <2>11. Good(s, turn.gap)
    BY <1>1, <2>6, <2>8, <2>9, <2>10 DEF Good, Ready, Homed
  <2>12. QED
    BY <1>1, <2>2, <2>11, NodeStep DEF s
<1>3. CASE StructureNothing
  <2> DEFINE s == [[mem EXCEPT !.reason = "nothing_to_apply"] EXCEPT !.node = "refine"]
  <2>1. /\ Sound(s, turn.gap) /\ s.items = mem.items /\ s.node = "refine"
        /\ s.errors = mem.errors /\ s.target = mem.target /\ s.new = mem.new /\ s.ans = mem.ans
        /\ Homed(s, turn.gap)
    BY <1>1 DEF Sound, Fields, SourcesOf, Early, Late, Homed
  <2>2. ReusableOf(s) = {}
    BY <1>1, <2>1 DEF ReusableOf
  <2>3. s.target # None => SourcesOf(s, turn.gap) = {}
    BY <1>3, <2>1 DEF StructureNothing, Sources, SourcesOf
  <2>4. s.target # None => s.items = <<>>
    BY <2>1, <2>3 DEF Sound
  <2>5. s.target # None => Placed(s, turn.gap)
    BY <2>3, <2>4 DEF Placed
  <2>6. QED
    BY <1>1, <1>3, <2>1, <2>2, <2>5, NodeStep DEF Good, Ready, StructureNothing
<1>4. QED
  BY <1>2, <1>3

(* Every operation gets the text of its own pieces, and the answer that
   extends its block the update of that block.                             *)
LEMMA RefineStep ==
  ASSUME Good(mem, turn.gap), Good(saved, turn.gap), RefineText
  PROVE  Good(mem', turn'.gap) /\ Good(saved', turn'.gap)
<1>1. /\ turn' = turn /\ Sound(mem, turn.gap) /\ Placed(mem, turn.gap)
      /\ ReusableOf(mem) # {} => Says(mem)
      /\ Homed(mem, turn.gap)
  BY DEF RefineText, Frame, At, Good, Ready, Working
<1> DEFINE ids(update) == 1..Len(mem.items) \cup (IF update = <<>> THEN {} ELSE {0})
           says(i) == IF i = 0 THEN mem.ans ELSE mem.items[i].srcs
           text(update, long) ==
             [i \in ids(update) |-> IF i \in Reusable THEN mem.refined[i]
                                    ELSE [says |-> says(i), long |-> i = long]]
           s(update, long) ==
             [mem EXCEPT !.gapUpdate = update, !.errors = {}, !.refined = text(update, long)]
<1>2. PICK update \in GapUpdates : \E long : Step("validate", s(update, long))
  BY DEF RefineText
<1>3. PICK long : Step("validate", s(update, long))
  BY <1>2
<1> DEFINE n == [s(update, long) EXCEPT !.node = "validate"]
<1>4. /\ n.gapUpdate = update /\ n.errors = {} /\ n.refined = text(update, long)
      /\ n.node = "validate" /\ n.items = mem.items /\ n.new = mem.new /\ n.ans = mem.ans
      /\ n.snap = mem.snap /\ n.target = mem.target /\ DOMAIN n = Fields
  BY <1>1 DEF Sound, Fields
<1>5. Sound(n, turn.gap)
  BY <1>1, <1>4 DEF Sound, SourcesOf, Early, Late
<1>6. Placed(n, turn.gap)
  BY <1>1, <1>4 DEF Placed, SourcesOf, Aimed, Means
<1>7. Extended(n, turn.gap)
  <2>1. CASE ~Extends
    BY <1>2, <1>4, <2>1 DEF GapUpdates, Extended, ExtendsOf, Extends
  <2>2. CASE Extends
    <3>1. PICK i \in Anchors :
            update = <<[ref |-> i, base |-> mem.snap.text[turn.gap.anchor],
                        meant |-> turn.gap.anchor]>>
      BY <1>2, <2>2 DEF GapUpdates
    <3>2. DOMAIN update = {1} /\ update[1].ref = i /\ update[1].meant = turn.gap.anchor
          /\ DOMAIN update[1] = {"ref", "base", "meant"}
      BY <3>1
    <3>3. Means(n, i, turn.gap.anchor)
      BY <1>4 DEF Anchors, AliasesOf, Means
    <3>4. QED
      BY <1>4, <2>2, <3>2, <3>3 DEF Extended, ExtendsOf, Extends
  <2>3. QED
    BY <2>1, <2>2
<1>8. Refined(n, turn.gap)
  <2>1. DOMAIN n.refined = DOMAIN mem.items \cup (IF update = <<>> THEN {} ELSE {0})
    BY <1>1, <1>4 DEF Sound
  <2>2. ASSUME NEW i \in DOMAIN n.refined PROVE n.refined[i].says = says(i)
    <3>1. CASE i \in Reusable
      <4>1. i \in DOMAIN mem.refined /\ ReusableOf(mem) # {}
        BY <3>1 DEF Reusable, ReusableOf
      <4>2. QED
        BY <1>1, <1>4, <2>2, <3>1, <4>1 DEF Says
    <3>2. CASE i \notin Reusable
      BY <1>4, <2>2, <3>2
    <3>3. QED
      BY <3>1, <3>2
  <2>3. QED
    BY <1>4, <2>1, <2>2 DEF Refined, Says
<1>9. Good(n, turn.gap)
  BY <1>1, <1>4, <1>5, <1>6, <1>7, <1>8 DEF Good, Ready, Homed
<1>10. QED
  BY <1>1, <1>3, <1>9, NodeStep

(* The operations of placed items, of the update and of their texts.       *)
LEMMA OperationsRight ==
  ASSUME NEW g, g = turn.gap, Sound(mem, g), Placed(mem, g), Extended(mem, g), Refined(mem, g)
  PROVE  /\ \A o \in Operations :
              /\ DOMAIN o = {"act", "ref", "srcs", "says", "base", "meant"}
              /\ Aimed(mem, g, o) /\ o.says = o.srcs
         /\ UNION {o.srcs : o \in Operations} = mem.new \cup mem.ans
         /\ \A o, q \in Operations : o # q => o.srcs \cap q.srcs = {}
<1> DEFINE op(i) ==
      [act |-> mem.items[i].act, ref |-> mem.items[i].ref, srcs |-> mem.items[i].srcs,
       says |-> mem.refined[i].says, base |-> 0, meant |-> mem.items[i].meant]
           up == [act |-> "update", ref |-> mem.gapUpdate[1].ref, srcs |-> mem.ans,
                  says |-> mem.refined[0].says, base |-> mem.gapUpdate[1].base,
                  meant |-> mem.gapUpdate[1].meant]
           ops == {op(i) : i \in DOMAIN mem.items}
           E == ExtendsOf(mem, g)
<1>1. Operations = ops \cup (IF E THEN {up} ELSE {})
  <2>1. {mem.gapUpdate[k] : k \in DOMAIN mem.gapUpdate} =
          IF E THEN {mem.gapUpdate[1]} ELSE {}
    BY DEF Extended
  <2>2. QED
    BY <2>1 DEF Operations
<1>2. ASSUME NEW i \in DOMAIN mem.items
      PROVE  /\ Aimed(mem, g, op(i))
             /\ op(i).says = mem.items[i].srcs /\ op(i).srcs = mem.items[i].srcs
  <2>1. i \in DOMAIN mem.refined /\ i # 0
    BY DEF Refined, Sound
  <2>2. QED
    BY <2>1 DEF Refined, Says, Placed, Aimed, Answers
<1>3. ASSUME E PROVE Aimed(mem, g, up) /\ up.says = mem.ans /\ up.srcs = mem.ans
  <2>1. mem.gapUpdate # <<>>
    BY <1>3 DEF Extended
  <2>2. 0 \in DOMAIN mem.refined
    BY <2>1 DEF Refined
  <2>3. QED
    BY <1>3, <2>2 DEF Refined, Says, Extended, Aimed, Answers
<1>4. \A o \in Operations : /\ DOMAIN o = {"act", "ref", "srcs", "says", "base", "meant"}
                            /\ Aimed(mem, g, o) /\ o.says = o.srcs
  BY <1>1, <1>2, <1>3
<1>5. UNION {o.srcs : o \in ops} = SourcesOf(mem, g)
  <2>1. {o.srcs : o \in ops} = {mem.items[i].srcs : i \in DOMAIN mem.items}
    BY <1>2
  <2>2. QED
    BY <2>1 DEF Placed
<1>6. UNION {o.srcs : o \in Operations} = mem.new \cup mem.ans
  <2>1. UNION {o.srcs : o \in Operations} = SourcesOf(mem, g) \cup (IF E THEN mem.ans ELSE {})
    BY <1>1, <1>3, <1>5
  <2>2. g # None => g.kind \in {"extend_block", "new_child_block"}
    BY DEF Sound, Gaps
  <2>3. QED
    BY <2>1, <2>2 DEF SourcesOf, ExtendsOf, Sound
<1>7. \A i, j \in DOMAIN mem.items : op(i) # op(j) => op(i).srcs \cap op(j).srcs = {}
  BY <1>2 DEF Placed
<1>8. ASSUME E, NEW i \in DOMAIN mem.items PROVE op(i).srcs \cap up.srcs = {}
  <2>1. op(i).srcs \subseteq SourcesOf(mem, g)
    BY <1>2 DEF Placed
  <2>2. SourcesOf(mem, g) \subseteq Source /\ mem.ans \subseteq {Answer}
    BY <1>8 DEF SourcesOf, ExtendsOf, Sound
  <2>3. QED
    BY <1>3, <1>8, <2>1, <2>2, DistinctAssumption
<1>9. \A o, q \in Operations : o # q => o.srcs \cap q.srcs = {}
  BY <1>1, <1>7, <1>8
<1>10. QED
  BY <1>4, <1>6, <1>9

(* A node that keeps everything but its errors, reason and counters.       *)
LEMMA Kindred ==
  ASSUME NEW s, NEW n, NEW g,
         n.items = s.items, n.gapUpdate = s.gapUpdate, n.refined = s.refined, n.new = s.new,
         n.ans = s.ans, n.snap = s.snap, n.target = s.target
  PROVE  /\ Placed(n, g) = Placed(s, g) /\ Extended(n, g) = Extended(s, g)
         /\ Refined(n, g) = Refined(s, g) /\ Says(n) = Says(s) /\ Homed(n, g) = Homed(s, g)
BY DEF Placed, Extended, Refined, Says, SourcesOf, ExtendsOf, Aimed, Means, Homed

(* What passes goes to the end; what does not goes back to whoever made it.*)
LEMMA ValidateStep ==
  ASSUME Good(mem, turn.gap), Good(saved, turn.gap), Passes \/ Repair
  PROVE  Good(mem', turn'.gap) /\ Good(saved', turn'.gap)
<1>1. /\ turn' = turn /\ Sound(mem, turn.gap) /\ Placed(mem, turn.gap)
      /\ Extended(mem, turn.gap) /\ Refined(mem, turn.gap) /\ mem.errors = {}
      /\ Homed(mem, turn.gap)
  BY DEF Passes, Repair, Frame, At, Good, Ready, Working
<1>2. CASE Passes
  <2> DEFINE next == IF Operations = {} THEN "fallback" ELSE "end"
             n == [[mem EXCEPT !.commit = Operations] EXCEPT !.node = next]
  <2>1. /\ n.items = mem.items /\ n.gapUpdate = mem.gapUpdate /\ n.refined = mem.refined
        /\ n.new = mem.new /\ n.ans = mem.ans /\ n.snap = mem.snap /\ n.target = mem.target
        /\ n.commit = Operations /\ n.errors = {} /\ n.node = next /\ DOMAIN n = Fields
    BY <1>1 DEF Sound, Fields
  <2>2. Step(next, [mem EXCEPT !.commit = Operations])
    BY <1>2 DEF Passes
  <2> HIDE DEF n
  <2>3. Sound(n, turn.gap)
    BY <1>1, <2>1 DEF Sound, SourcesOf, Early, Late
  <2>4. Placed(n, turn.gap) /\ Extended(n, turn.gap) /\ Refined(n, turn.gap) /\ Homed(n, turn.gap)
    BY <1>1, <2>1, Kindred
  <2>5. Right(n, turn.gap)
    BY <1>1, <2>1, OperationsRight DEF Right, Aimed, Means
  <2>6. Good(n, turn.gap)
    BY <2>1, <2>3, <2>4, <2>5 DEF Good, Ready
  <2>7. QED
    BY <1>1, <2>2, <2>6, NodeStep DEF n
<1>3. CASE Repair
  <2> DEFINE next == IF \E e \in Errors : e.to = "structure" THEN "structure" ELSE "refine"
             s == [mem EXCEPT !.errors = Errors, !.repairs = CountRepair(mem.repairs)]
             n == [s EXCEPT !.node = next]
  <2>1. /\ n.items = mem.items /\ n.gapUpdate = mem.gapUpdate /\ n.refined = mem.refined
        /\ n.new = mem.new /\ n.ans = mem.ans /\ n.snap = mem.snap /\ n.target = mem.target
        /\ n.errors = Errors /\ n.node = next /\ DOMAIN n = Fields
    BY <1>1 DEF Sound, Fields
  <2>2. Step(next, s)
    BY <1>3 DEF Repair
  <2> HIDE DEF n
  <2>3. Sound(n, turn.gap)
    BY <1>1, <2>1 DEF Sound, SourcesOf, Early, Late
  <2>4. Placed(n, turn.gap) /\ Says(n) /\ Homed(n, turn.gap)
    BY <1>1, <2>1, Kindred DEF Refined
  <2>5. Good(n, turn.gap)
    BY <2>1, <2>3, <2>4 DEF Good, Ready
  <2>6. QED
    BY <1>1, <2>2, <2>5, NodeStep DEF n
<1>4. QED
  BY <1>2, <1>3

(* Without anything to commit the turn ends with its reason.               *)
LEMMA FallbackStep ==
  ASSUME Good(mem, turn.gap), Good(saved, turn.gap), Fallback
  PROVE  Good(mem', turn'.gap) /\ Good(saved', turn'.gap)
<1> DEFINE why == IF mem.reason = None THEN "out_of_scope" ELSE mem.reason
           n == [[mem EXCEPT !.reason = why] EXCEPT !.node = "end"]
<1>1. turn' = turn /\ Sound(mem, turn.gap) /\ Step("end", [mem EXCEPT !.reason = why])
  BY DEF Fallback, Frame, Good
<1>2. Sound(n, turn.gap) /\ n.node = "end" /\ n.reason = why
  BY <1>1 DEF Sound, Fields, SourcesOf, Early, Late
<1>3. why # None
  BY ReasonAssumption DEF Reason
<1>4. QED
  BY <1>1, <1>2, <1>3, NodeStep DEF Good, Ready, Working

(* What is posted is what the graph ended with.                            *)
LEMMA PostStep ==
  ASSUME Good(mem, turn.gap), Good(saved, turn.gap), PostCommit
  PROVE  Good(mem', turn'.gap) /\ Good(saved', turn'.gap)
<1>1. /\ turn' = turn /\ saved' = saved /\ mem' = [mem EXCEPT !.node = "posted"]
      /\ Sound(mem, turn.gap) /\ Placed(mem, turn.gap) /\ Extended(mem, turn.gap)
      /\ Refined(mem, turn.gap) /\ mem.errors = {} /\ Right(mem, turn.gap)
      /\ Homed(mem, turn.gap)
  BY DEF PostCommit, Frame, At, Good, Ready, Working
<1> DEFINE n == [mem EXCEPT !.node = "posted"]
<1>2. /\ n.items = mem.items /\ n.gapUpdate = mem.gapUpdate /\ n.refined = mem.refined
      /\ n.new = mem.new /\ n.ans = mem.ans /\ n.snap = mem.snap /\ n.target = mem.target
      /\ n.errors = {} /\ n.commit = mem.commit /\ n.node = "posted" /\ DOMAIN n = Fields
  BY <1>1 DEF Sound, Fields
<1> HIDE DEF n
<1>3. Sound(n, turn.gap)
  BY <1>1, <1>2 DEF Sound, SourcesOf, Early, Late
<1>4. Placed(n, turn.gap) /\ Extended(n, turn.gap) /\ Refined(n, turn.gap) /\ Homed(n, turn.gap)
  BY <1>1, <1>2, Kindred
<1>5. Right(n, turn.gap)
  BY <1>1, <1>2 DEF Right, Aimed, Means
<1>6. QED
  BY <1>1, <1>2, <1>3, <1>4, <1>5 DEF Good, Ready, n

(* The new alias of a block stands for the block in the new snapshot.      *)
LEMMA RemapMeans ==
  ASSUME NEW i, NEW x, Kept(i), Resolve(mem.snap, mem.target, i) = x
  PROVE  Remap(i) \in Alias(map, mem.target) /\ Resolve(map, mem.target, Remap(i)) = x
BY DEF Kept, Remap, AliasesOf

(* After a conflict the operations refer to their blocks in the new map, or
   are made anew.                                                          *)
LEMMA RecoverStep ==
  ASSUME Good(mem, turn.gap), Good(saved, turn.gap), Mapped(map), RecoverConflict
  PROVE  Good(mem', turn'.gap) /\ Good(saved', turn'.gap)
<1>1. /\ turn' = turn /\ Sound(mem, turn.gap) /\ Placed(mem, turn.gap)
      /\ Extended(mem, turn.gap) /\ Refined(mem, turn.gap) /\ mem.errors = {}
      /\ Homed(mem, turn.gap)
  BY DEF RecoverConflict, Frame, At, Good, Ready, Working
<1>2. CASE ~Maintained
  <2> DEFINE n == [Refreshed EXCEPT !.node = "structure"]
  <2>1. Sound(n, turn.gap) /\ n.node = "structure" /\ n.errors = {}
    BY <1>1 DEF Sound, Fields, Refreshed, SourcesOf, Early, Late
  <2>2. Homed(n, turn.gap)
    <3>1. n.ans = mem.ans /\ n.target \in {mem.target, None}
      BY <1>1 DEF Sound, Fields, Refreshed
    <3>2. QED
      BY <1>1, <3>1 DEF Homed
  <2>3. Step("structure", Refreshed)
    BY <1>2 DEF RecoverConflict
  <2>4. QED
    BY <1>1, <2>1, <2>3, <2>2, NodeStep DEF Good, Ready
<1>3. CASE Maintained
  <2> DEFINE items == [i \in DOMAIN mem.items |->
                         [mem.items[i] EXCEPT !.ref = Remap(mem.items[i].ref)]]
             update == [k \in DOMAIN mem.gapUpdate |->
                          [mem.gapUpdate[k] EXCEPT !.ref = Remap(mem.gapUpdate[k].ref)]]
             s == [Refreshed EXCEPT !.items = items, !.gapUpdate = update]
             n == [s EXCEPT !.node = "validate"]
  <2>1. Step("validate", s)
    BY <1>3 DEF RecoverConflict
  <2>2. /\ n.items = items /\ n.gapUpdate = update /\ n.refined = mem.refined
        /\ n.new = mem.new /\ n.ans = mem.ans /\ n.snap = map /\ n.target = mem.target
        /\ n.errors = {} /\ n.node = "validate" /\ DOMAIN n = Fields
    BY <1>1, <1>3 DEF Sound, Fields, Refreshed, Maintained
  <2>3. DOMAIN items = DOMAIN mem.items /\ Len(items) = Len(mem.items)
    <3>1. DOMAIN items = 1..Len(mem.items) /\ Len(mem.items) \in Nat
      BY <1>1 DEF Sound
    <3>2. items \in Seq({items[i] : i \in DOMAIN items})
      <4> DEFINE S == {items[i] : i \in DOMAIN items}
      <4>1. items \in [1..Len(mem.items) -> S]
        BY <3>1
      <4>2. QED
        BY <3>1, <4>1
    <3>3. QED
      BY <1>1, <3>1, <3>2, LenProperties DEF Sound
  <2>4. ASSUME NEW i \in DOMAIN mem.items
        PROVE  /\ DOMAIN items[i] = {"act", "ref", "srcs", "meant"}
               /\ items[i].srcs = mem.items[i].srcs /\ items[i].meant = mem.items[i].meant
               /\ items[i].ref = Remap(mem.items[i].ref) /\ items[i].act = mem.items[i].act
    BY <1>1 DEF Sound
  <2> HIDE DEF n, items, update
  <2>5. \A i \in DOMAIN mem.items : Aimed(n, turn.gap, items[i])
    <3> SUFFICES ASSUME NEW i \in DOMAIN mem.items PROVE Aimed(n, turn.gap, items[i])
      OBVIOUS
    <3>1. Kept(mem.items[i].ref)
      BY <1>3 DEF Maintained
    <3>2. Aimed(mem, turn.gap, mem.items[i])
      BY <1>1 DEF Placed
    <3>3. Means(n, items[i].ref, items[i].meant)
      BY <2>2, <2>4, <3>1, <3>2, RemapMeans DEF Aimed, Means
    <3>4. QED
      BY <2>4, <3>2, <3>3 DEF Aimed, Answers
  <2>6. Sound(n, turn.gap)
    <3>1. Len(items) \in Nat /\ DOMAIN items = 1..Len(items)
      BY <1>1, <2>3 DEF Sound
    <3>2. mem.items = <<>> => items = <<>>
      BY <2>3 DEF items
    <3>3. QED
      BY <1>1, <2>2, <2>3, <2>4, <3>1, <3>2 DEF Sound, SourcesOf, Early, Late
  <2>7. Placed(n, turn.gap)
    <3>1. {items[i].srcs : i \in DOMAIN items} = {mem.items[i].srcs : i \in DOMAIN mem.items}
      BY <2>3, <2>4
    <3>2. SourcesOf(n, turn.gap) = SourcesOf(mem, turn.gap)
      BY <2>2 DEF SourcesOf
    <3>3. QED
      BY <1>1, <2>2, <2>3, <2>4, <2>5, <3>1, <3>2 DEF Placed
  <2>8. Extended(n, turn.gap)
    <3>1. CASE ~ExtendsOf(mem, turn.gap)
      <4>1. update = <<>>
        BY <1>1, <3>1 DEF Extended, update
      <4>2. QED
        BY <2>2, <3>1, <4>1 DEF Extended, ExtendsOf
    <3>2. CASE ExtendsOf(mem, turn.gap)
      <4>1. /\ DOMAIN mem.gapUpdate = {1}
            /\ DOMAIN mem.gapUpdate[1] = {"ref", "base", "meant"}
            /\ Means(mem, mem.gapUpdate[1].ref, mem.gapUpdate[1].meant)
            /\ mem.gapUpdate[1].meant = turn.gap.anchor
        BY <1>1, <3>2 DEF Extended
      <4>2. /\ DOMAIN update = {1} /\ DOMAIN update[1] = {"ref", "base", "meant"}
            /\ update[1].ref = Remap(mem.gapUpdate[1].ref)
            /\ update[1].meant = mem.gapUpdate[1].meant
        BY <4>1 DEF update
      <4>3. Kept(mem.gapUpdate[1].ref)
        BY <1>3, <4>1 DEF Maintained
      <4>4. Means(n, update[1].ref, update[1].meant)
        BY <2>2, <4>1, <4>2, <4>3, RemapMeans DEF Means
      <4>5. QED
        BY <2>2, <3>2, <4>1, <4>2, <4>4 DEF Extended, ExtendsOf
    <3>3. QED
      BY <3>1, <3>2
  <2>9. Refined(n, turn.gap)
    <3>1. update = <<>> <=> mem.gapUpdate = <<>>
      BY <1>1 DEF update, Extended
    <3>2. \A i \in DOMAIN n.refined : i # 0 => i \in DOMAIN mem.items
      BY <1>1, <2>2 DEF Refined
    <3>3. QED
      BY <1>1, <2>2, <2>3, <2>4, <3>1, <3>2 DEF Refined, Says
  <2>10. Good(n, turn.gap)
    BY <1>1, <2>2, <2>6, <2>7, <2>8, <2>9 DEF Good, Ready, Homed
  <2>11. QED
    BY <1>1, <2>1, <2>10, NodeStep DEF n, items, update
<1>4. QED
  BY <1>2, <1>3

(* An execution that fails goes back to its checkpoint.                    *)
LEMMA FailStep ==
  ASSUME Good(mem, turn.gap), Good(saved, turn.gap), Fail
  PROVE  Good(mem', turn'.gap) /\ Good(saved', turn'.gap)
BY DEF Fail

(* Every node leaves a good state.                                         *)
LEMMA GoodStep ==
  ASSUME Good(mem, turn.gap), Good(saved, turn.gap), Mapped(map), [Next]_vars
  PROVE  Good(mem', turn'.gap) /\ Good(saved', turn'.gap)
<1>1. CASE Router \/ FilesRead \/ CleanedUp \/ FilterFile \/ FilterChat
  BY <1>1, EarlyStep
<1>2. CASE SelectTarget
  BY <1>2, SelectTargetStep
<1>3. CASE StructureBlocks \/ StructureNothing
  BY <1>3, StructureStep
<1>4. CASE RefineText
  BY <1>4, RefineStep
<1>5. CASE Passes \/ Repair
  BY <1>5, ValidateStep
<1>6. CASE Fallback
  BY <1>6, FallbackStep
<1>7. CASE PostCommit
  BY <1>7, PostStep
<1>8. CASE RecoverConflict
  BY <1>8, RecoverStep
<1>9. CASE ValidationFails \/ SecondConflict \/ CommitFails \/ Crash
  BY <1>9, FailStep DEF ValidationFails, SecondConflict, CommitFails, Crash
<1>10. CASE NodeRaises \/ Decline
  BY <1>10, FailStep DEF NodeRaises, Decline, Frame
<1>11. CASE (\E f \in File : ReadFile(f) \/ DeleteOriginal(f)) \/ MainApplies \/ SuggestGap
            \/ Retry \/ Edit
  BY <1>11 DEF ReadFile, DeleteOriginal, MainApplies, SuggestGap, Retry, Edit, Frame
<1>12. CASE UNCHANGED vars
  BY <1>12 DEF vars
<1>13. QED
  BY <1>1, <1>2, <1>3, <1>4, <1>5, <1>6, <1>7, <1>8, <1>9, <1>10, <1>11, <1>12
     DEF Next, Progress

-----------------------------------------------------------------------------
(* Checkpoints, originals and what is applied *)

(* A step from a state that keeps the extracts keeps them in the checkpoint. *)
LEMMA StepCheckpointed ==
  ASSUME Checkpointed, map' = map, NEW s, NEW next, Step(next, s), DOMAIN s = Fields,
         s.extracted = mem.extracted, s.snap \in {mem.snap, map},
         s.conflicts # 0 => next \in Late
  PROVE  Checkpointed'
<1> DEFINE n == [s EXCEPT !.node = next]
<1>1. /\ n.extracted = s.extracted /\ n.conflicts = s.conflicts /\ n.node = next
      /\ mem' = n /\ saved' = Save(n) /\ n.snap = s.snap
  BY DEF Step, Fields
<1> HIDE DEF n
<1>2. Current(n) /\ map.version \in Nat
  BY <1>1 DEF Checkpointed, Current, Mapped
<1>3. QED
  BY <1>1, <1>2 DEF Checkpointed, Save, Current

(* A tree with a block moved or removed is a tree.                         *)
LEMMA MovedTyped ==
  ASSUME \A x \in DOMAIN map.tree : map.tree[x] \in Seq(Block), NEW a \in DOMAIN map.tree,
         NEW c, NEW i \in DOMAIN map.tree[a]
  PROVE  /\ DOMAIN Moved(a, c, i) = DOMAIN map.tree
         /\ \A x \in DOMAIN map.tree : Moved(a, c, i)[x] \in Seq(Block)
<1>1. ASSUME NEW x \in DOMAIN map.tree PROVE Moved(a, c, i)[x] \in Seq(Block)
  <2> DEFINE old == map.tree[x]
             left == SubSeq(old, 1, i - 1)
             right == SubSeq(old, i + 1, Len(old))
             rest == IF x = a THEN left \o right ELSE old
  <2>1. old \in Seq(Block) /\ map.tree[a] \in Seq(Block)
    OBVIOUS
  <2>2. map.tree[a][i] \in Block /\ i \in 1..Len(map.tree[a])
    BY <2>1
  <2>3. rest \in Seq(Block)
    <3>1. CASE x = a
      <4>1. /\ Len(old) \in Nat /\ i \in 1..Len(old)
            /\ \A k \in 1..Len(old) : old[k] \in Block
        BY <2>1, <2>2, <3>1
      <4>2. left \in Seq(Block)
        BY <4>1, SubSeqProperties
      <4>3. right \in Seq(Block)
        BY <4>1, SubSeqProperties
      <4>4. QED
        BY <3>1, <4>2, <4>3, ConcatProperties
    <3>2. CASE x # a
      BY <2>1, <3>2
    <3>3. QED
      BY <3>1, <3>2
  <2>4. <<map.tree[a][i]>> \in Seq(Block)
    BY <2>2
  <2>5. Moved(a, c, i)[x] = IF x = c THEN <<map.tree[a][i]>> \o rest ELSE rest
    BY DEF Moved
  <2> HIDE DEF rest
  <2>6. <<map.tree[a][i]>> \o rest \in Seq(Block)
    BY <2>3, <2>4, ConcatProperties
  <2>7. QED
    BY <2>3, <2>5, <2>6
<1>2. QED
  BY <1>1 DEF Moved

(* A commit and an edit make a new version of the map, with the same or more
   texts.                                                                  *)
LEMMA MapStep ==
  ASSUME Mapped(map), MainApplies \/ Edit
  PROVE  Mapped(map') /\ map'.version = map.version + 1
<1>1. ASSUME NEW tree, DOMAIN tree \subseteq Activity,
             \A a \in DOMAIN tree : tree[a] \in Seq(Block),
             map' = [map EXCEPT !.version = map.version + 1, !.tree = tree]
      PROVE  Mapped(map') /\ map'.version = map.version + 1
  BY <1>1 DEF Mapped
<1>2. ASSUME NEW text, text \in [Block -> Nat], \A b \in Block : text[b] >= map.text[b],
             map' = [map EXCEPT !.version = map.version + 1, !.text = text]
      PROVE  Mapped(map') /\ map'.version = map.version + 1
  <2>1. /\ map'.version = map.version + 1 /\ map'.tree = map.tree /\ map'.text = text
        /\ DOMAIN map' = {"version", "tree", "text"}
    BY <1>2 DEF Mapped
  <2>2. ASSUME NEW b \in Block, text[b] = 0 PROVE b \in Blank
    <3>1. map.text[b] \in Nat /\ map.text[b] <= 0
      BY <1>2, <2>2 DEF Mapped
    <3>2. QED
      BY <3>1 DEF Mapped
  <2>3. QED
    BY <1>2, <2>1, <2>2 DEF Mapped
<1>3. CASE MainApplies
  <2> DEFINE text == [b \in Block |-> IF \E o \in Sent : o.act = "update" /\ o.block = b
                                      THEN map.text[b] + 1 ELSE map.text[b]]
  <2>1. map' = [map EXCEPT !.version = map.version + 1, !.text = text]
    BY <1>3 DEF MainApplies, Mapped
  <2>2. text \in [Block -> Nat] /\ \A b \in Block : text[b] >= map.text[b]
    BY DEF Mapped
  <2> HIDE DEF text
  <2>3. QED
    BY <1>2, <2>1, <2>2
<1>4. ASSUME NEW a \in DOMAIN map.tree, NEW c, NEW i \in DOMAIN map.tree[a],
             map' = [map EXCEPT !.version = map.version + 1, !.tree = Moved(a, c, i)]
      PROVE  Mapped(map') /\ map'.version = map.version + 1
  BY <1>1, <1>4, MovedTyped DEF Mapped
<1>5. ASSUME NEW a \in DOMAIN map.tree,
             map' = [map EXCEPT !.version = map.version + 1,
                                !.tree = [x \in DOMAIN map.tree \ {a} |-> map.tree[x]]]
      PROVE  Mapped(map') /\ map'.version = map.version + 1
  <2> DEFINE tree == [x \in DOMAIN map.tree \ {a} |-> map.tree[x]]
  <2>1. DOMAIN tree \subseteq Activity /\ \A x \in DOMAIN tree : tree[x] \in Seq(Block)
    BY DEF Mapped
  <2> HIDE DEF tree
  <2>2. map' = [map EXCEPT !.version = map.version + 1, !.tree = tree]
    BY <1>5 DEF tree
  <2>3. QED
    BY <1>1, <2>1, <2>2
<1>6. ASSUME NEW a \in DOMAIN map.tree, NEW i \in DOMAIN map.tree[a],
             map' = [map EXCEPT !.version = map.version + 1,
                                !.text[map.tree[a][i]] = map.text[map.tree[a][i]] + 1]
      PROVE  Mapped(map') /\ map'.version = map.version + 1
  <2> DEFINE text == [map.text EXCEPT ![map.tree[a][i]] = map.text[map.tree[a][i]] + 1]
  <2>1. map' = [map EXCEPT !.version = map.version + 1, !.text = text]
    BY <1>6 DEF Mapped
  <2>2. text \in [Block -> Nat] /\ \A b \in Block : text[b] >= map.text[b]
    BY DEF Mapped
  <2> HIDE DEF text
  <2>3. QED
    BY <1>2, <2>1, <2>2
<1>7. QED
  BY <1>3, <1>4, <1>5, <1>6 DEF Edit

(* A new version of the map makes the ones the states read older.          *)
LEMMA MapCheckpointed ==
  ASSUME Checkpointed, Sound(mem, turn.gap), Sound(saved, turn.gap), MainApplies \/ Edit
  PROVE  Checkpointed'
<1>1. Mapped(map') /\ map'.version = map.version + 1 /\ map.version \in Nat
  BY MapStep DEF Checkpointed, Mapped
<1>2. mem' = mem /\ saved' = saved
  BY DEF MainApplies, Edit
<1>3. mem.snap.version \in Nat /\ saved.snap.version \in Nat
  BY DEF Sound, Mapped
<1>4. ASSUME NEW s, s.snap.version \in Nat, s.snap.version <= map.version
      PROVE  s.snap.version <= map'.version /\ s.snap.version # map'.version
  BY <1>1, <1>4
<1>5. QED
  BY <1>1, <1>2, <1>3, <1>4 DEF Checkpointed, Current

(* Every extract is in the checkpoint before its original may go.          *)
LEMMA CheckpointStep ==
  ASSUME Good(mem, turn.gap), Good(saved, turn.gap), Checkpointed, OriginalUntilExtracted,
         [Next]_vars
  PROVE  Checkpointed' /\ OriginalUntilExtracted'
<1>1. DOMAIN mem = Fields /\ DOMAIN saved = Fields
  BY DEF Good, Sound
<1>2. ASSUME Checkpointed', UNCHANGED <<turn, stored>>, mem'.extracted = mem.extracted
      PROVE  OriginalUntilExtracted'
  BY <1>2 DEF Checkpointed, OriginalUntilExtracted
<1>3. ASSUME NEW s, NEW next, Step(next, s), Frame, DOMAIN s = Fields,
             s.extracted = mem.extracted, s.snap \in {mem.snap, map},
             s.conflicts # 0 => next \in Late
      PROVE  Checkpointed' /\ OriginalUntilExtracted'
  <2>1. mem'.extracted = mem.extracted
    BY <1>3 DEF Step, Fields
  <2>2. QED
    BY <1>2, <1>3, <2>1, StepCheckpointed DEF Frame
<1>4. ASSUME NEW s, NEW next, Step(next, s), Frame, DOMAIN s = Fields,
             s.extracted = mem.extracted, s.snap = mem.snap, s.conflicts = mem.conflicts,
             mem.node \in Early \/ next \in Late
      PROVE  Checkpointed' /\ OriginalUntilExtracted'
  <2>1. s.conflicts # 0 => next \in Late
    BY <1>4 DEF Checkpointed, Early, Late
  <2>2. QED
    BY <1>3, <1>4, <2>1
<1>5. CASE Router
  BY <1>1, <1>4, <1>5 DEF Router, At, Early, Fields
<1>6. CASE FilesRead
  <2> DEFINE done == mem.extracted \cup (got \ turn.unreadable)
             why == IF done = {} THEN "file_unreadable" ELSE mem.reason
             s(text) == [mem EXCEPT !.extracted = done, !.text = text, !.reason = why]
  <2>1. PICK text \in BOOLEAN : Step("file_cleanup", s(text))
    BY <1>6 DEF FilesRead
  <2>2. mem.conflicts = 0
    BY <1>6 DEF FilesRead, At, Checkpointed, Late
  <2>3. /\ saved' = mem' /\ mem'.extracted = done /\ mem'.conflicts = 0
        /\ mem'.snap = mem.snap
    BY <1>1, <2>1, <2>2 DEF Step, Save, Fields
  <2>4. QED
    BY <1>6, <2>3 DEF FilesRead, Frame, Checkpointed, OriginalUntilExtracted, Current
<1>7. CASE CleanedUp
  BY <1>1, <1>4, <1>7 DEF CleanedUp, At, Early
<1>8. ASSUME NEW new, NEW ans, Filtered(new, ans), Frame, At("content_filter")
      PROVE  Checkpointed' /\ OriginalUntilExtracted'
  BY <1>1, <1>4, <1>8 DEF Filtered, At, Early, Fields
<1>9. CASE FilterFile
  BY <1>1, <1>4, <1>8, <1>9 DEF FilterFile, At, Early, Fields
<1>10. CASE FilterChat
  BY <1>8, <1>10 DEF FilterChat
<1>11. CASE SelectTarget
  BY <1>1, <1>4, <1>11 DEF SelectTarget, At, Early, Fields
<1>12. CASE StructureBlocks
  <2>1. PICK items : Step("refine", [mem EXCEPT !.items = items])
    BY <1>12 DEF StructureBlocks
  <2>2. QED
    BY <1>1, <1>4, <1>12, <2>1 DEF StructureBlocks, Late, Fields
<1>13. CASE StructureNothing
  BY <1>1, <1>4, <1>13 DEF StructureNothing, Late, Fields
<1>14. CASE RefineText
  <2>1. PICK update, refined :
          Step("validate", [mem EXCEPT !.gapUpdate = update, !.errors = {}, !.refined = refined])
    <3> DEFINE ids(update) == 1..Len(mem.items) \cup (IF update = <<>> THEN {} ELSE {0})
               says(i) == IF i = 0 THEN mem.ans ELSE mem.items[i].srcs
               text(update, long) ==
                 [i \in ids(update) |-> IF i \in Reusable THEN mem.refined[i]
                                        ELSE [says |-> says(i), long |-> i = long]]
    <3>1. \E update, long :
            Step("validate", [mem EXCEPT !.gapUpdate = update, !.errors = {},
                                         !.refined = text(update, long)])
      BY <1>14 DEF RefineText
    <3>2. QED
      BY <3>1
  <2>2. QED
    BY <1>1, <1>4, <1>14, <2>1 DEF RefineText, Late, Fields
<1>15. CASE Passes
  BY <1>1, <1>4, <1>15 DEF Passes, Late, Fields
<1>16. CASE Repair
  BY <1>1, <1>4, <1>16 DEF Repair, Late, Fields
<1>17. CASE Fallback
  BY <1>1, <1>4, <1>17 DEF Fallback, Late, Fields
<1>18. CASE PostCommit
  <2>1. mem'.extracted = mem.extracted /\ mem'.conflicts = mem.conflicts
        /\ mem'.snap = mem.snap /\ mem'.node = "posted"
    BY <1>1, <1>18 DEF PostCommit, Fields
  <2>2. QED
    BY <1>2, <1>18, <2>1 DEF PostCommit, Frame, Checkpointed, Late, Current
<1>19. CASE RecoverConflict
  <2>1. DOMAIN Refreshed = Fields /\ Refreshed.extracted = mem.extracted
        /\ Refreshed.snap = map
    BY <1>1 DEF Refreshed, Fields
  <2>2. \E next \in {"validate", "structure"} : \E items, update :
          \/ Step(next, [Refreshed EXCEPT !.items = items, !.gapUpdate = update])
          \/ Step(next, Refreshed)
    BY <1>19 DEF RecoverConflict
  <2>3. QED
    BY <1>3, <1>19, <2>1, <2>2 DEF RecoverConflict, Late, Fields
<1>20. ASSUME Fail PROVE Checkpointed' /\ OriginalUntilExtracted'
  BY <1>20 DEF Fail, Checkpointed, OriginalUntilExtracted, Current
<1>21. CASE ValidationFails \/ SecondConflict \/ CommitFails \/ Crash \/ NodeRaises \/ Decline
  BY <1>2, <1>20, <1>21 DEF ValidationFails, SecondConflict, CommitFails, Crash, NodeRaises,
     Decline, Frame, Checkpointed, Current
<1>22. CASE \E f \in File : DeleteOriginal(f)
  BY <1>22 DEF DeleteOriginal, Checkpointed, OriginalUntilExtracted, Current
<1>23. CASE (\E f \in File : ReadFile(f)) \/ SuggestGap \/ Retry
  BY <1>2, <1>23 DEF ReadFile, SuggestGap, Retry, Frame, Checkpointed, Current
<1>24. CASE UNCHANGED vars
  BY <1>2, <1>24 DEF vars, Checkpointed, Current
<1>25. CASE MainApplies \/ Edit
  <2>1. Checkpointed'
    BY <1>25, MapCheckpointed DEF Good
  <2>2. QED
    BY <1>2, <1>25, <2>1 DEF MainApplies, Edit
<1>26. QED
  BY <1>5, <1>6, <1>7, <1>9, <1>10, <1>11, <1>12, <1>13, <1>14, <1>15, <1>16, <1>17, <1>18,
     <1>19, <1>21, <1>22, <1>23, <1>24, <1>25 DEF Next, Progress

(* What the main server applies is what was right to commit.               *)
LEMMA AppliesRight ==
  ASSUME Good(mem, turn.gap), Checkpointed, MainApplies
  PROVE  OnceApplied' /\ AppliedAsMeant' /\ AnswerReachesItsGap'
<1>1. Right(mem, turn.gap) /\ Sound(mem, turn.gap) /\ Homed(mem, turn.gap)
  BY DEF MainApplies, At, Good, Ready, Working
<1>2. /\ turn' = turn /\ mem' = mem /\ status' = "committed"
      /\ applied' = {[o EXCEPT !.old = OldText(o.block)] : o \in Sent}
  BY DEF MainApplies
<1> DEFINE made(o) ==
      [act |-> o.act, block |-> Resolve(mem.snap, mem.target, o.ref), srcs |-> o.srcs,
       says |-> o.says, base |-> o.base,
       old |-> OldText(Resolve(mem.snap, mem.target, o.ref)), meant |-> o.meant]
           sent(o) == [act |-> o.act, block |-> Resolve(mem.snap, mem.target, o.ref),
                       srcs |-> o.srcs, says |-> o.says, base |-> o.base, old |-> 0,
                       meant |-> o.meant]
<1>3. applied' = {made(o) : o \in mem.commit}
  <2>1. \A o : [sent(o) EXCEPT !.old = OldText(sent(o).block)] = made(o)
    OBVIOUS
  <2>2. Sent = {sent(o) : o \in mem.commit}
    BY DEF Sent
  <2> HIDE DEF made, sent
  <2>3. applied' = {[sent(o) EXCEPT !.old = OldText(sent(o).block)] : o \in mem.commit}
    BY <1>2, <2>2
  <2>4. QED
    BY <2>1, <2>3
<1>4. ASSUME NEW o \in mem.commit
      PROVE  /\ made(o).block = o.meant /\ made(o).meant = o.meant /\ made(o).says = made(o).srcs
             /\ made(o).srcs = o.srcs /\ made(o).act = o.act
             /\ mem.target \in Owners(mem.snap, o.meant)
             /\ Answer \in o.srcs /\ turn.gap # None => Answers(turn.gap, o)
  <2>1. o.ref \in Alias(mem.snap, mem.target) /\ Resolve(mem.snap, mem.target, o.ref) = o.meant
    BY <1>1 DEF Right, Aimed, Means
  <2>2. mem.target \in Owners(mem.snap, o.meant)
    BY <2>1 DEF Owners, AliasesOf, Alias
  <2>3. QED
    BY <1>1, <2>1, <2>2 DEF Right, Aimed
<1> HIDE DEF made
<1>5. {o.srcs : o \in applied'} = {o.srcs : o \in mem.commit}
  BY <1>3, <1>4
<1>6. \A o \in applied' : o.block = o.meant /\ o.says = o.srcs
  BY <1>3, <1>4
<1>7. \A o, q \in applied' : o # q => o.srcs \cap q.srcs = {}
  BY <1>1, <1>3, <1>4 DEF Right
<1>8. AppliedAsMeant'
  BY <1>1, <1>2, <1>5, <1>6, <1>7 DEF AppliedAsMeant, Right
<1>9. AnswerReachesItsGap'
  <2> SUFFICES ASSUME NEW o \in applied', Answer \in o.srcs, turn.gap # None
               PROVE  \/ o.block = turn.gap.anchor
                      \/ /\ turn.gap.kind = "new_child_block" /\ o.act = "update"
                         /\ o.block \in Blank
                         /\ \E a \in Owners(map', o.block) : a \in Home(turn.gap)
    BY <1>2 DEF AnswerReachesItsGap, Home
  <2>1. PICK c \in mem.commit : o = made(c)
    BY <1>3
  <2>2. /\ o.block = c.meant /\ o.act = c.act /\ mem.target \in Owners(mem.snap, c.meant)
        /\ Answers(turn.gap, c) /\ Answer \in c.srcs
    BY <1>4, <2>1
  <2>3. mem.ans # {} /\ mem.target # None
    <3>1. Answer \in mem.new \cup mem.ans
      BY <1>1, <2>2 DEF Right
    <3>2. mem.target \in Activity
      BY <1>1, <2>2 DEF Owners, Sound, Mapped
    <3>3. QED
      BY <1>1, <3>1, <3>2, DistinctAssumption DEF Sound
  <2>4. mem.target \in Home(turn.gap)
    BY <1>1, <2>3 DEF Homed
  <2>5. Owners(map', c.meant) = Owners(mem.snap, c.meant)
    <3>1. mem.snap = map
      BY DEF MainApplies, Checkpointed, Current
    <3>2. map'.tree = map.tree
      BY DEF MainApplies, Checkpointed, Mapped
    <3>3. QED
      BY <3>1, <3>2 DEF Owners, AliasesOf, Alias, Resolve
  <2>6. QED
    BY <2>2, <2>4, <2>5 DEF Answers
<1>10. QED
  BY <1>2, <1>8, <1>9 DEF OnceApplied

(* Nothing is applied but by the main server, and then the state stays.    *)
LEMMA AppliedStep ==
  ASSUME Good(mem, turn.gap), Checkpointed, OnceApplied, AppliedAsMeant, AnswerReachesItsGap,
         [Next]_vars
  PROVE  OnceApplied' /\ AppliedAsMeant' /\ AnswerReachesItsGap'
<1>1. CASE MainApplies
  BY <1>1, AppliesRight
<1>2. CASE SuggestGap \/ UNCHANGED vars
  BY <1>2 DEF SuggestGap, vars, OnceApplied, AppliedAsMeant, AnswerReachesItsGap
<1>3. ASSUME applied = {}, applied' = applied
      PROVE  OnceApplied' /\ AppliedAsMeant' /\ AnswerReachesItsGap'
  BY <1>3 DEF OnceApplied, AppliedAsMeant, AnswerReachesItsGap
<1>4. ASSUME status \in {"running", "failed"} PROVE applied = {}
  BY <1>4 DEF OnceApplied
<1>5. CASE \/ Router \/ FilesRead \/ CleanedUp \/ FilterFile \/ FilterChat \/ SelectTarget
           \/ \E f \in File : ReadFile(f) \/ DeleteOriginal(f)
  BY <1>3, <1>4, <1>5 DEF Router, FilesRead, CleanedUp, FilterFile, FilterChat, SelectTarget,
     ReadFile, DeleteOriginal, Frame, At
<1>6. CASE \/ StructureBlocks \/ StructureNothing \/ RefineText \/ Passes \/ Repair
           \/ ValidationFails \/ Fallback \/ Decline \/ PostCommit
  BY <1>3, <1>4, <1>6 DEF StructureBlocks, StructureNothing, RefineText, Passes, Repair,
     ValidationFails, Fallback, Decline, PostCommit, Frame, Fail, At
<1>7. CASE \/ RecoverConflict \/ SecondConflict \/ NodeRaises \/ CommitFails \/ Crash
           \/ Retry \/ Edit
  BY <1>3, <1>4, <1>7 DEF RecoverConflict, SecondConflict, NodeRaises, CommitFails, Crash,
     Retry, Edit, Frame, Fail, At
<1>8. QED
  BY <1>1, <1>2, <1>5, <1>6, <1>7 DEF Next, Progress

-----------------------------------------------------------------------------
(* Types *)

(* Every edit and the commit make one new version, and so much newer texts. *)
Numbered ==
  /\ map.version = 1 + edits + (IF status \in {"committed", "closed"} THEN 1 ELSE 0)
  /\ \A b \in Block : map.text[b] <= map.version

Typed == TypeOK /\ Numbered

(* A step to a typed state leaves the state of the graph typed.            *)
LEMMA TypedStep ==
  ASSUME TypeOK, NEW next \in Node, NEW s, DOMAIN s = Fields, State(s), Step(next, s)
  PROVE  State(mem') /\ State(saved') /\ got' = {} /\ tries' = 0
<1> DEFINE n == [s EXCEPT !.node = next]
<1>1. State(n)
  BY DEF State, Fields
<1>2. mem' = n /\ saved' \in {n, saved} /\ got' = {} /\ tries' = 0
  BY DEF Step, Save
<1> HIDE DEF n
<1>3. QED
  BY <1>1, <1>2 DEF TypeOK

(* What a step of the graph leaves of the rest.                            *)
LEMMA TypedFrame ==
  ASSUME Typed, State(mem'), State(saved'), got' \subseteq File,
         tries' \in 0..(NodeMaxAttempts - 1), Frame
  PROVE  Typed'
BY DEF Typed, TypeOK, Numbered, Frame

LEMMA TypedThrough ==
  ASSUME Typed, NEW next \in Node, NEW s, DOMAIN s = Fields, State(s), Step(next, s), Frame
  PROVE  Typed'
<1>1. State(mem') /\ State(saved') /\ got' = {} /\ tries' = 0
  BY TypedStep DEF Typed
<1>2. QED
  BY <1>1, TypedFrame DEF NodeMaxAttempts

LEMMA TypedFail == ASSUME Typed, Fail, status = "running" PROVE Typed'
BY DEF Typed, TypeOK, Numbered, Fail, NodeMaxAttempts, Status

(* An alias stands for the activity or for a block of it.                  *)
LEMMA ResolveTyped ==
  ASSUME NEW s, Snapshot(s), NEW a, NEW i \in Alias(s, a)
  PROVE  i \in Nat /\ Resolve(s, a, i) \in Activity \cup Block
<1>1. a \in DOMAIN s.tree /\ i \in 0..Len(s.tree[a])
  BY DEF Alias
<1>2. s.tree[a] \in Seq(Block) /\ a \in Activity
  BY <1>1 DEF Snapshot
<1>3. QED
  BY <1>1, <1>2 DEF Resolve

(* The router, the files, the filter and the target.                       *)
LEMMA EarlyTyped ==
  ASSUME Typed, DOMAIN mem = Fields,
         \/ Router \/ FilesRead \/ CleanedUp \/ FilterFile \/ FilterChat \/ SelectTarget
  PROVE  Typed'
<1>1. State(mem)
  BY DEF Typed, TypeOK
<1>2. ASSUME NEW next \in Node, Step(next, mem), Frame PROVE Typed'
  BY <1>1, <1>2, TypedThrough
<1>3. ASSUME NEW next \in Node, NEW reason \in Reason, Frame,
             Step(next, [mem EXCEPT !.reason = reason])
      PROVE  Typed'
  <2>1. State([mem EXCEPT !.reason = reason])
    BY <1>1 DEF State, Fields
  <2>2. QED
    BY <1>3, <2>1, TypedThrough
<1>4. CASE Router
  BY <1>2, <1>3, <1>4 DEF Router, Node, Reason
<1>5. CASE FilesRead
  <2> DEFINE done == mem.extracted \cup (got \ turn.unreadable)
             why == IF done = {} THEN "file_unreadable" ELSE mem.reason
             s(text) == [mem EXCEPT !.extracted = done, !.text = text, !.reason = why]
  <2>1. PICK text \in BOOLEAN : Step("file_cleanup", s(text))
    BY <1>5 DEF FilesRead
  <2>2. done \subseteq File /\ why \in Reason \cup {None}
    BY <1>1 DEF State, Typed, TypeOK, Reason
  <2> HIDE DEF done, why
  <2>3. State(s(text)) /\ DOMAIN s(text) = Fields
    BY <1>1, <2>2 DEF State, Fields
  <2>4. QED
    BY <1>5, <2>1, <2>3, TypedThrough DEF FilesRead, Node
<1>6. CASE CleanedUp
  BY <1>2, <1>6 DEF CleanedUp, Node
<1>7. ASSUME NEW new \in SUBSET Piece, NEW ans \in SUBSET {Answer}, Filtered(new, ans), Frame
      PROVE  Typed'
  <2>1. State([mem EXCEPT !.new = new, !.ans = ans])
    BY <1>1 DEF State, Fields
  <2>2. QED
    BY <1>3, <1>7, <2>1, TypedThrough DEF Filtered, Node, Reason
<1>8. CASE FilterFile
  BY <1>3, <1>7, <1>8 DEF FilterFile, Piece, Node, Reason
<1>9. CASE FilterChat
  <2>1. PICK c \in Classified : Filtered(c.new, c.ans)
    BY <1>9 DEF FilterChat
  <2>2. c.new \subseteq Piece /\ c.ans \subseteq {Answer}
    BY DEF Classified, Piece
  <2>3. QED
    BY <1>7, <1>9, <2>1, <2>2 DEF FilterChat
<1>10. CASE SelectTarget
  <2>1. AfterTarget \in Node
    BY DEF AfterTarget, Node
  <2>2. Targets \subseteq Activity
    BY <1>1 DEF Targets, Owners, State, Snapshot
  <2>3. ASSUME NEW a \in Targets, Step(AfterTarget, [mem EXCEPT !.target = a]) PROVE Typed'
    <3>1. State([mem EXCEPT !.target = a])
      BY <1>1, <2>2 DEF State, Fields
    <3>2. QED
      BY <1>10, <2>1, <2>3, <3>1, TypedThrough DEF SelectTarget
  <2>4. ASSUME Step("fallback", [mem EXCEPT !.target = None, !.reason = "ambiguous_target"])
        PROVE  Typed'
    <3>1. State([mem EXCEPT !.target = None, !.reason = "ambiguous_target"])
      BY <1>1 DEF State, Fields, Reason
    <3>2. QED
      BY <1>10, <2>4, <3>1, TypedThrough DEF SelectTarget, Node
  <2>5. QED
    BY <1>10, <2>3, <2>4 DEF SelectTarget
<1>11. QED
  BY <1>4, <1>5, <1>6, <1>8, <1>9, <1>10

(* A block for typed pieces is typed.                                      *)
LEMMA HomesTyped ==
  ASSUME State(mem), NEW P \in SUBSET Piece, NEW o \in Homes(P)
  PROVE  o \in Item
<1>1. PICK act \in Kinds, i \in Context :
        o = [act |-> act, ref |-> i, srcs |-> P, meant |-> Resolve(mem.snap, mem.target, i)]
  BY DEF Homes, Parents, Anchors, AliasesOf, Context, Kinds
<1>2. i \in Nat /\ Resolve(mem.snap, mem.target, i) \in Activity \cup Block
  BY ResolveTyped DEF Context, State
<1>3. QED
  BY <1>1, <1>2 DEF Item

(* The blocks structure places.                                            *)
LEMMA StructureTyped ==
  ASSUME Typed, DOMAIN mem = Fields, StructureBlocks \/ StructureNothing
  PROVE  Typed'
<1>1. State(mem)
  BY DEF Typed, TypeOK
<1>2. CASE StructureBlocks
  <2>1. PICK split \in Splits(Sources) :
          \E items \in UNION {[1..Len(split) -> UNION {Homes(split[j]) : j \in 1..Len(split)}]} :
            Step("refine", [mem EXCEPT !.items = items])
    BY <1>2 DEF StructureBlocks
  <2> DEFINE n == Len(split)
  <2>2. PICK items \in [1..n -> UNION {Homes(split[j]) : j \in 1..n}] :
          Step("refine", [mem EXCEPT !.items = items])
    BY <2>1
  <2>3. n \in {1, 2} /\ UNION {split[j] : j \in 1..n} = Sources
    BY SplitsCover
  <2>4. Sources \subseteq Piece
    BY <1>1 DEF Sources, State, Piece
  <2>5. ASSUME NEW j \in 1..n PROVE items[j] \in Item
    <3>1. PICK k \in 1..n : items[j] \in Homes(split[k])
      BY <2>2
    <3>2. split[k] \subseteq Piece
      BY <2>3, <2>4
    <3>3. QED
      BY <1>1, <3>1, <3>2, HomesTyped
  <2> HIDE DEF n
  <2>6. DOMAIN items \subseteq 1..2
    <3>1. DOMAIN items = 1..n
      BY <2>2
    <3>2. QED
      BY <2>3, <3>1
  <2>7. State([mem EXCEPT !.items = items])
    BY <1>1, <2>2, <2>5, <2>6 DEF State, Fields
  <2>8. QED
    BY <1>2, <2>2, <2>7, TypedThrough DEF StructureBlocks, Node
<1>3. CASE StructureNothing
  <2>1. State([mem EXCEPT !.reason = "nothing_to_apply"])
    BY <1>1 DEF State, Fields, Reason
  <2>2. QED
    BY <1>3, <2>1, TypedThrough DEF StructureNothing, Node
<1>4. QED
  BY <1>2, <1>3

(* The texts of one round.                                                 *)
LEMMA RefineTyped ==
  ASSUME Typed, Sound(mem, turn.gap), RefineText
  PROVE  Typed'
<1>1. State(mem) /\ turn.gap \in Gaps /\ DOMAIN mem = Fields
  BY DEF Typed, TypeOK, Sound
<1> DEFINE ids(update) == 1..Len(mem.items) \cup (IF update = <<>> THEN {} ELSE {0})
           says(i) == IF i = 0 THEN mem.ans ELSE mem.items[i].srcs
           text(update, long) ==
             [i \in ids(update) |-> IF i \in Reusable THEN mem.refined[i]
                                    ELSE [says |-> says(i), long |-> i = long]]
           s(update, long) ==
             [mem EXCEPT !.gapUpdate = update, !.errors = {}, !.refined = text(update, long)]
<1>2. PICK update \in GapUpdates : \E long : Step("validate", s(update, long))
  BY DEF RefineText
<1>3. PICK long : Step("validate", s(update, long))
  BY <1>2
<1>4. DOMAIN update \subseteq {1} /\ \A k \in DOMAIN update : update[k] \in Update
  <2>1. CASE ~Extends
    BY <1>2, <2>1 DEF GapUpdates
  <2>2. CASE Extends
    <3>1. PICK i \in Anchors :
            update = <<[ref |-> i, base |-> mem.snap.text[turn.gap.anchor],
                        meant |-> turn.gap.anchor]>>
      BY <1>2, <2>2 DEF GapUpdates
    <3>2. turn.gap.anchor \in Block
      BY <1>1, <2>2 DEF Extends, Gaps
    <3>3. i \in Nat
      BY <1>1, <3>1, ResolveTyped DEF Anchors, AliasesOf, State
    <3>4. mem.snap.text[turn.gap.anchor] \in Versions
      BY <1>1, <3>2 DEF State, Snapshot
    <3>5. [ref |-> i, base |-> mem.snap.text[turn.gap.anchor], meant |-> turn.gap.anchor]
            \in Update
      BY <3>2, <3>3, <3>4 DEF Update
    <3>6. QED
      BY <3>1, <3>5
  <2>3. QED
    BY <2>1, <2>2
<1>5. /\ DOMAIN text(update, long) \subseteq 0..2
      /\ \A i \in DOMAIN text(update, long) : text(update, long)[i] \in Text
  <2>1. DOMAIN mem.items = 1..Len(mem.items) /\ DOMAIN mem.items \subseteq 1..2
    BY <1>1 DEF Sound, State
  <2>2. ids(update) \subseteq 0..2
    BY <2>1
  <2>3. ASSUME NEW i \in ids(update) PROVE text(update, long)[i] \in Text
    <3>1. CASE i \in Reusable
      <4>1. i \in DOMAIN mem.refined
        BY <3>1 DEF Reusable
      <4>2. QED
        BY <1>1, <2>3, <3>1, <4>1 DEF State
    <3>2. CASE i \notin Reusable
      <4>1. says(i) \subseteq Piece
        <5>1. CASE i = 0
          BY <1>1, <5>1 DEF State, Piece
        <5>2. CASE i # 0
          BY <1>1, <2>1, <2>3, <5>2 DEF State, Item
        <5>3. QED
          BY <5>1, <5>2
      <4>2. [says |-> says(i), long |-> i = long] \in Text
        BY <4>1 DEF Text
      <4>3. QED
        BY <2>3, <3>2, <4>2
    <3>3. QED
      BY <3>1, <3>2
  <2>4. QED
    BY <2>2, <2>3
<1> HIDE DEF text
<1>6. State(s(update, long)) /\ DOMAIN s(update, long) = Fields
  BY <1>1, <1>4, <1>5 DEF State, Fields
<1>7. QED
  BY <1>3, <1>6, TypedThrough DEF RefineText, Node

(* The operations of a typed state.                                        *)
LEMMA OperationsTyped ==
  ASSUME State(mem), NEW g, Sound(mem, g), Refined(mem, g)
  PROVE  Operations \subseteq Change
<1>1. ASSUME NEW i \in DOMAIN mem.items
      PROVE  [act |-> mem.items[i].act, ref |-> mem.items[i].ref, srcs |-> mem.items[i].srcs,
              says |-> mem.refined[i].says, base |-> 0, meant |-> mem.items[i].meant] \in Change
  <2>1. mem.items[i] \in Item /\ mem.refined[i] \in Text
    BY DEF State, Refined
  <2>2. 0 \in Versions
    BY BoundAssumption DEF Versions
  <2>3. QED
    BY <2>1, <2>2 DEF Item, Text, Change
<1>2. ASSUME NEW k \in DOMAIN mem.gapUpdate
      PROVE  [act |-> "update", ref |-> mem.gapUpdate[k].ref, srcs |-> mem.ans,
              says |-> mem.refined[0].says, base |-> mem.gapUpdate[k].base,
              meant |-> mem.gapUpdate[k].meant] \in Change
  <2>1. mem.gapUpdate[k] \in Update
    BY DEF State
  <2>2. mem.gapUpdate # <<>>
    OBVIOUS
  <2>3. mem.refined[0] \in Text
    BY <2>2 DEF State, Refined
  <2>4. mem.ans \subseteq Piece
    BY DEF State, Piece
  <2>5. QED
    BY <2>1, <2>3, <2>4 DEF Update, Text, Change, Kinds
<1>3. QED
  BY <1>1, <1>2 DEF Operations

(* What is found wrong, and what passes.                                   *)
LEMMA ValidateTyped ==
  ASSUME Typed, Good(mem, turn.gap), Passes \/ Repair \/ Fallback
  PROVE  Typed'
<1>1. State(mem) /\ DOMAIN mem = Fields /\ Sound(mem, turn.gap)
  BY DEF Typed, TypeOK, Good, Sound
<1>2. CASE Passes
  <2>1. Operations \subseteq Change
    BY <1>1, <1>2, OperationsTyped DEF Passes, At, Good, Ready
  <2>2. State([mem EXCEPT !.commit = Operations])
    BY <1>1, <2>1 DEF State, Fields
  <2>3. QED
    BY <1>1, <1>2, <2>2, TypedThrough DEF Passes, Node
<1>3. CASE Repair
  <2>1. DOMAIN mem.refined \subseteq 0..2
    BY <1>1 DEF State
  <2>2. Errors \subseteq [id : 0..2, to : {"structure", "refine"}]
    BY <2>1 DEF Errors
  <2>3. CountRepair(mem.repairs) \in 0..MaxValidationRepairs
    BY <1>1, <1>3, BoundAssumption DEF Repair, CountRepair, State
  <2>4. State([mem EXCEPT !.errors = Errors, !.repairs = CountRepair(mem.repairs)])
    BY <1>1, <2>2, <2>3 DEF State, Fields
  <2>5. QED
    BY <1>1, <1>3, <2>4, TypedThrough DEF Repair, Node
<1>4. CASE Fallback
  <2> DEFINE why == IF mem.reason = None THEN "out_of_scope" ELSE mem.reason
  <2>1. why \in Reason \cup {None}
    BY <1>1 DEF State, Reason
  <2>2. State([mem EXCEPT !.reason = why])
    BY <1>1, <2>1 DEF State, Fields
  <2>3. QED
    BY <1>1, <1>4, <2>2, TypedThrough DEF Fallback, Node
<1>5. QED
  BY <1>2, <1>3, <1>4

(* The new alias of a kept block.                                          *)
LEMMA RemapTyped ==
  ASSUME Snapshot(map), NEW i, Kept(i)
  PROVE  Remap(i) \in Nat
<1>1. Remap(i) \in Alias(map, mem.target)
  BY RemapMeans
<1>2. QED
  BY <1>1, ResolveTyped

(* The state that recovers from a conflict.                                *)
LEMMA RecoverTyped ==
  ASSUME Typed, DOMAIN mem = Fields, RecoverConflict
  PROVE  Typed'
<1>1. State(mem) /\ Snapshot(map) /\ mem.conflicts = 0
  BY DEF Typed, TypeOK, RecoverConflict
<1>2. State(Refreshed) /\ DOMAIN Refreshed = Fields
  <2> DEFINE target == IF mem.target \in DOMAIN map.tree THEN mem.target ELSE None
  <2>1. target \in Activity \cup {None}
    BY <1>1 DEF Snapshot
  <2>2. Refreshed = [mem EXCEPT !.snap = map, !.conflicts = 1, !.target = target]
    BY <1>1 DEF Refreshed, Fields
  <2> HIDE DEF target
  <2>3. QED
    BY <1>1, <2>1, <2>2 DEF State, Fields
<1>3. CASE ~Maintained
  BY <1>2, <1>3, TypedThrough DEF RecoverConflict, Node
<1>4. CASE Maintained
  <2> DEFINE items == [i \in DOMAIN mem.items |->
                         [mem.items[i] EXCEPT !.ref = Remap(mem.items[i].ref)]]
             update == [k \in DOMAIN mem.gapUpdate |->
                          [mem.gapUpdate[k] EXCEPT !.ref = Remap(mem.gapUpdate[k].ref)]]
             s == [Refreshed EXCEPT !.items = items, !.gapUpdate = update]
  <2>1. Step("validate", s)
    BY <1>4 DEF RecoverConflict
  <2>2. DOMAIN items \subseteq 1..2 /\ \A i \in DOMAIN items : items[i] \in Item
    BY <1>1, <1>4, RemapTyped DEF State, Maintained, Item
  <2>3. DOMAIN update \subseteq {1} /\ \A k \in DOMAIN update : update[k] \in Update
    BY <1>1, <1>4, RemapTyped DEF State, Maintained, Update
  <2> HIDE DEF items, update
  <2>4. State(s) /\ DOMAIN s = Fields
    BY <1>2, <2>2, <2>3 DEF State, Fields
  <2>5. QED
    BY <2>1, <2>4, TypedThrough DEF RecoverConflict, Node
<1>5. QED
  BY <1>3, <1>4

(* What the main server makes of the operations.                           *)
LEMMA ApplyTyped ==
  ASSUME Typed, Good(mem, turn.gap), MainApplies
  PROVE  Typed'
<1>1. /\ State(mem) /\ Snapshot(map) /\ status = "running" /\ Right(mem, turn.gap)
      /\ map.version = 1 + edits /\ edits \in 0..MaxEdits /\ MaxEdits \in Nat
      /\ \A b \in Block : map.text[b] <= map.version
  BY BoundAssumption DEF Typed, TypeOK, Numbered, MainApplies, At, Good, Ready
<1>2. applied' \subseteq AppliedChange
  <2> DEFINE sent(o) == [act |-> o.act, block |-> Resolve(mem.snap, mem.target, o.ref),
                         srcs |-> o.srcs, says |-> o.says, base |-> o.base, old |-> 0,
                         meant |-> o.meant]
  <2>1. Sent = {sent(o) : o \in mem.commit}
    BY DEF Sent
  <2>2. ASSUME NEW b PROVE OldText(b) \in Versions
    BY <1>1 DEF OldText, Snapshot, Versions
  <2>3. ASSUME NEW o \in mem.commit
        PROVE  [sent(o) EXCEPT !.old = OldText(sent(o).block)] \in AppliedChange
    <3>1. o \in Change /\ Resolve(mem.snap, mem.target, o.ref) = o.meant
      BY <1>1 DEF State, Right, Aimed, Means
    <3>2. QED
      BY <2>2, <3>1 DEF Change, AppliedChange
  <2> HIDE DEF sent
  <2>4. applied' = {[sent(o) EXCEPT !.old = OldText(sent(o).block)] : o \in mem.commit}
    BY <2>1 DEF MainApplies
  <2>5. QED
    BY <2>3, <2>4
<1> DEFINE new == [b \in Block |-> IF \E o \in Sent : o.act = "update" /\ o.block = b
                                   THEN map.text[b] + 1 ELSE map.text[b]]
<1>3. map' = [map EXCEPT !.version = map.version + 1, !.text = new]
  BY DEF MainApplies
<1>4. new \in [Block -> Versions] /\ \A b \in Block : new[b] <= map.version + 1
  BY <1>1 DEF Snapshot, Versions
<1> HIDE DEF new
<1>5. /\ Snapshot(map') /\ map'.version = map.version + 1 /\ map'.text = new
  BY <1>1, <1>3, <1>4 DEF Snapshot, Versions
<1>6. Numbered'
  BY <1>1, <1>4, <1>5 DEF Numbered, MainApplies
<1>7. QED
  BY <1>2, <1>5, <1>6 DEF Typed, TypeOK, MainApplies, Status

(* The edits of others.                                                    *)
LEMMA EditTyped ==
  ASSUME Typed, Edit
  PROVE  Typed'
<1>1. /\ Snapshot(map) /\ status = "running" /\ map.version = 1 + edits /\ edits < MaxEdits
      /\ edits \in 0..MaxEdits /\ MaxEdits \in Nat
      /\ \A b \in Block : map.text[b] <= map.version
  <2>1. status = "running" /\ edits < MaxEdits
    BY DEF Edit, At
  <2>2. QED
    BY <2>1, BoundAssumption DEF Typed, TypeOK, Numbered
<1>2. ASSUME Snapshot(map'), map'.version = map.version + 1,
             \A b \in Block : map'.text[b] <= map.version + 1
      PROVE  Typed'
  <2>1. /\ edits' = edits + 1 /\ edits' \in 0..MaxEdits
        /\ UNCHANGED <<turn, stored, mem, saved, got, tries, status, retries, applied, asked>>
    <3>1. /\ edits' = edits + 1
          /\ UNCHANGED <<turn, stored, mem, saved, got, tries, status, retries, applied, asked>>
      BY DEF Edit
    <3>2. QED
      BY <1>1, <3>1
  <2>2. Numbered'
    BY <1>1, <1>2, <2>1 DEF Numbered
  <2>3. TypeOK'
    BY <1>2, <2>1 DEF Typed, TypeOK
  <2>4. QED
    BY <2>2, <2>3 DEF Typed
<1>3. ASSUME NEW tree, DOMAIN tree \subseteq Activity,
             \A a \in DOMAIN tree : tree[a] \in Seq(Block),
             map' = [map EXCEPT !.version = map.version + 1, !.tree = tree]
      PROVE  Typed'
  <2>1. Snapshot(map') /\ map'.version = map.version + 1 /\ map'.text = map.text
    BY <1>1, <1>3 DEF Snapshot, Versions
  <2>2. \A b \in Block : map.text[b] \in Nat
    BY <1>1 DEF Snapshot, Versions
  <2>3. QED
    BY <1>1, <1>2, <2>1, <2>2
<1>4. ASSUME NEW a \in DOMAIN map.tree, NEW c, NEW i \in DOMAIN map.tree[a],
             map' = [map EXCEPT !.version = map.version + 1, !.tree = Moved(a, c, i)]
      PROVE  Typed'
  BY <1>1, <1>3, <1>4, MovedTyped DEF Snapshot
<1>5. ASSUME NEW a \in DOMAIN map.tree,
             map' = [map EXCEPT !.version = map.version + 1,
                                !.tree = [x \in DOMAIN map.tree \ {a} |-> map.tree[x]]]
      PROVE  Typed'
  <2> DEFINE tree == [x \in DOMAIN map.tree \ {a} |-> map.tree[x]]
  <2>1. DOMAIN tree \subseteq Activity /\ \A x \in DOMAIN tree : tree[x] \in Seq(Block)
    BY <1>1 DEF Snapshot
  <2> HIDE DEF tree
  <2>2. map' = [map EXCEPT !.version = map.version + 1, !.tree = tree]
    BY <1>5 DEF tree
  <2>3. QED
    BY <1>3, <2>1, <2>2
<1>6. ASSUME NEW a \in DOMAIN map.tree, NEW i \in DOMAIN map.tree[a],
             map' = [map EXCEPT !.version = map.version + 1,
                                !.text[map.tree[a][i]] = map.text[map.tree[a][i]] + 1]
      PROVE  Typed'
  <2> DEFINE new == [map.text EXCEPT ![map.tree[a][i]] = map.text[map.tree[a][i]] + 1]
  <2>1. map' = [map EXCEPT !.version = map.version + 1, !.text = new]
    BY <1>1, <1>6 DEF Snapshot
  <2>2. new \in [Block -> Versions] /\ \A b \in Block : new[b] <= map.version + 1
    BY <1>1 DEF Snapshot, Versions
  <2> HIDE DEF new
  <2>3. Snapshot(map') /\ map'.version = map.version + 1 /\ map'.text = new
    BY <1>1, <2>1, <2>2 DEF Snapshot, Versions
  <2>4. QED
    BY <1>2, <2>2, <2>3
<1>7. QED
  BY <1>4, <1>5, <1>6 DEF Edit

(* Every step leaves every part of the state typed.                        *)
LEMMA TypedNext == Typed /\ Inv /\ [Next]_vars => Typed'
<1> SUFFICES ASSUME Typed, Inv, [Next]_vars PROVE Typed'
  OBVIOUS
<1>1. State(mem) /\ DOMAIN mem = Fields /\ Good(mem, turn.gap) /\ Sound(mem, turn.gap)
  BY DEF Typed, TypeOK, Inv, Good, Sound
<1>2. CASE Router \/ FilesRead \/ CleanedUp \/ FilterFile \/ FilterChat \/ SelectTarget
  BY <1>1, <1>2, EarlyTyped
<1>3. CASE StructureBlocks \/ StructureNothing
  BY <1>1, <1>3, StructureTyped
<1>4. CASE RefineText
  BY <1>1, <1>4, RefineTyped
<1>5. CASE Passes \/ Repair \/ Fallback
  BY <1>1, <1>5, ValidateTyped
<1>6. CASE RecoverConflict
  BY <1>1, <1>6, RecoverTyped
<1>7. CASE MainApplies
  BY <1>1, <1>7, ApplyTyped
<1>8. CASE Edit
  BY <1>8, EditTyped
<1>9. CASE ValidationFails \/ SecondConflict \/ CommitFails \/ Crash
  BY <1>9, TypedFail DEF ValidationFails, SecondConflict, CommitFails, Crash, At
<1>10. CASE NodeRaises
  <2>1. CASE Fail
    BY <1>10, <2>1, TypedFail DEF NodeRaises, At
  <2>2. CASE ~Fail
    BY <1>10, <2>2, TypedFrame
       DEF NodeRaises, Typed, TypeOK, NodeMaxAttempts
  <2>3. QED
    BY <2>1, <2>2
<1>11. CASE Decline
  <2>1. CASE Fail
    BY <1>11, <2>1, TypedFail DEF Decline, At
  <2>2. CASE ~Fail
    BY <1>11, <2>2 DEF Decline, At, Typed, TypeOK, Numbered, Status
  <2>3. QED
    BY <2>1, <2>2
<1>12. CASE PostCommit
  <2>1. State(mem')
    BY <1>1, <1>12 DEF PostCommit, State, Fields, Node
  <2>2. QED
    BY <1>12, <2>1, TypedFrame DEF PostCommit, Typed, TypeOK
<1>13. CASE \E f \in File : ReadFile(f)
  BY <1>13, TypedFrame DEF ReadFile, Typed, TypeOK
<1>14. CASE \E f \in File : DeleteOriginal(f)
  BY <1>14 DEF DeleteOriginal, Typed, TypeOK, Numbered
<1>15. CASE SuggestGap
  BY <1>15 DEF SuggestGap, Typed, TypeOK, Numbered, Status, Gaps
<1>16. CASE Retry
  BY <1>16, BoundAssumption DEF Retry, Typed, TypeOK, Numbered, Status
<1>17. CASE UNCHANGED vars
  BY <1>17 DEF vars, Typed, TypeOK, Numbered
<1>18. QED
  BY <1>2, <1>3, <1>4, <1>5, <1>6, <1>7, <1>8, <1>9, <1>10, <1>11, <1>12, <1>13, <1>14, <1>15,
     <1>16, <1>17 DEF Next, Progress

(* A turn begins typed.                                                    *)
LEMMA InitiallyTyped == Init => Typed
<1> SUFFICES ASSUME Init PROVE Typed
  OBVIOUS
<1>1. Snapshot(map) /\ Numbered
  BY BoundAssumption, TreeAssumption DEF Init, Snapshot, Versions, Numbered
<1>2. turn \in Turns /\ turn.files \subseteq File /\ turn.gap \in Gaps
      /\ turn.screen \in Activity \cup {None}
  BY DEF Init, Turns
<1>3. /\ mem.node = "router" /\ mem.extracted = {} /\ mem.text = FALSE /\ mem.new = {}
      /\ mem.ans = {} /\ mem.reason = None /\ mem.snap = map /\ mem.items = <<>>
      /\ mem.target \in Activity \cup {None}
      /\ mem.gapUpdate = <<>> /\ mem.refined = <<>> /\ mem.errors = {} /\ mem.repairs = 0
      /\ mem.commit = {} /\ mem.conflicts = 0
  BY <1>2 DEF Init, StartTurn
<1>4. State(mem)
  <2>1. DOMAIN mem.items = {} /\ DOMAIN mem.gapUpdate = {} /\ DOMAIN mem.refined = {}
    BY <1>3
  <2>2. mem.repairs \in 0..MaxValidationRepairs /\ mem.conflicts \in 0..1
    BY <1>3, BoundAssumption
  <2>3. QED
    BY <1>1, <1>3, <2>1, <2>2 DEF State, Node
<1>5. QED
  BY <1>1, <1>2, <1>4, BoundAssumption DEF Init, Typed, TypeOK, NodeMaxAttempts, Status

-----------------------------------------------------------------------------
(* The theorems *)

(* A turn begins with nothing read, nothing made and every original.       *)
LEMMA Initially == Init => Inv
<1> SUFFICES ASSUME Init PROVE Inv
  OBVIOUS
<1>1. /\ DOMAIN mem = Fields /\ mem.node = "router" /\ mem.ans = {} /\ mem.new = {}
      /\ mem.items = <<>> /\ mem.errors = {} /\ mem.extracted = {} /\ mem.conflicts = 0
      /\ saved = mem /\ mem.snap = map
  BY DEF Init, StartTurn, Fields
<1>2. turn.gap \in Gaps
  BY DEF Init, Turns
<1>3. Mapped(map) /\ map.tree = InitialTree
  BY TreeAssumption DEF Init, Mapped
<1>4. Good(mem, turn.gap)
  BY <1>1, <1>2, <1>3 DEF Good, Sound, Ready, Early, SourcesOf, Working
<1>5. QED
  BY <1>1, <1>4, <1>3 DEF Init, Inv, Checkpointed, OnceApplied, OriginalUntilExtracted,
     AppliedAsMeant, AnswerReachesItsGap, Current, Mapped

(* The state of the graph, its checkpoint and what was applied stay as Inv
   says: the inductive invariant of a turn.                                *)
THEOREM Invariance == Spec => []Inv
<1>1. Inv /\ [Next]_vars => Inv'
  <2>1. Inv => Mapped(map)
    BY DEF Inv, Checkpointed
  <2>2. QED
    BY <2>1, GoodStep, CheckpointStep, AppliedStep DEF Inv
<1>2. QED
  BY <1>1, Initially, PTL DEF Spec

(* Every part of the state keeps its type, and the map its numbering.       *)
THEOREM TypeCorrect == Spec => []TypeOK
<1>1. Typed => TypeOK
  BY DEF Typed
<1>2. QED
  BY <1>1, InitiallyTyped, TypedNext, Invariance, PTL DEF Spec

(* Whatever the map, the input, the repairs, the retries and the edits: what
   the main server applies lands on the block it was meant for, says what it
   was made of, and takes in every accepted piece exactly once.             *)
THEOREM AppliedAsMeantHolds == Spec => []AppliedAsMeant
<1>1. Inv => AppliedAsMeant
  BY DEF Inv
<1>2. QED
  BY <1>1, Invariance, PTL

(* The answer to the open question is applied to the question's block, or
   fills an empty slot of an activity that held the block.                  *)
THEOREM AnswerReachesItsGapHolds == Spec => []AnswerReachesItsGap
<1>1. Inv => AnswerReachesItsGap
  BY DEF Inv
<1>2. QED
  BY <1>1, Invariance, PTL

(* An original is deleted only once its extract is in the checkpoint.       *)
THEOREM OriginalUntilExtractedHolds == Spec => []OriginalUntilExtracted
<1>1. Inv => OriginalUntilExtracted
  BY DEF Inv
<1>2. QED
  BY <1>1, Invariance, PTL

=============================================================================
