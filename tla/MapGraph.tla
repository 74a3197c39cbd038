------------------------------ MODULE MapGraph ------------------------------
(***************************************************************************)
(* One turn of the experience-map graph (features/experience_map/graph.py  *)
(* and nodes/): from the router to the commit, on a map that users go on   *)
(* editing.  A node is a superstep of LangGraph; its result is saved in    *)
(* the session's checkpoint before the next node starts.                   *)
(*                                                                         *)
(* Texts are the set of accepted pieces they are made of and the version   *)
(* of the block text they were combined with.  What a language model       *)
(* answers is chosen freely among what the node's own checks let through;  *)
(* what they refuse is the node raising.  Structuring opens the structure  *)
(* node; leases, lost answers and cancellation are ExperienceRequest's.    *)
(***************************************************************************)
EXTENDS Naturals, Sequences, FiniteSets

CONSTANTS
  Activity,     (* level 2 blocks                                          *)
  Block,        (* blocks below an activity                                *)
  Locked,       (* blocks whose text may not be edited                     *)
  Blank,        (* blocks that are empty slots                             *)
  Deepest,      (* blocks of the last level: nothing goes below them       *)
  InitialTree,  (* the blocks of each activity, by position                *)
  File,         (* uploads                                                 *)
  Source,       (* pieces of the input worth a place in the map            *)
  Answer,       (* the piece that answers the open question (active_gap)   *)
  None,
  MaxValidationRepairs, (* config.MAX_VALIDATION_REPAIRS, 2                *)
  MaxEdits,     (* bound: edits of the map by others                       *)
  MaxRetries    (* bound: retries by the user                              *)

ASSUME TreeAssumption == InitialTree \in [Activity -> Seq(Block)]
ASSUME BlockAssumption ==
  Locked \subseteq Block /\ Blank \subseteq Block /\ Deepest \subseteq Block
ASSUME DistinctAssumption ==
  None \notin Activity \cup Block /\ Activity \cap Block = {} /\ Answer \notin Source
ASSUME BoundAssumption ==
  MaxValidationRepairs \in Nat /\ MaxEdits \in Nat /\ MaxRetries \in Nat

NodeMaxAttempts == 2        (* config.NODE_MAX_ATTEMPTS                    *)

VARIABLES
  map,      (* the main server's map: version, tree and the text version of
               each block, 0 for an empty one                              *)
  turn,     (* what the user sent, and the session's open question         *)
  stored,   (* originals in the upload store                               *)
  mem,      (* the graph state of the execution                            *)
  saved,    (* the last checkpoint                                         *)
  got,      (* files the node has read, or tried to delete, so far          *)
  tries,    (* failed attempts of the node (RetryPolicy)                   *)
  status,   (* of the request                                              *)
  edits, retries,
  applied,  (* history: the operations the main server applied             *)
  asked     (* the session's next open question: a gap, or the operation
               it is about                                                 *)

vars == <<map, turn, stored, mem, saved, got, tries, status, edits, retries, applied, asked>>

Piece == Source \cup {Answer}

Node == {"router", "file_processor", "file_cleanup", "content_filter", "target_activity",
         "structure", "refine", "validate", "fallback", "end", "posted"}
Reason == {"out_of_scope", "file_unreadable", "nothing_to_apply", "ambiguous_target",
           "not_experience_file"}
Status == {"running", "failed", "committed", "closed", "declined"}

ASSUME ReasonAssumption == None \notin Reason

-----------------------------------------------------------------------------
(* Snapshots and aliases (map_context.py) *)

(* An activity's context names it 0 and its blocks 1, 2, ... by position.  *)
Alias(s, a) == IF a \in DOMAIN s.tree THEN 0..Len(s.tree[a]) ELSE {}

Resolve(s, a, i) == IF i = 0 THEN a ELSE s.tree[a][i]

(* The aliases of a block in an activity's context: one, or none.          *)
AliasesOf(s, a, x) == {i \in Alias(s, a) : Resolve(s, a, i) = x}

(* block_id_to_activity_alias *)
Owners(s, b) == {a \in DOMAIN s.tree : AliasesOf(s, a, b) # {}}

-----------------------------------------------------------------------------
(* The turn's state *)

StartTurn(s, t) ==
  [node |-> "router", extracted |-> {}, text |-> FALSE, new |-> {}, ans |-> {},
   reason |-> None, snap |-> s,
   target |-> IF t.screen \in DOMAIN s.tree THEN t.screen ELSE None,
   items |-> <<>>, gapUpdate |-> <<>>, refined |-> <<>>, errors |-> {}, repairs |-> 0,
   commit |-> {}, conflicts |-> 0]

Gaps == {None} \cup [kind : {"extend_block", "new_child_block"}, anchor : Block \ Blank]

(* A turn with a file never looks at the open question.                    *)
Turns == {t \in [files : SUBSET File, unreadable : SUBSET File, gap : Gaps,
                 screen : Activity \cup {None}] :
            t.unreadable \subseteq t.files /\ (t.files # {} => t.gap = None)}

Init ==
  /\ map = [version |-> 1, tree |-> InitialTree,
            text |-> [b \in Block |-> IF b \in Blank THEN 0 ELSE 1]]
  /\ turn \in Turns
  /\ stored = turn.files
  /\ mem = StartTurn(map, turn)
  /\ saved = mem
  /\ got = {}
  /\ tries = 0
  /\ status = "running"
  /\ edits = 0 /\ retries = 0
  /\ applied = {} /\ asked = turn.gap

-----------------------------------------------------------------------------
(* Supersteps *)

At(n) == status = "running" /\ mem.node = n

(* Fault: the checkpoint is written only after the next node.              *)
SaveLate(s) == IF s.conflicts # 0 \/ s.node = "file_cleanup" THEN saved ELSE s

(* durability="sync": a superstep is saved before the next one; the graph
   that recovers from a conflict has no checkpointer.                      *)
Save(s) == IF s.conflicts = 0 THEN s ELSE saved

(* The node returns s, and the graph goes on to the node next.             *)
Step(next, s) ==
  /\ mem' = [s EXCEPT !.node = next]
  /\ saved' = Save([s EXCEPT !.node = next])
  /\ tries' = 0 /\ got' = {}

Frame == UNCHANGED <<map, turn, stored, status, edits, retries, applied, asked>>

(* The execution is over without a result; a retry starts from saved.      *)
Fail ==
  /\ status' = "failed" /\ mem' = saved /\ tries' = 0 /\ got' = {}
  /\ UNCHANGED <<map, turn, stored, saved, edits, retries, applied, asked>>

Retried == {"router", "file_processor", "content_filter", "target_activity", "structure",
            "refine"}

(* A node with the RetryPolicy raises: it runs once more, then fails.      *)
NodeRaises ==
  /\ \E n \in Retried : At(n)
  /\ IF tries + 1 < NodeMaxAttempts
     THEN tries' = tries + 1 /\ got' = {} /\ UNCHANGED <<mem, saved>> /\ Frame
     ELSE Fail

-----------------------------------------------------------------------------
(* router, file_processor, file_cleanup *)

Router ==
  /\ At("router")
  /\ \/ turn.files # {} /\ Step("file_processor", mem)
     \/ turn.files = {} /\ Step("content_filter", mem)
     \/ turn.files = {} /\ Step("fallback", [mem EXCEPT !.reason = "out_of_scope"])
  /\ Frame

(* One file is read from the store and extracted, or found unreadable; a
   missing original raises (NodeRaises).                                   *)
ReadFile(f) ==
  /\ At("file_processor")
  /\ f \in turn.files \ (mem.extracted \cup got)
  /\ f \in stored
  /\ got' = got \cup {f}
  /\ UNCHANGED <<mem, saved, tries>> /\ Frame

(* An extract may turn out to be blank, or be cut off to nothing.          *)
FilesRead ==
  /\ At("file_processor")
  /\ turn.files \subseteq mem.extracted \cup got
  /\ LET done == mem.extracted \cup (got \ turn.unreadable) IN
     \E text \in BOOLEAN :
       /\ text => done # {}
       /\ Step("file_cleanup",
               [mem EXCEPT !.extracted = done, !.text = text,
                           !.reason = IF done = {} THEN "file_unreadable" ELSE mem.reason])
  /\ Frame

(* The original of an extracted file goes; a deletion that fails is left to
   the bucket's lifecycle rule.                                            *)
DeleteOriginal(f) ==
  /\ At("file_cleanup") /\ f \in mem.extracted \ got
  /\ stored' \in {stored, stored \ {f}}
  /\ got' = got \cup {f}
  /\ UNCHANGED <<map, turn, mem, saved, tries, status, edits, retries, applied, asked>>

CleanedUp ==
  /\ At("file_cleanup") /\ mem.extracted \subseteq got
  /\ Step(IF mem.text THEN "content_filter" ELSE "fallback", mem)
  /\ Frame

-----------------------------------------------------------------------------
(* content_filter, target_activity *)

(* Pieces found in the original text; fallback when there are none.        *)
Filtered(new, ans) ==
  IF new \cup ans = {}
  THEN Step("fallback", [mem EXCEPT !.reason = "nothing_to_apply"])
  ELSE Step("target_activity", [mem EXCEPT !.new = new, !.ans = ans])

(* The lines of a file are assigned to slots; the gap stays unanswered.    *)
FilterFile ==
  /\ At("content_filter") /\ mem.text
  /\ \/ Step("fallback", [mem EXCEPT !.reason = "not_experience_file"])
     \/ \E new \in SUBSET Source : Filtered(new, {})
  /\ Frame

(* _sanitize: pieces that stand in the message, each in one list; a gap
   answer without an open gap is new content.                              *)
Classified ==
  {[new |-> IF turn.gap = None THEN n \cup a ELSE n, ans |-> IF turn.gap = None THEN {} ELSE a] :
     n \in SUBSET Source, a \in SUBSET {Answer}}

FilterChat ==
  /\ At("content_filter") /\ ~mem.text
  /\ \E c \in Classified : Filtered(c.new, c.ans)
  /\ Frame

(* A classified answer pins the target to its anchor's activity.           *)
Answering == mem.ans # {}

(* The activities this turn may be about.                                  *)
Targets ==
  IF Answering THEN Owners(mem.snap, turn.gap.anchor)
  ELSE IF turn.screen \in DOMAIN mem.snap.tree THEN {turn.screen}
  ELSE DOMAIN mem.snap.tree

(* The model may call any choice unclear when it is asked.                 *)
Undecided ==
  \/ Targets = {}
  \/ ~Answering /\ turn.screen \notin DOMAIN mem.snap.tree

(* _after_target: an answer that extends its block goes straight to refine. *)
AfterTarget ==
  IF mem.new = {} /\ turn.gap.kind = "extend_block" THEN "refine" ELSE "structure"

SelectTarget ==
  /\ At("target_activity")
  /\ \/ \E a \in Targets : Step(AfterTarget, [mem EXCEPT !.target = a])
     \/ Undecided /\ Step("fallback", [mem EXCEPT !.target = None,
                                                  !.reason = "ambiguous_target"])
  /\ Frame

-----------------------------------------------------------------------------
(* structure, refine, validate, fallback *)

Context == Alias(mem.snap, mem.target)

Anchors == AliasesOf(mem.snap, mem.target, turn.gap.anchor)

(* What structure places: an answer that extends its block is refine's.    *)
Sources ==
  mem.new \cup (IF turn.gap # None /\ turn.gap.kind = "new_child_block" THEN mem.ans ELSE {})

(* One or two blocks take all pieces, each piece once.  Nothing depends on
   the order of the blocks.                                                *)
Splits(P) == {<<P>>} \cup {<<A, P \ A>> : A \in SUBSET (P \ {Answer}) \ {{}, P}}

(* Fault: the answer's parent is not checked.                              *)
AnyParent(P) == Context

(* _validate_gap_parent: a block added for the answer goes right below its
   anchor.                                                                 *)
Parents(P) == IF Answer \in P /\ turn.gap # None THEN Anchors ELSE Context

(* A block for the pieces P: below a block of the activity, or in an empty
   slot of it.  Nothing checks which slot an update with the answer fills:
   _redirect_leaf_add_to_existing_empty_slot makes one of an add below any
   block, before the parents are checked.                                  *)
Homes(P) ==
  LET item(act, i) == [act |-> act, ref |-> i, srcs |-> P,
                       meant |-> Resolve(mem.snap, mem.target, i)]
  IN {item("add", i) : i \in Parents(P)}
     \cup {item("update", i) :
             i \in {j \in Context \ {0} :
                      mem.snap.text[Resolve(mem.snap, mem.target, j)] = 0}}

(* An answer whose anchor left the activity raises.                        *)
StructureBlocks ==
  /\ At("structure") /\ mem.target # None /\ Sources # {}
  /\ turn.gap # None /\ Answer \in Sources => Anchors # {}
  /\ \E split \in Splits(Sources) :
       \E items \in UNION {[1..Len(split) -> UNION {Homes(split[j]) : j \in 1..Len(split)}]} :
         /\ \A j \in 1..Len(split) : items[j].srcs = split[j]
         /\ Step("refine", [mem EXCEPT !.items = items])
  /\ Frame

(* The activity is gone from the refreshed map.                            *)
StructureNothing ==
  /\ At("structure") /\ (mem.target = None \/ Sources = {})
  /\ Step("refine", [mem EXCEPT !.reason = "nothing_to_apply"])
  /\ Frame

Extends == turn.gap # None /\ turn.gap.kind = "extend_block" /\ mem.ans # {}

(* _build_gap_update: the answer goes after the anchor's present text; one
   that lost its anchor raises.                                            *)
GapUpdates ==
  IF ~Extends THEN {<<>>}
  ELSE {<<[ref |-> i, base |-> mem.snap.text[turn.gap.anchor], meant |-> turn.gap.anchor]>> :
          i \in {j \in Anchors : mem.snap.text[turn.gap.anchor] > 0}}

(* _reusable_refined_item_ids: only refine was asked to repair.            *)
Reusable ==
  IF mem.errors # {} /\ \A e \in mem.errors : e.to = "refine"
  THEN DOMAIN mem.refined \ {e.id : e \in mem.errors} ELSE {}

(* Every text is refined; 0 is the gap update.  long: over the limit, which
   at most one text of a round is (bound).  The errors of the last round
   are not read again.                                                     *)
RefineText ==
  /\ At("refine") /\ mem.target # None
  /\ \E update \in GapUpdates :
       LET ids == 1..Len(mem.items) \cup (IF update = <<>> THEN {} ELSE {0})
           says(i) == IF i = 0 THEN mem.ans ELSE mem.items[i].srcs
       IN \E long \in (ids \ Reusable) \cup {None} :
            Step("validate",
                 [mem EXCEPT
                    !.gapUpdate = update, !.errors = {},
                    !.refined = [i \in ids |-> IF i \in Reusable THEN mem.refined[i]
                                               ELSE [says |-> says(i), long |-> i = long]]])
  /\ Frame

(* The operations: structure's items and the gap update, with their text.  *)
Operations ==
  {[act |-> mem.items[i].act, ref |-> mem.items[i].ref, srcs |-> mem.items[i].srcs,
    says |-> mem.refined[i].says, base |-> 0, meant |-> mem.items[i].meant] :
     i \in DOMAIN mem.items}
  \cup {[act |-> "update", ref |-> u.ref, srcs |-> mem.ans, says |-> mem.refined[0].says,
         base |-> u.base, meant |-> u.meant] :
          u \in {mem.gapUpdate[k] : k \in DOMAIN mem.gapUpdate}}

(* A block goes below one that may have children, a text into one that may
   be edited, all of them in the activity.                                 *)
Allowed(act, i) ==
  /\ i \in Context
  /\ LET b == Resolve(mem.snap, mem.target, i) IN
     IF act = "add" THEN b \notin Deepest ELSE i # 0 /\ b \notin Locked

(* _validate_operations: who has to repair what.                           *)
Errors ==
  LET fine(i) == IF i = 0 THEN Allowed("update", mem.gapUpdate[1].ref)
                 ELSE Allowed(mem.items[i].act, mem.items[i].ref)
      ids == DOMAIN mem.refined
  IN {[id |-> i, to |-> "structure"] : i \in {j \in ids : ~fine(j)}}
     \cup {[id |-> i, to |-> "refine"] : i \in {j \in ids : mem.refined[j].long}}

Passes ==
  /\ At("validate") /\ Errors = {}
  /\ Step(IF Operations = {} THEN "fallback" ELSE "end",
          [mem EXCEPT !.commit = Operations])
  /\ Frame

(* Fault: repairs are not counted.                                         *)
CountNoRepair(n) == n
CountRepair(n) == n + 1

(* The faulty operations go back, structure first.                         *)
Repair ==
  /\ At("validate") /\ Errors # {} /\ mem.repairs < MaxValidationRepairs
  /\ Step(IF \E e \in Errors : e.to = "structure" THEN "structure" ELSE "refine",
          [mem EXCEPT !.errors = Errors, !.repairs = CountRepair(mem.repairs)])
  /\ Frame

(* No operation is dropped: the whole request fails.                       *)
ValidationFails ==
  /\ At("validate") /\ Errors # {} /\ mem.repairs >= MaxValidationRepairs
  /\ Fail

Fallback ==
  /\ At("fallback")
  /\ Step("end", [mem EXCEPT !.reason = IF mem.reason = None THEN "out_of_scope"
                                        ELSE mem.reason])
  /\ Frame

-----------------------------------------------------------------------------
(* The end of the graph, the commit and its one recovery *)

(* _state_events: a reason is an answer; otherwise the coordinator commits.
   The recovery's graph must end with something to commit.                 *)
Decline ==
  /\ At("end") /\ mem.reason # None
  /\ IF mem.conflicts = 0
     THEN /\ status' = "declined"
          /\ UNCHANGED <<map, turn, stored, mem, saved, got, tries, edits, retries, applied, asked>>
     ELSE Fail

PostCommit ==
  /\ At("end") /\ mem.reason = None
  /\ mem' = [mem EXCEPT !.node = "posted"]
  /\ UNCHANGED <<saved, got, tries>> /\ Frame

(* _to_commit_items: aliases become the ids of the state's own snapshot.   *)
Sent ==
  {[act |-> o.act, block |-> Resolve(mem.snap, mem.target, o.ref), srcs |-> o.srcs,
    says |-> o.says, base |-> o.base, old |-> 0, meant |-> o.meant] : o \in mem.commit}

OldText(b) == IF b \in Block THEN map.text[b] ELSE 0

(* The main server applies all operations, to the version they name.       *)
MainApplies ==
  /\ At("posted") /\ mem.snap.version = map.version
  /\ applied' = {[o EXCEPT !.old = OldText(o.block)] : o \in Sent}
  /\ map' = [map EXCEPT
               !.version = @ + 1,
               !.text = [b \in Block |-> IF \E o \in Sent : o.act = "update" /\ o.block = b
                                         THEN @[b] + 1 ELSE @[b]]]
  /\ status' = "committed"
  /\ UNCHANGED <<turn, stored, mem, saved, got, tries, edits, retries, asked>>

(* analyze_gap, build_suggestion: at most one question, about an operation
   of this turn; none when the analysis fails.  Saving it may fail too.    *)
SuggestGap ==
  /\ status = "committed"
  /\ status' = "closed"
  /\ asked' \in applied \cup {None, asked}
  /\ UNCHANGED <<map, turn, stored, mem, saved, got, tries, edits, retries, applied>>

(* refresh_map: the latest snapshot; the target follows its activity.      *)
Refreshed ==
  [mem EXCEPT !.snap = map, !.conflicts = @ + 1,
              !.target = IF mem.target \in DOMAIN map.tree THEN mem.target ELSE None]

(* Fault: aliases keep their old numbers.                                  *)
RemapNothing(i) == i

(* The new alias of the block the old one stands for.                      *)
Remap(i) == CHOOSE j \in AliasesOf(map, mem.target, Resolve(mem.snap, mem.target, i)) : TRUE

Kept(i) == AliasesOf(map, mem.target, Resolve(mem.snap, mem.target, i)) # {}

(* Every block the operations refer to is still in the activity.           *)
Maintained ==
  /\ mem.target \in DOMAIN map.tree
  /\ \A i \in DOMAIN mem.items : Kept(mem.items[i].ref)
  /\ \A k \in DOMAIN mem.gapUpdate : Kept(mem.gapUpdate[k].ref)

(* _recover_map_conflict: refined texts stay as they are.                  *)
RecoverConflict ==
  /\ At("posted") /\ mem.snap.version # map.version /\ mem.conflicts = 0
  /\ IF Maintained
     THEN Step("validate",
               [Refreshed EXCEPT
                  !.items = [i \in DOMAIN mem.items |->
                               [mem.items[i] EXCEPT !.ref = Remap(mem.items[i].ref)]],
                  !.gapUpdate = [k \in DOMAIN mem.gapUpdate |->
                                   [mem.gapUpdate[k] EXCEPT !.ref = Remap(@)]]])
     ELSE Step("structure", Refreshed)
  /\ Frame

SecondConflict ==
  /\ At("posted") /\ mem.snap.version # map.version /\ mem.conflicts > 0
  /\ Fail

(* Refused, or the main server cannot be reached.                          *)
CommitFails == At("posted") /\ Fail

-----------------------------------------------------------------------------
(* The environment *)

Crash == status = "running" /\ Fail

(* The thread goes on from its checkpoint, with the map it read then.      *)
Retry ==
  /\ status = "failed" /\ retries < MaxRetries
  /\ status' = "running" /\ retries' = retries + 1
  /\ UNCHANGED <<map, turn, stored, mem, saved, got, tries, edits, applied, asked>>

Moved(a, c, i) ==
  [x \in DOMAIN map.tree |->
     LET old == map.tree[x]
         rest == IF x = a THEN SubSeq(old, 1, i - 1) \o SubSeq(old, i + 1, Len(old)) ELSE old
     IN IF x = c THEN <<map.tree[a][i]>> \o rest ELSE rest]

(* Somebody edits the map: a block is moved to the front of an activity,
   removed or rewritten, or an activity is removed.  A turn reads the map
   when it starts and at its commit; what happens in between happens here,
   before the commit arrives.                                              *)
Edit ==
  /\ edits < MaxEdits /\ At("posted")
  /\ edits' = edits + 1
  /\ \/ \E a, c \in DOMAIN map.tree : \E i \in DOMAIN map.tree[a] :
          map' = [map EXCEPT !.version = @ + 1, !.tree = Moved(a, c, i)]
     \/ \E a \in DOMAIN map.tree : \E i \in DOMAIN map.tree[a] :
          map' = [map EXCEPT !.version = @ + 1, !.tree = Moved(a, None, i)]
     \/ \E a \in DOMAIN map.tree :
          map' = [map EXCEPT !.version = @ + 1,
                             !.tree = [x \in DOMAIN map.tree \ {a} |-> map.tree[x]]]
     \/ \E a \in DOMAIN map.tree : \E i \in DOMAIN map.tree[a] :
          map' = [map EXCEPT !.version = @ + 1, !.text[map.tree[a][i]] = @ + 1]
  /\ UNCHANGED <<turn, stored, mem, saved, got, tries, status, retries, applied, asked>>

Progress ==
  \/ Router
  \/ \E f \in File : ReadFile(f)
  \/ FilesRead
  \/ \E f \in File : DeleteOriginal(f)
  \/ CleanedUp
  \/ FilterFile
  \/ FilterChat
  \/ SelectTarget
  \/ StructureBlocks
  \/ StructureNothing
  \/ RefineText
  \/ Passes
  \/ Repair
  \/ ValidationFails
  \/ Fallback
  \/ Decline
  \/ PostCommit
  \/ MainApplies
  \/ SuggestGap
  \/ RecoverConflict
  \/ SecondConflict
  \/ NodeRaises

Next == Progress \/ CommitFails \/ Crash \/ Retry \/ Edit

Spec == Init /\ [][Next]_vars /\ WF_vars(Progress)

-----------------------------------------------------------------------------
(* Properties *)

Versions == 0..(MaxEdits + 2)
Kinds == {"add", "update"}

(* A map as one reads it, with its version.                                *)
Snapshot(s) ==
  /\ DOMAIN s = {"version", "tree", "text"}
  /\ s.version \in Versions /\ s.text \in [Block -> Versions]
  /\ DOMAIN s.tree \subseteq Activity /\ \A a \in DOMAIN s.tree : s.tree[a] \in Seq(Block)

Item == [act : Kinds, ref : Nat, srcs : SUBSET Piece, meant : Activity \cup Block]
Update == [ref : Nat, base : Versions, meant : Block]
Text == [says : SUBSET Piece, long : BOOLEAN]
Change == [act : Kinds, ref : Nat, srcs : SUBSET Piece, says : SUBSET Piece, base : Versions,
            meant : Activity \cup Block]
AppliedChange ==
  [act : Kinds, block : Activity \cup Block, srcs : SUBSET Piece, says : SUBSET Piece,
   base : Versions, old : Versions, meant : Activity \cup Block]

(* A state of the graph.                                                   *)
State(s) ==
  /\ s.node \in Node /\ Snapshot(s.snap)
  /\ s.extracted \subseteq File /\ s.text \in BOOLEAN
  /\ s.new \subseteq Piece /\ s.ans \subseteq {Answer}
  /\ s.reason \in Reason \cup {None} /\ s.target \in Activity \cup {None}
  /\ DOMAIN s.items \subseteq 1..2 /\ \A i \in DOMAIN s.items : s.items[i] \in Item
  /\ DOMAIN s.gapUpdate \subseteq {1}
  /\ \A k \in DOMAIN s.gapUpdate : s.gapUpdate[k] \in Update
  /\ DOMAIN s.refined \subseteq 0..2 /\ \A i \in DOMAIN s.refined : s.refined[i] \in Text
  /\ s.errors \subseteq [id : 0..2, to : {"structure", "refine"}]
  /\ s.commit \subseteq Change
  /\ s.repairs \in 0..MaxValidationRepairs /\ s.conflicts \in 0..1

(* Every part of the state has its type.                                   *)
TypeOK ==
  /\ Snapshot(map) /\ State(mem) /\ State(saved)
  /\ turn \in Turns /\ stored \subseteq File /\ got \subseteq File
  /\ tries \in 0..(NodeMaxAttempts - 1) /\ status \in Status
  /\ edits \in 0..MaxEdits /\ retries \in 0..MaxRetries
  /\ applied \subseteq AppliedChange /\ asked \in AppliedChange \cup Gaps

(* What the main server applies lands on the block it was meant for, with
   the text made for it, and holds every accepted piece once - whatever the
   repairs, retries, edits and the recovery of a conflict did in between
   (commit.py _remap_operations, refine.py _reusable_refined_item_ids).    *)
AppliedAsMeant ==
  applied # {} =>
    /\ \A o \in applied : o.block = o.meant /\ o.says = o.srcs
    /\ UNION {o.srcs : o \in applied} = mem.new \cup mem.ans
    /\ \A o, q \in applied : o # q => o.srcs \cap q.srcs = {}

(* The original of an upload is only deleted once its extract is in the
   checkpoint a retry would start from (file_processor.py, graph_runner.py
   durability="sync").                                                     *)
OriginalUntilExtracted == turn.files \subseteq stored \cup saved.extracted

(* The answer to the open question is applied to the block the question is
   about, whatever activity is on the screen and wherever the block went; an
   answer that asks for a child may instead fill an empty slot, of the
   activity that held the block when the turn began, and of no other
   (target_activity.py, refine.py, structure.py _validate_gap_parent).     *)
AnswerReachesItsGap ==
  \A o \in applied : Answer \in o.srcs /\ turn.gap # None =>
    \/ o.block = turn.gap.anchor
    \/ /\ turn.gap.kind = "new_child_block" /\ o.act = "update" /\ o.block \in Blank
       /\ \E a \in Owners(map, o.block) :
            a \in Owners([tree |-> InitialTree], turn.gap.anchor)

(* An execution comes to an end: a result, an answer or a failure.         *)
TurnEnds == status = "running" ~> status # "running"

(* "combines the answer with the anchor's existing content": an update that
   was combined with a text replaces that text.  The recovery of a conflict
   breaks it: TLC refutes it, no run checks it (README, section 8).        *)
KeepsConcurrentEdits == \A o \in applied : o.base > 0 => o.base = o.old
=============================================================================
