------------------------ MODULE Structuring_proofs ------------------------
(***************************************************************************)
(* Proofs about Structuring and FilePlacing for any input, any activity    *)
(* and any answers of the model: no rule loses a piece of a message, and   *)
(* each line of a file is in one block or left out for a reason.           *)
(*                                                                         *)
(* The argument: what the rules work on stays a list (List), and each rule *)
(* keeps the pieces its list holds.  Where a rule drops an item it must be *)
(* shown that the item has no text or that another one takes it.  The      *)
(* rules that go through a list item by item are followed to the least     *)
(* number after which their invariant would fail.  So are the lines of a   *)
(* file when they are grouped, and the keys when their blocks are made.    *)
(***************************************************************************)
EXTENDS FilePlacing, FiniteSetTheorems, WellFoundedInduction, TLAPS

(* The fields of an item.                                                  *)
Fields == {"act", "target", "ref", "par", "sec", "slot", "src"}
Records(s) == \A i \in DOMAIN s : DOMAIN s[i] = Fields

(* The items of s, and those they name above them, have numbers up to n.   *)
(* (0 stands for an item that is gone.)                                    *)
Within(s, n) == /\ DOMAIN s \subseteq 1..n
                /\ \A i \in DOMAIN s : s[i].par \in 0..n \cup {None}
Numbered(s) == \E n \in Nat : Within(s, n)

(* An item that stands for a category has neither a slot nor a text.       *)
Clean(s) == \A i \in DOMAIN s : s[i].sec # None => s[i].slot = None /\ s[i].src = {}

(* What every list between two rules is.                                   *)
List(s) == Numbered(s) /\ Records(s) /\ Clean(s)

(* Placed, piece by piece.                                                 *)
LEMMA PlacedIs ==
  ASSUME NEW s, NEW q
  PROVE  q \in Placed(s) <=> \E i \in DOMAIN s : q \in s[i].src
BY DEF Placed, All

(* Pieces stay placed when the items that stay keep their pieces and       *)
(* those dropped had none.                                                 *)
LEMMA SameText ==
  ASSUME NEW s, NEW t, DOMAIN t \subseteq DOMAIN s,
         \A i \in DOMAIN t : t[i].src = s[i].src,
         \A i \in DOMAIN s \ DOMAIN t : s[i].src = {}
  PROVE  Placed(t) = Placed(s)
<1>1. ASSUME NEW q PROVE q \in Placed(t) <=> q \in Placed(s)
  BY PlacedIs
<1>2. \A q : q \in Placed(t) <=> q \in Placed(s)
  BY <1>1
<1>3. QED
  BY <1>2, Zenon

-----------------------------------------------------------------------------
(* Rules that change items in place.                                       *)

(* The kind of step most rules take: items are dropped or changed in       *)
(* place, and none gets a parent that is not in the list.                  *)
Change(s, t) ==
  /\ DOMAIN t \subseteq DOMAIN s
  /\ \A i \in DOMAIN t : /\ DOMAIN t[i] = Fields
                         /\ t[i].par \in {None, s[i].par} \cup DOMAIN s
                         /\ t[i].sec # None => t[i].slot = None /\ t[i].src = {}

(* Such a step leads from a list to a list.                                *)
LEMMA ChangedList ==
  ASSUME NEW s, NEW t, List(s), Change(s, t)
  PROVE  List(t)
<1>1. PICK n \in Nat : Within(s, n)
  BY DEF List, Numbered
<1>2. Within(t, n)
  BY <1>1 DEF Within, Change
<1>3. QED
  BY <1>1, <1>2 DEF List, Numbered, Records, Clean, Change

(* What Item makes.                                                        *)
LEMMA MadeItem ==
  ASSUME NEW ref, NEW par, NEW sec, NEW slot, NEW src
  PROVE  LET x == Item(ref, par, sec, slot, src) IN
         /\ DOMAIN x = Fields /\ x.ref = ref /\ x.par = par /\ x.sec = sec
         /\ x.slot = slot /\ x.src = src /\ x.act = "add"
BY DEF Item, Fields

(* What Under, Beneath and Update leave alone.                             *)
LEMMA MovedItem ==
  ASSUME NEW x, DOMAIN x = Fields, NEW a
  PROVE  /\ DOMAIN Under(x, a) = Fields /\ DOMAIN Beneath(x, a) = Fields
         /\ DOMAIN Update(x, a) = Fields
         /\ Under(x, a).par = None /\ Beneath(x, a).par = a /\ Update(x, a).par = None
         /\ Update(x, a).sec = None /\ Update(x, a).slot = None
         /\ Under(x, a).sec = x.sec /\ Beneath(x, a).sec = x.sec
         /\ Under(x, a).slot = x.slot /\ Beneath(x, a).slot = x.slot
         /\ Under(x, a).src = x.src /\ Beneath(x, a).src = x.src /\ Update(x, a).src = x.src
BY DEF Under, Beneath, Update, Fields

(* Renaming invented slots loses no piece.                                 *)
LEMMA OfficialSlotsKeeps ==
  ASSUME NEW s, List(s)
  PROVE  List(OfficialSlots(s)) /\ Placed(OfficialSlots(s)) = Placed(s)
<1> DEFINE t == OfficialSlots(s)
<1>1. t = [i \in DOMAIN s |-> IF s[i].slot \in DOMAIN Invented
                              THEN [s[i] EXCEPT !.slot = Invented[s[i].slot]] ELSE s[i]]
  BY DEF OfficialSlots, Each
<1>2. DOMAIN t = DOMAIN s /\ \A i \in DOMAIN s : s[i].sec # None => t[i] = s[i]
  BY <1>1, NoneAssumption DEF List, Clean, Invented
<1>3. \A i \in DOMAIN s : /\ DOMAIN t[i] = Fields /\ t[i].src = s[i].src
                          /\ t[i].par = s[i].par /\ t[i].sec = s[i].sec
  BY <1>1 DEF List, Records, Fields
<1> HIDE DEF t
<1>4. Change(s, t)
  BY <1>2, <1>3 DEF Change, List, Clean
<1>5. QED
  BY <1>2, <1>3, <1>4, ChangedList, SameText DEF t

(* Least of a nonempty set of numbers.                                     *)
LEMMA LeastOf ==
  ASSUME NEW S \in SUBSET Nat, S # {}
  PROVE  Least(S) \in S /\ \A r \in S : Least(S) <= r
<1> DEFINE R == {ss \in Nat \X Nat : ss[1] < ss[2]}
<1>1. IsWellFoundedOn(R, Nat)
  BY NatLessThanWellFounded, Zenon DEF OpToRel
<1> HIDE DEF R
<1>2. PICK o \in S : \A p \in S : ~(<<p, o>> \in R)
  BY <1>1, WFMin, Zenon
<1>3. \A p \in S : o <= p
  <2> TAKE p \in S
  <2>1. o \in Nat /\ p \in Nat /\ ~(<<p, o>> \in R)
    BY <1>2
  <2>2. ~(p < o)
    BY <2>1, Zenon DEF R
  <2>3. QED
    BY <2>1, <2>2
<1>4. QED
  BY <1>3 DEF Least

(* Folding an invented summary into the anchor above it loses no piece:    *)
(* the summary dropped is the one whose text the anchor takes, and the     *)
(* anchor had no text.                                                     *)
LEMMA FoldSummaryKeeps ==
  ASSUME NEW s, List(s)
  PROVE  List(FoldSummary(s)) /\ Placed(FoldSummary(s)) = Placed(s)
<1> DEFINE fits(i) == s[i].slot = "summary" /\ s[i].par \in DOMAIN s
                        /\ IsAnchor(s[s[i].par]) /\ ~HasText(s[s[i].par])
           taken(a) == First({i \in Kids(s, a) : fits(i)})
           dropped == {i \in DOMAIN s : fits(i) /\ taken(s[i].par) = i}
           fold(i) == IF IsAnchor(s[i]) /\ taken(i) # None
                      THEN [s[i] EXCEPT !.src = s[taken(i)].src]
                      ELSE IF s[i].slot = "summary" THEN [s[i] EXCEPT !.slot = Anchor] ELSE s[i]
           t == FoldSummary(s)
<1>1. t = [i \in DOMAIN s \ dropped |-> fold(i)]
  BY DEF FoldSummary, Each
<1>2. ASSUME NEW i \in DOMAIN s, taken(i) # None
      PROVE  /\ taken(i) \in DOMAIN s /\ s[taken(i)].par = i /\ fits(taken(i))
             /\ taken(i) \in dropped
  <2>1. {j \in Kids(s, i) : fits(j)} \in SUBSET Nat
    BY DEF Kids, List, Numbered, Within
  <2>2. taken(i) \in {j \in Kids(s, i) : fits(j)}
    BY <1>2, <2>1, LeastOf DEF First
  <2>3. QED
    BY <2>2 DEF Kids
<1>3. DOMAIN t = DOMAIN s \ dropped
  BY <1>1
<1>4. ASSUME NEW i \in DOMAIN t
      PROVE  /\ i \in DOMAIN s /\ DOMAIN t[i] = Fields /\ t[i].par = s[i].par /\ t[i].sec = s[i].sec
             /\ t[i].src = IF IsAnchor(s[i]) /\ taken(i) # None THEN s[taken(i)].src ELSE s[i].src
             /\ s[i].sec # None => t[i] = s[i]
  <2>1. i \in DOMAIN s /\ DOMAIN s[i] = Fields
    BY <1>3 DEF List, Records
  <2>2. t[i] = fold(i)
    BY <1>1, <1>3
  <2> HIDE DEF t, taken
  <2>3. QED
    BY <2>1, <2>2, NoneAssumption DEF Fields, List, Clean, IsAnchor, Anchor
<1>5. Change(s, t)
  BY <1>4 DEF Change, List, Clean
<1>6. ASSUME NEW q PROVE q \in Placed(t) <=> q \in Placed(s)
  <2> HIDE DEF t
  <2>1. ASSUME q \in Placed(t) PROVE q \in Placed(s)
    <3>1. PICK i \in DOMAIN t : q \in t[i].src
      BY <2>1, PlacedIs
    <3>2. CASE IsAnchor(s[i]) /\ taken(i) # None
      <4>1. i \in DOMAIN s /\ q \in s[taken(i)].src
        BY <1>4, <3>1, <3>2
      <4>2. taken(i) \in DOMAIN s
        BY <1>2, <3>2, <4>1
      <4>3. QED
        BY <4>1, <4>2, PlacedIs
    <3>3. CASE ~(IsAnchor(s[i]) /\ taken(i) # None)
      <4>1. i \in DOMAIN s /\ q \in s[i].src
        BY <1>4, <3>1, <3>3
      <4>2. QED
        BY <4>1, PlacedIs
    <3>4. QED
      BY <3>2, <3>3
  <2>2. ASSUME q \in Placed(s) PROVE q \in Placed(t)
    <3>1. PICK i \in DOMAIN s : q \in s[i].src
      BY <2>2, PlacedIs
    <3>2. CASE i \in dropped
      <4>1. /\ s[i].par \in DOMAIN s /\ IsAnchor(s[s[i].par]) /\ taken(s[i].par) = i
            /\ s[s[i].par].slot # "summary"
        BY <3>2 DEF IsAnchor, Anchor
      <4>2. s[i].par \in DOMAIN t /\ i # None
        BY <1>3, <4>1, NoneAssumption DEF List, Numbered, Within
      <4>3. q \in t[s[i].par].src
        BY <1>4, <4>1, <4>2, <3>1
      <4>4. QED
        BY <4>2, <4>3, PlacedIs
    <3>3. CASE i \notin dropped
      <4>1. i \in DOMAIN t /\ ~(IsAnchor(s[i]) /\ taken(i) # None)
        BY <1>2, <1>3, <3>3, <3>1 DEF HasText
      <4>2. QED
        BY <1>4, <4>1, <3>1, PlacedIs
    <3>4. QED
      BY <3>2, <3>3
  <2>3. QED
    BY <2>1, <2>2
<1>7. QED
  BY <1>5, <1>6, ChangedList

(* t is a list with the pieces of s.                                       *)
Same(s, t) == List(t) /\ Placed(t) = Placed(s)

(* A change in place that keeps the pieces of each item.                   *)
LEMMA Changed ==
  ASSUME NEW s, NEW t, List(s), DOMAIN t \subseteq DOMAIN s,
         \A i \in DOMAIN t : /\ DOMAIN t[i] = Fields
                             /\ t[i].par \in {None, s[i].par} \cup DOMAIN s
                             /\ t[i].sec # None => t[i].slot = None /\ t[i].src = {}
                             /\ t[i].src = s[i].src,
         \A i \in DOMAIN s \ DOMAIN t : s[i].src = {}
  PROVE  Same(s, t)
BY ChangedList, SameText DEF Change, Same

(* Headings change slots only.                                             *)
LEMMA ApplyHintsKeeps ==
  ASSUME NEW s, List(s)
  PROVE  Same(s, ApplyHints(s))
<1> DEFINE hints(x) == {hint[q] : q \in x.src} \ {None}
           apply(x) == IF x.act = "add" /\ Cardinality(hints(x)) = 1
                       THEN [x EXCEPT !.slot = CHOOSE h \in hints(x) : TRUE] ELSE x
           t == ApplyHints(s)
<1>1. t = [i \in DOMAIN s |-> apply(s[i])]
  BY DEF ApplyHints, Each
<1>2. ASSUME NEW i \in DOMAIN s
      PROVE  /\ DOMAIN t[i] = Fields /\ t[i].par = s[i].par /\ t[i].src = s[i].src
             /\ t[i].sec = s[i].sec
             /\ t[i].sec # None => t[i] = s[i]
  <2>1. DOMAIN s[i] = Fields /\ (s[i].sec # None => s[i].src = {})
    BY DEF List, Records, Clean
  <2>2. t[i] = apply(s[i])
    BY <1>1
  <2>3. s[i].src = {} => hints(s[i]) = {}
    OBVIOUS
  <2>4. s[i].src = {} => Cardinality(hints(s[i])) = 0
    BY <2>3, FS_EmptySet
  <2> HIDE DEF t, hints
  <2>5. QED
    BY <2>1, <2>2, <2>4 DEF Fields
<1>3. DOMAIN t = DOMAIN s
  BY <1>1
<1> HIDE DEF t
<1>4. \A i \in DOMAIN t : t[i].sec # None => t[i].slot = None /\ t[i].src = {}
  BY <1>2, <1>3 DEF List, Clean
<1>5. QED
  BY <1>2, <1>3, <1>4, Changed DEF t

(* The wording of a step changes slots only.                               *)
LEMMA AlignTroubleshootingKeeps ==
  ASSUME NEW s, List(s)
  PROVE  Same(s, AlignTroubleshooting(s))
<1> DEFINE align(x) == IF /\ x.slot \in Template.trouble /\ Cardinality(x.src) = 1
                          /\ \A q \in x.src : hint[q] = None /\ meaning[q] \in Template.trouble
                       THEN [x EXCEPT !.slot = meaning[CHOOSE q \in x.src : TRUE]] ELSE x
           t == AlignTroubleshooting(s)
<1>1. t = [i \in DOMAIN s |-> align(s[i])]
  BY DEF AlignTroubleshooting, Each
<1>2. ASSUME NEW i \in DOMAIN s
      PROVE  /\ DOMAIN t[i] = Fields /\ t[i].par = s[i].par /\ t[i].src = s[i].src
             /\ t[i].sec = s[i].sec
             /\ t[i].sec # None => t[i] = s[i]
  <2>1. DOMAIN s[i] = Fields /\ (s[i].sec # None => s[i].slot \notin Template.trouble)
    BY NoneAssumption DEF List, Records, Clean, Template
  <2>2. t[i] = align(s[i])
    BY <1>1
  <2> HIDE DEF t
  <2>3. QED
    BY <2>1, <2>2 DEF Fields
<1>3. DOMAIN t = DOMAIN s
  BY <1>1
<1> HIDE DEF t
<1>4. \A i \in DOMAIN t : t[i].sec # None => t[i].slot = None /\ t[i].src = {}
  BY <1>2, <1>3 DEF List, Clean
<1>5. QED
  BY <1>2, <1>3, <1>4, Changed DEF t

(* The wording of a lesson changes slots and places only.                  *)
LEMMA AlignLearningKeeps ==
  ASSUME NEW s, List(s)
  PROVE  Same(s, AlignLearning(s))
<1> DEFINE places == {tree[b].up : b \in {a \in Alias : tree[a].slot = "growth"}}
           place == IF Cardinality(places) = 1 THEN CHOOSE a \in places : TRUE ELSE Act
           align(x) == IF /\ x.act = "add"
                          /\ \A q \in x.src : hint[q] = None
                          /\ \E q \in x.src : meaning[q] = "growth"
                       THEN [Under(x, place) EXCEPT !.sec = None, !.slot = "growth"] ELSE x
           t == AlignLearning(s)
<1>1. t = [i \in DOMAIN s |-> align(s[i])]
  BY DEF AlignLearning, Each
<1> HIDE DEF place
<1>2. ASSUME NEW i \in DOMAIN s
      PROVE  /\ DOMAIN t[i] = Fields /\ t[i].par \in {None, s[i].par} /\ t[i].src = s[i].src
             /\ t[i].sec # None => t[i] = s[i]
  <2>1. DOMAIN s[i] = Fields
    BY DEF List, Records
  <2>2. t[i] = align(s[i])
    BY <1>1
  <2> HIDE DEF t
  <2>3. QED
    BY <2>1, <2>2 DEF Fields, Under
<1>3. DOMAIN t = DOMAIN s
  BY <1>1
<1> HIDE DEF t
<1>4. \A i \in DOMAIN t : t[i].sec # None => t[i].slot = None /\ t[i].src = {}
  BY <1>2, <1>3 DEF List, Clean
<1>5. QED
  BY <1>2, <1>3, <1>4, Changed DEF t

(* The item of a section, when there is one.                               *)
LEMMA SectionItemOf ==
  ASSUME NEW s, List(s), NEW sec, \E i \in DOMAIN s : s[i].sec = sec
  PROVE  SectionItem(s, sec) \in DOMAIN s /\ s[SectionItem(s, sec)].sec = sec
<1>1. {i \in DOMAIN s : s[i].sec = sec} \in SUBSET Nat
  BY DEF List, Numbered, Within
<1>2. QED
  BY <1>1, LeastOf DEF SectionItem, First

(* A category merged into its first has no text to lose.                   *)
LEMMA MergeSectionsKeeps ==
  ASSUME NEW s, List(s)
  PROVE  Same(s, MergeSections(s))
<1> DEFINE extra == {i \in DOMAIN s : s[i].sec # None /\ SectionItem(s, s[i].sec) # i}
           move(x) == IF x.par \in extra THEN [x EXCEPT !.par = SectionItem(s, s[x.par].sec)] ELSE x
           t == MergeSections(s)
<1>1. t = [i \in DOMAIN s \ extra |-> move(s[i])]
  BY DEF MergeSections, Each
<1>2. \A i \in extra : i \in DOMAIN s /\ SectionItem(s, s[i].sec) \in DOMAIN s /\ s[i].src = {}
  BY SectionItemOf DEF List, Clean
<1>3. DOMAIN t = DOMAIN s \ extra
  BY <1>1
<1> HIDE DEF extra
<1>4. ASSUME NEW i \in DOMAIN t
      PROVE  /\ i \in DOMAIN s /\ DOMAIN t[i] = Fields /\ t[i].par \in {s[i].par} \cup DOMAIN s
             /\ t[i].src = s[i].src /\ t[i].sec = s[i].sec /\ t[i].slot = s[i].slot
  <2>1. i \in DOMAIN s /\ DOMAIN s[i] = Fields
    BY <1>3 DEF List, Records
  <2>2. t[i] = move(s[i])
    BY <1>1, <1>3
  <2> HIDE DEF t
  <2>3. QED
    BY <1>2, <2>1, <2>2 DEF Fields
<1> HIDE DEF t
<1>5. \A i \in DOMAIN t : t[i].sec # None => t[i].slot = None /\ t[i].src = {}
  BY <1>4 DEF List, Clean
<1>6. QED
  BY <1>2, <1>3, <1>4, <1>5, Changed DEF t

(* An item dropped for its slot has no text.                               *)
LEMMA DropJunkKeeps ==
  ASSUME NEW s, List(s)
  PROVE  Same(s, DropJunk(s))
<1> DEFINE junk == {i \in DOMAIN s : /\ s[i].slot \notin Leaf \cup {Anchor, "growth", None}
                                     /\ ~HasText(s[i]) /\ Kids(s, i) = {}}
           t == DropJunk(s)
<1>1. t = [i \in DOMAIN s \ junk |-> s[i]]
  BY DEF DropJunk, Each
<1>2. /\ DOMAIN t \subseteq DOMAIN s /\ \A i \in DOMAIN t : t[i] = s[i]
      /\ \A i \in DOMAIN s \ DOMAIN t : s[i].src = {}
  BY <1>1 DEF HasText
<1> HIDE DEF t
<1>3. QED
  BY <1>2, Changed DEF t, List, Records, Clean

(* A new category moves below the activity, with all it has.               *)
LEMMA SectionsUnderActivityKeeps ==
  ASSUME NEW s, List(s)
  PROVE  Same(s, SectionsUnderActivity(s))
<1> DEFINE t == SectionsUnderActivity(s)
<1>1. t = [i \in DOMAIN s |-> IF s[i].sec # None THEN [s[i] EXCEPT !.ref = Act] ELSE s[i]]
  BY DEF SectionsUnderActivity, Each
<1>2. ASSUME NEW i \in DOMAIN s
      PROVE  /\ DOMAIN t[i] = Fields /\ t[i].par = s[i].par /\ t[i].src = s[i].src
             /\ t[i].sec = s[i].sec /\ t[i].slot = s[i].slot
  <2>1. DOMAIN s[i] = Fields
    BY DEF List, Records
  <2>2. QED
    BY <1>1, <2>1 DEF Fields
<1>3. DOMAIN t = DOMAIN s
  BY <1>1
<1> HIDE DEF t
<1>4. QED
  BY <1>2, <1>3, Changed DEF t, List, Clean

(* Only pieces nobody knows are taken away.                                *)
LEMMA KnownSourcesKeeps ==
  ASSUME NEW s, List(s), NEW known
  PROVE  /\ List(KnownSources(s, known))
         /\ Placed(KnownSources(s, known)) = Placed(s) \cap known
<1> DEFINE t == KnownSources(s, known)
<1>1. t = [i \in DOMAIN s |-> [s[i] EXCEPT !.src = @ \cap known]]
  BY DEF KnownSources, Each
<1>2. ASSUME NEW i \in DOMAIN s
      PROVE  /\ DOMAIN t[i] = Fields /\ t[i].par = s[i].par /\ t[i].src = s[i].src \cap known
             /\ t[i].sec = s[i].sec /\ t[i].slot = s[i].slot
  <2>1. DOMAIN s[i] = Fields
    BY DEF List, Records
  <2>2. QED
    BY <1>1, <2>1 DEF Fields
<1>3. DOMAIN t = DOMAIN s
  BY <1>1
<1> HIDE DEF t
<1>4. \A q : q \in Placed(t) <=> q \in Placed(s) \cap known
  BY <1>2, <1>3, PlacedIs
<1>5. Change(s, t)
  BY <1>2, <1>3 DEF Change, List, Clean
<1>6. QED
  BY <1>4, <1>5, ChangedList DEF t

(* Of several items in one slot the first takes the pieces of the          *)
(* others.                                                                 *)
LEMMA MergeSlotsKeeps ==
  ASSUME NEW s, List(s)
  PROVE  Same(s, MergeSlots(s))
<1> DEFINE t == MergeSlots(s)
<1>1. t = [i \in Firsts(s) |-> [s[i] EXCEPT !.src = UNION {s[j].src : j \in Twins(s, i)}]]
  BY DEF MergeSlots, Each
<1>2. ASSUME NEW i \in DOMAIN s
      PROVE  /\ i \in Twins(s, i) /\ Twins(s, i) \subseteq DOMAIN s
             /\ Least(Twins(s, i)) \in Twins(s, i) /\ Least(Twins(s, i)) \in Firsts(s)
             /\ Twins(s, Least(Twins(s, i))) = Twins(s, i)
             /\ s[i].sec # None => Twins(s, i) = {i}
  <2>1. Twins(s, i) \in SUBSET Nat /\ i \in Twins(s, i) /\ Twins(s, i) \subseteq DOMAIN s
    BY DEF List, Numbered, Within, Twins
  <2>2. Least(Twins(s, i)) \in Twins(s, i)
    BY <2>1, LeastOf
  <2>3. \A j \in Twins(s, i) : Twins(s, j) = Twins(s, i)
    BY DEF Twins, IsAnchor
  <2>4. QED
    BY <2>1, <2>2, <2>3 DEF Firsts, List, Clean, Twins
<1>3. DOMAIN t = Firsts(s) /\ Firsts(s) \subseteq DOMAIN s
  BY <1>1 DEF Firsts
<1>4. ASSUME NEW i \in DOMAIN t
      PROVE  /\ i \in DOMAIN s /\ DOMAIN t[i] = Fields /\ t[i].par = s[i].par
             /\ t[i].sec = s[i].sec /\ t[i].slot = s[i].slot /\ t[i].act = s[i].act
             /\ t[i].src = UNION {s[j].src : j \in Twins(s, i)}
  <2>1. i \in DOMAIN s /\ i \in Firsts(s)
    BY <1>3
  <2>2. DOMAIN s[i] = Fields
    BY <2>1 DEF List, Records
  <2>3. t[i] = [s[i] EXCEPT !.src = UNION {s[j].src : j \in Twins(s, i)}]
    BY <1>1, <2>1
  <2> HIDE DEF t
  <2>4. QED
    BY <2>1, <2>2, <2>3 DEF Fields
<1> HIDE DEF t
<1>5. ASSUME NEW i \in DOMAIN t, t[i].sec # None PROVE t[i].slot = None /\ t[i].src = {}
  <2>1. s[i].sec # None /\ i \in DOMAIN s
    BY <1>4, <1>5
  <2>2. Twins(s, i) = {i}
    BY <1>2, <2>1
  <2>3. UNION {s[j].src : j \in Twins(s, i)} = s[i].src
    BY <2>2
  <2>4. QED
    BY <1>4, <2>1, <2>3 DEF List, Clean
<1>6. ASSUME NEW q, q \in Placed(t) PROVE q \in Placed(s)
  <2>1. PICK i \in DOMAIN t : q \in t[i].src
    BY <1>6, PlacedIs
  <2>2. PICK j \in Twins(s, i) : q \in s[j].src
    BY <1>4, <2>1
  <2>3. QED
    BY <1>2, <1>4, <2>2, PlacedIs
<1>7. ASSUME NEW q, q \in Placed(s) PROVE q \in Placed(t)
  <2>1. PICK i \in DOMAIN s : q \in s[i].src
    BY <1>7, PlacedIs
  <2>2. DEFINE j == Least(Twins(s, i))
  <2>3. j \in DOMAIN t /\ i \in Twins(s, j)
    BY <1>2, <1>3
  <2>4. q \in t[j].src
    BY <1>4, <2>1, <2>3
  <2>5. QED
    BY <2>3, <2>4, PlacedIs
<1>8. Placed(t) = Placed(s)
  BY <1>6, <1>7
<1>9. Change(s, t)
  BY <1>4, <1>5, <1>3 DEF Change
<1>10. QED
  BY <1>8, <1>9, ChangedList DEF Same, t

(* A misplaced item moves, with its pieces.                                *)
LEMMA RerouteKeeps ==
  ASSUME NEW s, List(s)
  PROVE  Same(s, Reroute(s))
<1> DEFINE misplaced(x) == /\ x.act = "add" /\ x.slot \in {Anchor, "growth"} /\ x.ref \in Alias
                           /\ \/ tree[x.ref].level \notin {2, 3}
                              \/ SectionAt(x.ref) \notin {None, SectionOf(x.slot)}
           home(x) == LET c == Category(SectionOf(x.slot)) IN IF c = None THEN Act ELSE c
           t == Reroute(s)
<1>1. t = [i \in DOMAIN s |-> IF misplaced(s[i]) THEN Under(s[i], home(s[i])) ELSE s[i]]
  BY DEF Reroute, Each
<1> HIDE DEF misplaced, home
<1>2. \A i \in DOMAIN s : /\ DOMAIN t[i] = Fields /\ t[i].par \in {None, s[i].par} 
                          /\ t[i].src = s[i].src /\ t[i].sec = s[i].sec /\ t[i].slot = s[i].slot
  BY <1>1, MovedItem DEF List, Records
<1>3. DOMAIN t = DOMAIN s
  BY <1>1
<1> HIDE DEF t
<1>4. QED
  BY <1>2, <1>3, Changed DEF t, List, Clean

-----------------------------------------------------------------------------
(* Rules that move what hangs below an anchor.                             *)

(* No anchor hangs below an anchor.                                        *)
Flat(s) == \A i \in DOMAIN s : IsAnchor(s[i]) /\ s[i].par \in DOMAIN s => ~IsAnchor(s[s[i].par])

(* Anchors that are not moved below another item stay as they are.         *)
LEMMA FlatStays ==
  ASSUME NEW s, NEW t, List(s), Flat(s), DOMAIN t \subseteq DOMAIN s,
         \A i \in DOMAIN t : IsAnchor(t[i]) => IsAnchor(s[i]) /\ t[i].par \in {None, s[i].par}
  PROVE  Flat(t)
<1>1. None \notin DOMAIN s
  BY NoneAssumption DEF List, Numbered, Within
<1>2. QED
  BY <1>1 DEF Flat

(* A category that is there already is no item: what hung below it         *)
(* moves.                                                                  *)
LEMMA MergeIntoCategoriesKeeps ==
  ASSUME NEW s, List(s)
  PROVE  Same(s, MergeIntoCategories(s)) /\ (Flat(s) => Flat(MergeIntoCategories(s)))
<1> DEFINE old == {i \in DOMAIN s : s[i].act = "add" /\ s[i].sec # None /\ Known(s[i].sec) # None}
           move(x) == IF x.par \in old THEN Under(x, Known(s[x.par].sec)) ELSE x
           t == MergeIntoCategories(s)
<1>1. t = [i \in DOMAIN s \ old |-> move(s[i])]
  BY DEF MergeIntoCategories, Each
<1>2. \A i \in old : s[i].src = {}
  BY DEF List, Clean
<1>3. DOMAIN t = DOMAIN s \ old
  BY <1>1
<1> HIDE DEF old
<1>4. \A i \in DOMAIN t : /\ i \in DOMAIN s /\ DOMAIN t[i] = Fields
                          /\ t[i].par \in {None, s[i].par} /\ t[i].src = s[i].src
                          /\ t[i].sec = s[i].sec /\ t[i].slot = s[i].slot
  BY <1>1, <1>3, MovedItem DEF List, Records
<1> HIDE DEF t
<1>5. Same(s, t)
  BY <1>2, <1>3, <1>4, Changed DEF List, Clean
<1>6. Flat(s) => Flat(t)
  BY <1>3, <1>4, FlatStays DEF IsAnchor
<1>7. QED
  BY <1>5, <1>6 DEF t

(* An empty anchor of the continued episode goes; its children move.       *)
LEMMA ContinueEpisodeKeeps ==
  ASSUME NEW s, List(s)
  PROVE  Same(s, ContinueEpisode(s)) /\ (Flat(s) => Flat(ContinueEpisode(s)))
<1> DEFINE old == {i \in DOMAIN s : /\ continued # None /\ s[i].ref = tree[continued].up
                                    /\ IsAnchor(s[i]) /\ ~HasText(s[i])}
           bare == {i \in DOMAIN s : s[i].par \in old /\ ~HasText(s[i])}
           move(x) == IF x.par \in old THEN Under(x, continued) ELSE x
           t == ContinueEpisode(s)
<1>1. t = [i \in DOMAIN s \ (old \cup bare) |-> move(s[i])]
  BY DEF ContinueEpisode, Each
<1>2. \A i \in old \cup bare : s[i].src = {}
  BY DEF HasText
<1>3. DOMAIN t = DOMAIN s \ (old \cup bare)
  BY <1>1
<1> HIDE DEF old, bare
<1>4. \A i \in DOMAIN t : /\ i \in DOMAIN s /\ DOMAIN t[i] = Fields
                          /\ t[i].par \in {None, s[i].par} /\ t[i].src = s[i].src
                          /\ t[i].sec = s[i].sec /\ t[i].slot = s[i].slot
  BY <1>1, <1>3, MovedItem DEF List, Records
<1> HIDE DEF t
<1>5. Same(s, t)
  BY <1>2, <1>3, <1>4, Changed DEF List, Clean
<1>6. Flat(s) => Flat(t)
  BY <1>3, <1>4, FlatStays DEF IsAnchor
<1>7. QED
  BY <1>5, <1>6 DEF t

(* A misplaced anchor moves below a block, never below an anchor.          *)
LEMMA RerouteFlat ==
  ASSUME NEW s, List(s), Flat(s)
  PROVE  Flat(Reroute(s))
<1> DEFINE misplaced(x) == /\ x.act = "add" /\ x.slot \in {Anchor, "growth"} /\ x.ref \in Alias
                           /\ \/ tree[x.ref].level \notin {2, 3}
                              \/ SectionAt(x.ref) \notin {None, SectionOf(x.slot)}
           home(x) == LET c == Category(SectionOf(x.slot)) IN IF c = None THEN Act ELSE c
           t == Reroute(s)
<1>1. t = [i \in DOMAIN s |-> IF misplaced(s[i]) THEN Under(s[i], home(s[i])) ELSE s[i]]
  BY DEF Reroute, Each
<1> HIDE DEF misplaced, home
<1>2. \A i \in DOMAIN s : t[i].par \in {None, s[i].par} /\ t[i].slot = s[i].slot
  BY <1>1, MovedItem DEF List, Records
<1>3. DOMAIN t = DOMAIN s
  BY <1>1
<1> HIDE DEF t
<1>4. QED
  BY <1>2, <1>3, FlatStays DEF t, IsAnchor

(* An anchor repeated in a later batch goes; its pieces go to the anchor   *)
(* that stays, its children move. This needs Flat: an anchor below an      *)
(* anchor that goes would be left with a parent that is gone.              *)
LEMMA MergeAnchorsKeeps ==
  ASSUME NEW s, List(s), Flat(s), NEW earlier
  PROVE  Same(s, MergeAnchors(s, earlier)) /\ Flat(MergeAnchors(s, earlier))
<1> DEFINE old(i) == {j \in DOMAIN s \cap earlier : IsAnchor(s[j]) /\ Holder(s[j]) = Holder(s[i])}
           named(i) == {j \in old(i) : EpisodeLabel(s, j) = EpisodeLabel(s, i)}
           unnamed(i) == \A j \in old(i) : EpisodeLabel(s, j) = None
           into(i) == IF i \in earlier \/ ~IsAnchor(s[i]) THEN None
                      ELSE IF EpisodeLabel(s, i) = None \/ unnamed(i) THEN First(old(i))
                      ELSE First(named(i))
           leave == {i \in DOMAIN s : into(i) # None}
           move(i) == [s[i] EXCEPT !.src = @ \cup UNION {s[j].src : j \in {z \in leave : into(z) = i}},
                                   !.par = IF @ \in leave THEN into(@) ELSE @]
           t == MergeAnchors(s, earlier)
<1>1. t = [i \in DOMAIN s \ leave |-> move(i)]
  BY DEF MergeAnchors, Each
<1>2. ASSUME NEW i \in leave
      PROVE  /\ IsAnchor(s[i]) /\ i \in DOMAIN s
             /\ into(i) \in DOMAIN s /\ into(i) \notin leave /\ IsAnchor(s[into(i)])
  <2>1. IsAnchor(s[i]) /\ i \notin earlier /\ into(i) \in {First(old(i)), First(named(i))}
    OBVIOUS
  <2>2. old(i) \in SUBSET Nat /\ named(i) \in SUBSET Nat /\ named(i) \subseteq old(i)
    BY DEF List, Numbered, Within
  <2>3. ASSUME NEW S \in SUBSET Nat, S \subseteq old(i), First(S) # None PROVE First(S) \in old(i)
    BY <2>3, LeastOf DEF First
  <2>4. into(i) \in old(i)
    BY <2>1, <2>2, <2>3
  <2>5. into(i) \in DOMAIN s /\ into(i) \in earlier /\ IsAnchor(s[into(i)])
    BY <2>4
  <2>6. into(into(i)) = None
    BY <2>5
  <2>7. QED
    BY <2>1, <2>5, <2>6
<1>3. DOMAIN t = DOMAIN s \ leave
  BY <1>1
<1> HIDE DEF into, leave
<1>4. ASSUME NEW i \in DOMAIN t
      PROVE  /\ i \in DOMAIN s /\ DOMAIN t[i] = Fields
             /\ t[i].par = IF s[i].par \in leave THEN into(s[i].par) ELSE s[i].par
             /\ t[i].src = s[i].src \cup UNION {s[j].src : j \in {z \in leave : into(z) = i}}
             /\ t[i].sec = s[i].sec /\ t[i].slot = s[i].slot
  <2>1. i \in DOMAIN s /\ DOMAIN s[i] = Fields
    BY <1>3 DEF List, Records
  <2>2. t[i] = move(i)
    BY <1>1, <1>3
  <2> HIDE DEF t
  <2>3. QED
    BY <2>1, <2>2 DEF Fields
<1> HIDE DEF t
<1>5. ASSUME NEW i \in DOMAIN t, t[i].sec # None PROVE t[i].slot = None /\ t[i].src = {}
  <2>1. s[i].sec # None /\ i \in DOMAIN s /\ s[i].slot = None /\ s[i].src = {}
    BY <1>4, <1>5 DEF List, Clean
  <2>2. ~IsAnchor(s[i])
    BY <2>1, NoneAssumption DEF IsAnchor, Anchor
  <2>3. {z \in leave : into(z) = i} = {}
    BY <1>2, <2>2
  <2>4. QED
    BY <1>4, <2>1, <2>3
<1>6. Change(s, t)
  BY <1>2, <1>3, <1>4, <1>5 DEF Change
<1>7. ASSUME NEW q, q \in Placed(t) PROVE q \in Placed(s)
  <2>1. PICK i \in DOMAIN t : q \in t[i].src
    BY <1>7, PlacedIs
  <2>2. q \in s[i].src \/ \E j \in leave : q \in s[j].src
    BY <1>4, <2>1
  <2>3. QED
    BY <1>2, <1>4, <2>2, PlacedIs
<1>8. ASSUME NEW q, q \in Placed(s) PROVE q \in Placed(t)
  <2>1. PICK i \in DOMAIN s : q \in s[i].src
    BY <1>8, PlacedIs
  <2>2. CASE i \in leave
    <3>1. into(i) \in DOMAIN t
      BY <1>2, <1>3, <2>2
    <3>2. i \in {z \in leave : into(z) = into(i)}
      BY <2>2
    <3>3. q \in t[into(i)].src
      BY <1>4, <2>1, <3>1, <3>2
    <3>4. QED
      BY <3>1, <3>3, PlacedIs
  <2>3. CASE i \notin leave
    <3>1. i \in DOMAIN t
      BY <1>3, <2>3
    <3>2. q \in t[i].src
      BY <1>4, <2>1, <3>1
    <3>3. QED
      BY <3>1, <3>2, PlacedIs
  <2>4. QED
    BY <2>2, <2>3
<1>9. Placed(t) = Placed(s)
  BY <1>7, <1>8
<1>10. \A i \in DOMAIN t : IsAnchor(t[i]) => IsAnchor(s[i]) /\ t[i].par = s[i].par
  BY <1>2, <1>4 DEF Flat, IsAnchor
<1>11. Flat(t)
  BY <1>3, <1>10, FlatStays
<1>12. QED
  BY <1>6, <1>9, <1>11, ChangedList DEF Same, t

(* An anchor with the text of a block of the activity becomes that         *)
(* block.                                                                  *)
LEMMA ReuseAnchorKeeps ==
  ASSUME NEW s, List(s)
  PROVE  Same(s, ReuseAnchor(s)) /\ (Flat(s) => Flat(ReuseAnchor(s)))
<1> DEFINE beside(i) == continued # None /\ s[i].ref = tree[continued].up /\ IsAnchor(s[i])
           blanks == BlankSlots(Below(continued))
           group(i) == {i} \cup Kids(s, i)
           filled(i) == {j \in group(i) : HasText(s[j])}
           exact(i) == {j \in filled(i) : \E b \in blanks : tree[b].slot = s[j].slot}
           rest(i) == {b \in blanks : \A j \in exact(i) : s[j].slot # tree[b].slot}
           clear(i) == /\ beside(i) /\ blanks # {} /\ filled(i) # {}
                       /\ \/ filled(i) = exact(i)
                          \/ Cardinality(filled(i) \ exact(i)) = 1 /\ Cardinality(rest(i)) = 1
           anchors == {i \in DOMAIN s : clear(i)}
           slotOf(i, j) == CHOOSE b \in IF j \in exact(i) THEN blanks ELSE rest(i) :
                             j \in exact(i) => tree[b].slot = s[j].slot
           fill(j) == IF \E i \in anchors : j \in filled(i)
                      THEN Update(s[j], slotOf(CHOOSE i \in anchors : j \in filled(i), j)) ELSE s[j]
           bare == UNION {group(i) \ filled(i) : i \in anchors}
           t == ReuseAnchor(s)
<1>1. t = [j \in DOMAIN s \ bare |-> fill(j)]
  BY DEF ReuseAnchor, Each
<1>2. \A j \in bare : s[j].src = {}
  BY DEF HasText
<1>3. DOMAIN t = DOMAIN s \ bare
  BY <1>1
<1> HIDE DEF bare, slotOf, filled, anchors
<1>4. ASSUME NEW i \in DOMAIN t
      PROVE  /\ i \in DOMAIN s /\ DOMAIN t[i] = Fields
             /\ t[i].par \in {None, s[i].par} /\ t[i].src = s[i].src
             /\ t[i].sec \in {None, s[i].sec} /\ t[i].slot \in {None, s[i].slot}
  <2>1. i \in DOMAIN s /\ DOMAIN s[i] = Fields
    BY <1>3 DEF List, Records
  <2>2. t[i] = fill(i)
    BY <1>1, <1>3
  <2> HIDE DEF t
  <2>3. QED
    BY <2>1, <2>2, MovedItem
<1> HIDE DEF t
<1>5. Same(s, t)
  BY <1>2, <1>3, <1>4, Changed DEF List, Clean
<1>6. Flat(s) => Flat(t)
  BY <1>3, <1>4, FlatStays, NoneAssumption DEF IsAnchor, Anchor
<1>7. QED
  BY <1>5, <1>6 DEF t

(* Of two templates the rarer is renamed, nothing dropped.                 *)
LEMMA CollapseTemplatesKeeps ==
  ASSUME NEW s, List(s)
  PROVE  Same(s, CollapseTemplates(s)) /\ (Flat(s) => Flat(CollapseTemplates(s)))
<1> DEFINE both(x) == x.slot = "b1" /\ TemplatesAt(s, Holder(x)) = {"basic", "trouble"}
           t == CollapseTemplates(s)
<1>1. t = [i \in DOMAIN s |-> IF both(s[i]) THEN [s[i] EXCEPT !.slot = "t1"] ELSE s[i]]
  BY DEF CollapseTemplates, Each
<1>2. ASSUME NEW i \in DOMAIN s
      PROVE  /\ DOMAIN t[i] = Fields /\ t[i].par = s[i].par /\ t[i].src = s[i].src
             /\ t[i].sec = s[i].sec /\ (s[i].sec # None => t[i].slot = s[i].slot)
             /\ IsAnchor(t[i]) => IsAnchor(s[i])
  <2>1. DOMAIN s[i] = Fields /\ (s[i].sec # None => s[i].slot = None)
    BY DEF List, Records, Clean
  <2>2. QED
    BY <1>1, <2>1, NoneAssumption DEF Fields, IsAnchor, Anchor
<1>3. DOMAIN t = DOMAIN s
  BY <1>1
<1> HIDE DEF t
<1>4. Same(s, t)
  BY <1>2, <1>3, Changed DEF List, Clean
<1>5. Flat(s) => Flat(t)
  BY <1>2, <1>3, FlatStays
<1>6. QED
  BY <1>4, <1>5 DEF t

(* An item of an extra template goes when it has no text.                  *)
LEMMA PruneTemplatesKeeps ==
  ASSUME NEW s, List(s)
  PROVE  Same(s, PruneTemplates(s))
<1> DEFINE written(h) == {TemplateOf(x.slot) : x \in
                            {y \in All(s) : y.slot \in Leaf /\ Holder(y) = h /\ HasText(y)}}
           extra(x) == /\ x.slot \in Leaf /\ Cardinality(written(Holder(x))) = 1
                       /\ TemplateOf(x.slot) \notin written(Holder(x))
           t == PruneTemplates(s)
<1>1. t = [i \in {j \in DOMAIN s : ~extra(s[j])} |-> s[i]]
  BY DEF PruneTemplates, Each
<1>2. ASSUME NEW i \in DOMAIN s, extra(s[i]) PROVE s[i].src = {}
  <2>1. s[i] \in All(s)
    BY DEF All
  <2>2. QED
    BY <1>2, <2>1 DEF HasText
<1> HIDE DEF extra
<1>3. /\ DOMAIN t \subseteq DOMAIN s /\ \A i \in DOMAIN t : t[i] = s[i]
      /\ \A i \in DOMAIN s \ DOMAIN t : s[i].src = {}
  BY <1>1, <1>2
<1> HIDE DEF t
<1>4. QED
  BY <1>3, Changed DEF t, List, Records, Clean

(* An anchor gives up the pieces its child repeats: they are the           *)
(* child's.                                                                *)
LEMMA DedupeAnchorKeeps ==
  ASSUME NEW s, List(s), Flat(s)
  PROVE  Same(s, DedupeAnchor(s))
<1> DEFINE twice(i) == IsAnchor(s[i]) /\ \E j \in Kids(s, i) : s[j].src = s[i].src
           t == DedupeAnchor(s)
<1>1. t = [i \in DOMAIN s |-> IF twice(i) THEN [s[i] EXCEPT !.src = {}] ELSE s[i]]
  BY DEF DedupeAnchor, Each
<1>2. ASSUME NEW i \in DOMAIN s
      PROVE  /\ DOMAIN t[i] = Fields /\ t[i].par = s[i].par /\ t[i].slot = s[i].slot
             /\ t[i].sec = s[i].sec /\ t[i].src = IF twice(i) THEN {} ELSE s[i].src
  <2>1. DOMAIN s[i] = Fields
    BY DEF List, Records
  <2> HIDE DEF twice
  <2>2. QED
    BY <1>1, <2>1 DEF Fields
<1>3. DOMAIN t = DOMAIN s
  BY <1>1
<1> HIDE DEF t
<1>4. ASSUME NEW i \in DOMAIN s, twice(i)
      PROVE  \E j \in DOMAIN s : ~twice(j) /\ s[j].src = s[i].src
  <2>1. PICK j \in DOMAIN s : s[j].par = i /\ s[j].src = s[i].src
    BY <1>4 DEF Kids
  <2>2. ~IsAnchor(s[j])
    BY <1>4, <2>1 DEF Flat
  <2>3. QED
    BY <2>1, <2>2
<1> HIDE DEF twice
<1>5. \A q : q \in Placed(t) <=> q \in Placed(s)
  BY <1>2, <1>3, <1>4, PlacedIs
<1>6. Change(s, t)
  BY <1>2, <1>3 DEF Change, List, Clean
<1>7. QED
  BY <1>5, <1>6, ChangedList DEF Same, t

(* Merging slots moves no anchor.                                          *)
LEMMA MergeSlotsFlat ==
  ASSUME NEW s, List(s), Flat(s)
  PROVE  Flat(MergeSlots(s))
<1> DEFINE t == MergeSlots(s)
<1>1. t = [i \in Firsts(s) |-> [s[i] EXCEPT !.src = UNION {s[j].src : j \in Twins(s, i)}]]
  BY DEF MergeSlots, Each
<1>2. DOMAIN t = Firsts(s) /\ Firsts(s) \subseteq DOMAIN s
  BY <1>1 DEF Firsts
<1>3. \A i \in DOMAIN t : t[i].par = s[i].par /\ t[i].slot = s[i].slot
  BY <1>1, <1>2 DEF List, Records, Fields
<1> HIDE DEF t
<1>4. QED
  BY <1>2, <1>3, FlatStays DEF t, IsAnchor

(* An item that fills an empty block keeps its pieces.                     *)
LEMMA FillEmptySlotsKeeps ==
  ASSUME NEW s, List(s)
  PROVE  Same(s, FillEmptySlots(s))
<1> DEFINE blanks(x) == {b \in BlankSlots(Children(x.ref)) : tree[b].slot = x.slot}
           fill(x) == IF /\ x.act = "add" /\ x.ref \in Alias /\ x.slot \notin {None, Anchor}
                         /\ HasText(x) /\ blanks(x) # {}
                      THEN Update(x, CHOOSE b \in blanks(x) : TRUE) ELSE x
           t == FillEmptySlots(s)
<1>1. t = [i \in DOMAIN s |-> fill(s[i])]
  BY DEF FillEmptySlots, Each
<1> HIDE DEF blanks
<1>2. ASSUME NEW i \in DOMAIN s
      PROVE  /\ DOMAIN t[i] = Fields /\ t[i].par \in {None, s[i].par} /\ t[i].src = s[i].src
             /\ t[i].sec # None => t[i] = s[i]
  <2>1. DOMAIN s[i] = Fields
    BY DEF List, Records
  <2>2. t[i] = fill(s[i])
    BY <1>1
  <2> HIDE DEF t
  <2>3. QED
    BY <2>1, <2>2, MovedItem
<1>3. DOMAIN t = DOMAIN s
  BY <1>1
<1> HIDE DEF t
<1>4. \A i \in DOMAIN t : t[i].sec # None => t[i].slot = None /\ t[i].src = {}
  BY <1>2, <1>3 DEF List, Clean
<1>5. QED
  BY <1>2, <1>3, <1>4, Changed DEF t

-----------------------------------------------------------------------------
(* Rules that add items, item by item.                                     *)

(* Greatest of a nonempty set of numbers up to n.                          *)
LEMMA GreatestOf ==
  ASSUME NEW n \in Nat, NEW S \in SUBSET (0..n), S # {}
  PROVE  Greatest(S) \in S /\ \A r \in S : r <= Greatest(S)
<1> DEFINE T == {n - r : r \in S}
<1>0. \A r \in S : r \in Nat /\ r <= n /\ n - r \in Nat
  OBVIOUS
<1>1. T \in SUBSET Nat /\ T # {}
  BY <1>0
<1>2. Least(T) \in T /\ \A r \in T : Least(T) <= r
  BY <1>1, LeastOf
<1>3. PICK o \in S : Least(T) = n - o
  BY <1>2
<1>4. ASSUME NEW r \in S PROVE r <= o
  <2>1. n - o <= n - r
    BY <1>2, <1>3
  <2>2. QED
    BY <1>0, <2>1
<1>5. QED
  BY <1>4 DEF Greatest

(* The highest number of a list.                                           *)
LEMMA TopOf ==
  ASSUME NEW s, List(s)
  PROVE  /\ Top(s) \in Nat /\ DOMAIN s \subseteq 1..Top(s)
         /\ \A i \in DOMAIN s : s[i].par \in 0..Top(s) \cup {None}
<1> DEFINE S == {0} \cup DOMAIN s \cup ({x.par : x \in All(s)} \ {None})
<1>1. PICK n \in Nat : Within(s, n)
  BY DEF List, Numbered
<1>2. S \in SUBSET (0..n) /\ 0 \in S
  BY <1>1 DEF Within, All
<1>3. Greatest(S) \in S /\ \A r \in S : r <= Greatest(S)
  BY <1>2, GreatestOf
<1>4. Top(s) = Greatest(S)
  BY DEF Top
<1>5. \A i \in DOMAIN s : i \in S /\ s[i].par \in S \cup {None}
  BY DEF All
<1> HIDE DEF S
<1>6. Top(s) \in Nat
  <2>1. \A r \in S : r \in Nat
    BY <1>2
  <2>2. QED
    BY <1>3, <1>4, <2>1
<1>7. \A r \in S : r \in Int /\ r <= Top(s) /\ 0 <= r
  BY <1>2, <1>3, <1>4
<1>8. \A i \in DOMAIN s : i \in Int /\ 1 <= i
  BY <1>1 DEF Within
<1>9. \A i \in DOMAIN s : i \in 1..Top(s) /\ (s[i].par \in 0..Top(s) \/ s[i].par = None)
  BY <1>5, <1>6, <1>7, <1>8
<1>10. QED
  BY <1>6, <1>9

(* The number of a new item is used nowhere in the list.                   *)
LEMMA FreshOf ==
  ASSUME NEW s, List(s)
  PROVE  /\ Fresh(s) \in Nat \ {0} /\ Fresh(s) \notin DOMAIN s
         /\ \A i \in DOMAIN s : s[i].par # Fresh(s)
BY TopOf, NoneAssumption DEF Fresh

(* t has the items of s, at other places perhaps, and empty ones besides.  *)
Grown(s, t) ==
  /\ DOMAIN s \subseteq DOMAIN t
  /\ \A i \in DOMAIN s : t[i].src = s[i].src /\ t[i].slot = s[i].slot /\ t[i].sec = s[i].sec
  /\ \A i \in DOMAIN t \ DOMAIN s : t[i].src = {}

(* Such a step neither loses nor adds a piece.                             *)
LEMMA GrownPlaced ==
  ASSUME NEW s, NEW t, Grown(s, t)
  PROVE  Placed(t) = Placed(s)
<1>1. \A q : q \in Placed(t) <=> q \in Placed(s)
  BY PlacedIs DEF Grown
<1>2. QED
  BY <1>1

(* Several such steps are one.                                             *)
LEMMA GrownOn ==
  ASSUME NEW s, NEW t, NEW u, Grown(s, t), Grown(t, u)
  PROVE  Grown(s, u)
BY DEF Grown

(* One new item without a text.                                            *)
LEMMA AppendedOne ==
  ASSUME NEW s, List(s), NEW x, DOMAIN x = Fields, x.src = {}, x.sec # None => x.slot = None,
         x.par \in DOMAIN s \cup {None}
  PROVE  LET t == Appended(s, <<x>>) IN
         /\ DOMAIN t = DOMAIN s \cup {Fresh(s)} /\ t[Fresh(s)] = x
         /\ \A i \in DOMAIN s : t[i] = s[i]
         /\ List(t) /\ Grown(s, t)
<1> DEFINE t == Appended(s, <<x>>)
<1>1. Top(s) \in Nat /\ DOMAIN s \subseteq 1..Top(s) /\ Within(s, Top(s)) /\ Fresh(s) = Top(s) + 1
  BY TopOf DEF Within, Fresh
<1>2. t = [i \in DOMAIN s \cup {Top(s) + k : k \in DOMAIN <<x>>} |->
             IF i \in DOMAIN s THEN s[i] ELSE <<x>>[i - Top(s)]]
  BY DEF Appended, Each
<1>3. {Top(s) + k : k \in DOMAIN <<x>>} = {Fresh(s)}
  BY <1>1
<1>4. DOMAIN t = DOMAIN s \cup {Fresh(s)} /\ \A i \in DOMAIN s : t[i] = s[i]
  BY <1>2, <1>3
<1>5. t[Fresh(s)] = x
  BY <1>1, <1>2, <1>3
<1> HIDE DEF t
<1>6. Within(t, Top(s) + 1)
  BY <1>1, <1>4, <1>5 DEF Within
<1>7. List(t)
  BY <1>1, <1>4, <1>5, <1>6 DEF List, Numbered, Records, Clean
<1>8. QED
  BY <1>4, <1>5, <1>7 DEF Grown, t

(* An item is moved.                                                       *)
Hang(s, i, x) == [s EXCEPT ![i] = x]

(* Putting an item elsewhere is such a step.                               *)
LEMMA Moved ==
  ASSUME NEW s, List(s), NEW i \in DOMAIN s, NEW x, DOMAIN x = Fields,
         x.src = s[i].src, x.sec = s[i].sec, x.slot = s[i].slot,
         x.par \in DOMAIN s \cup {None},
         NEW t, t = Hang(s, i, x)
  PROVE  /\ DOMAIN t = DOMAIN s /\ t[i] = x /\ \A j \in DOMAIN s : j # i => t[j] = s[j]
         /\ List(t) /\ Grown(s, t)
<1>0. t = [s EXCEPT ![i] = x]
  BY DEF Hang
<1>1. DOMAIN t = DOMAIN s /\ t[i] = x /\ \A j \in DOMAIN s : j # i => t[j] = s[j]
  BY <1>0
<1>2. \A j \in DOMAIN s : /\ DOMAIN t[j] = Fields /\ t[j].src = s[j].src
                          /\ t[j].sec = s[j].sec /\ t[j].slot = s[j].slot
                          /\ t[j].par \in {None, s[j].par} \cup DOMAIN s
  BY <1>1 DEF List, Records
<1>3. Change(s, t)
  BY <1>1, <1>2 DEF Change, List, Clean
<1>4. QED
  BY <1>1, <1>2, <1>3, ChangedList DEF Grown

(* A list has finitely many items.                                         *)
LEMMA FiniteList ==
  ASSUME NEW s, List(s)
  PROVE  IsFiniteSet(DOMAIN s) /\ Cardinality(DOMAIN s) \in Nat
<1>1. Top(s) \in Int /\ 1 \in Int /\ DOMAIN s \subseteq 1..Top(s)
  BY TopOf
<1>2. IsFiniteSet(1..Top(s))
  BY <1>1, FS_Interval
<1>3. IsFiniteSet(DOMAIN s)
  BY <1>1, <1>2, FS_Subset
<1>4. QED
  BY <1>3, FS_CardinalityType

(* Ancestor finds what it looks for.                                       *)
LEMMA AncestorOf ==
  ASSUME NEW s, List(s), NEW i, NEW S, Ancestor(s, i, S) # None
  PROVE  Ancestor(s, i, S) \in S
<1> DEFINE up == Above(s, i)
           hits == {k \in DOMAIN up : k > 0 /\ up[k] \in S}
<1>1. DOMAIN up = 0..Cardinality(DOMAIN s)
  BY DEF Above, Each
<1> HIDE DEF up
<1>2. hits \in SUBSET Nat
  BY <1>1, FiniteList
<1>3. Ancestor(s, i, S) = IF hits = {} THEN None ELSE up[Least(hits)]
  BY DEF Ancestor, up
<1>4. hits # {}
  BY <1>3
<1>5. Least(hits) \in hits
  BY <1>2, <1>4, LeastOf
<1>6. QED
  BY <1>3, <1>4, <1>5

(* So does Nearest.                                                        *)
LEMMA NearestOf ==
  ASSUME NEW S \in SUBSET Nat, NEW i \in Nat, Nearest(S, i) # None
  PROVE  Nearest(S, i) \in S
<1>1. CASE \E j \in S : j <= i
  <2>0. \A j \in S : j \in Nat
    OBVIOUS
  <2>1. {j \in S : j <= i} \in SUBSET (0..i) /\ {j \in S : j <= i} # {}
    <3>1. \A j \in {r \in S : r <= i} : j \in 0..i
      BY <2>0
    <3>2. QED
      BY <1>1, <3>1
  <2>2. Greatest({j \in S : j <= i}) \in {j \in S : j <= i}
    BY <2>1, GreatestOf
  <2>3. QED
    BY <1>1, <2>2 DEF Nearest
<1>2. CASE ~\E j \in S : j <= i
  BY <1>2, LeastOf DEF Nearest, First
<1>3. QED
  BY <1>1, <1>2

(* A category is added when there is none, and it is no anchor.            *)
LEMMA WithSectionOf ==
  ASSUME NEW s, List(s), NEW sec, sec # None
  PROVE  LET t == WithSection(s, sec) IN
         /\ List(t) /\ Grown(s, t) /\ \A i \in DOMAIN s : t[i] = s[i]
         /\ \A i \in DOMAIN t \ DOMAIN s : t[i].slot = None /\ i = Fresh(s)
         /\ \A i \in DOMAIN s : s[i].par \notin DOMAIN t \ DOMAIN s
         /\ SectionItem(t, sec) \in DOMAIN t /\ t[SectionItem(t, sec)].slot = None
<1> DEFINE t == WithSection(s, sec)
           x == Item(Act, None, sec, None, {})
<1>1. CASE \E y \in All(s) : y.sec = sec
  <2>1. t = s
    BY <1>1 DEF WithSection
  <2>2. \E i \in DOMAIN s : s[i].sec = sec
    BY <1>1 DEF All
  <2>3. QED
    BY <2>1, <2>2, SectionItemOf DEF Grown, List, Clean
<1>2. CASE ~\E y \in All(s) : y.sec = sec
  <2>1. t = Appended(s, <<x>>)
    BY <1>2 DEF WithSection
  <2>2. /\ DOMAIN x = Fields /\ x.src = {} /\ x.slot = None /\ x.par = None /\ x.sec = sec
    BY MadeItem
  <2> HIDE DEF x, t
  <2>3. /\ DOMAIN t = DOMAIN s \cup {Fresh(s)} /\ t[Fresh(s)] = x
        /\ \A i \in DOMAIN s : t[i] = s[i]
        /\ List(t) /\ Grown(s, t)
    <3>1. x.par \in DOMAIN s \cup {None}
      BY <2>2
    <3>2. LET v == Appended(s, <<x>>) IN
          /\ DOMAIN v = DOMAIN s \cup {Fresh(s)} /\ v[Fresh(s)] = x
          /\ \A i \in DOMAIN s : v[i] = s[i]
          /\ List(v) /\ Grown(s, v)
      BY <2>2, <3>1, AppendedOne, Zenon
    <3>3. QED
      BY <2>1, <3>2
  <2>4. \E i \in DOMAIN t : t[i].sec = sec
    BY <2>2, <2>3
  <2>5. SectionItem(t, sec) \in DOMAIN t /\ t[SectionItem(t, sec)].sec = sec
    BY <2>3, <2>4, SectionItemOf
  <2>6. QED
    BY <1>2, <2>2, <2>3, <2>5, FreshOf DEF t, List, Clean
<1>3. QED
  BY <1>1, <1>2

(* The slots below an anchor.                                              *)
LEMMA LeafIs == Leaf = {"b1", "t1", "t2", "o1"} /\ Anchor \notin Leaf
<1>1. DOMAIN Template = {"basic", "trouble", "other"}
  BY DEF Template
<1>2. Template["basic"] = {"b1"} /\ Template["trouble"] = {"t1", "t2"} /\ Template["other"] = {"o1"}
  BY DEF Template
<1>3. QED
  BY <1>1, <1>2 DEF Leaf, Anchor

(* What the step of PlaceDirect makes of item i.                           *)
Good(s, i) == IsAnchor(s[i]) /\ s[i].par \in DOMAIN s => ~IsAnchor(s[s[i].par])

(* Placing an item of level 4 changes that item only, adds at most a       *)
(* category, and leaves no anchor below an anchor.                         *)
LEMMA PlaceDirectKeeps ==
  ASSUME NEW s, List(s), NEW i \in DOMAIN s, NEW t, t = PlaceDirect(s, i)
  PROVE  /\ List(t) /\ Grown(s, t) /\ Good(t, i)
         /\ \A j \in DOMAIN s : j # i => t[j] = s[j]
         /\ \A j \in DOMAIN t \ DOMAIN s : ~IsAnchor(t[j])
         /\ \A j \in DOMAIN s : s[j].par \notin DOMAIN t \ DOMAIN s
<1> DEFINE x == s[i]
           sec == SectionOf(x.slot)
           own == Ancestor(s, i, {j \in DOMAIN s : s[j].sec = sec})
           u == WithSection(s, sec)
           made == [u EXCEPT ![i] = Beneath(x, SectionItem(u, sec))]
           foreign == \/ x.par \in DOMAIN s /\ s[x.par].slot # None
                      \/ x.ref # None /\ ReportedAs(x.ref) \notin {None, sec}
<1>1. t = IF x.slot \notin {Anchor, "growth"} THEN s
          ELSE IF own # None THEN [s EXCEPT ![i] = Beneath(x, own)]
          ELSE IF Root(s, i) = Act THEN made
          ELSE IF ~foreign THEN s
          ELSE IF ReportedAs(reported) = sec THEN [s EXCEPT ![i] = Under(x, reported)]
          ELSE made
  BY DEF PlaceDirect
<1>2. sec # None /\ None # Anchor /\ None \notin DOMAIN s
  BY NoneAssumption DEF SectionOf, Anchor, List, Numbered, Within
<1>3. DOMAIN x = Fields
  BY DEF List, Records
<1>4. ASSUME own # None PROVE own \in DOMAIN s /\ s[own].slot = None
  <2>1. own \in {j \in DOMAIN s : s[j].sec = sec}
    BY <1>4, AncestorOf
  <2>2. QED
    BY <1>2, <2>1 DEF List, Clean
<1>5. /\ List(u) /\ Grown(s, u) /\ \A j \in DOMAIN s : u[j] = s[j]
      /\ \A j \in DOMAIN u \ DOMAIN s : u[j].slot = None
      /\ SectionItem(u, sec) \in DOMAIN u /\ u[SectionItem(u, sec)].slot = None
      /\ \A j \in DOMAIN s : s[j].par \notin DOMAIN u \ DOMAIN s
  BY <1>2, WithSectionOf
<1> HIDE DEF own, u, sec, foreign
<1>6. CASE t = s /\ (x.slot \notin {Anchor, "growth"} \/ ~foreign)
  <2>1. Grown(s, s)
    BY DEF Grown
  <2>2. Good(s, i)
    BY <1>2, <1>6 DEF Good, IsAnchor, foreign
  <2>3. QED
    BY <1>6, <2>1, <2>2
<1>7. CASE own # None /\ t = [s EXCEPT ![i] = Beneath(x, own)]
  <2> DEFINE y == Beneath(x, own)
  <2>1. DOMAIN y = Fields /\ y.src = x.src /\ y.sec = x.sec /\ y.slot = x.slot /\ y.par = own
    BY <1>3, MovedItem
  <2> HIDE DEF y
  <2>2. /\ DOMAIN t = DOMAIN s /\ t[i] = y /\ \A j \in DOMAIN s : j # i => t[j] = s[j]
        /\ List(t) /\ Grown(s, t)
    <3>1. t = Hang(s, i, y)
      BY <1>7 DEF y, Hang
    <3>2. y.par \in DOMAIN s \cup {None}
      BY <1>4, <1>7, <2>1
    <3>3. QED
      BY <2>1, <3>1, <3>2, Moved
  <2>3. Good(t, i)
    BY <1>2, <1>4, <1>7, <2>1, <2>2 DEF Good, IsAnchor, Grown
  <2>4. QED
    BY <2>2, <2>3
<1>8. CASE t = [s EXCEPT ![i] = Under(x, reported)]
  <2> DEFINE y == Under(x, reported)
  <2>1. DOMAIN y = Fields /\ y.src = x.src /\ y.sec = x.sec /\ y.slot = x.slot /\ y.par = None
    BY <1>3, MovedItem
  <2> HIDE DEF y
  <2>2. /\ DOMAIN t = DOMAIN s /\ t[i] = y /\ \A j \in DOMAIN s : j # i => t[j] = s[j]
        /\ List(t) /\ Grown(s, t)
    <3>1. t = Hang(s, i, y)
      BY <1>8 DEF y, Hang
    <3>2. QED
      BY <2>1, <3>1, Moved
  <2>3. Good(t, i)
    BY <1>2, <2>1, <2>2 DEF Good
  <2>4. QED
    BY <2>2, <2>3
<1>9. CASE t = made
  <2> DEFINE home == SectionItem(u, sec)
             y == Beneath(x, home)
  <2>1. i \in DOMAIN u /\ u[i] = x /\ home \in DOMAIN u /\ u[home].slot = None
    BY <1>5 DEF Grown
  <2>2. DOMAIN y = Fields /\ y.src = x.src /\ y.sec = x.sec /\ y.slot = x.slot /\ y.par = home
    BY <1>3, MovedItem
  <2> HIDE DEF home, y
  <2>3. t = Hang(u, i, y)
    BY <1>9 DEF home, y, Hang
  <2>4. /\ DOMAIN t = DOMAIN u /\ t[i] = y /\ \A j \in DOMAIN u : j # i => t[j] = u[j]
        /\ List(t) /\ Grown(u, t)
    <3>1. /\ y.src = u[i].src /\ y.sec = u[i].sec /\ y.slot = u[i].slot
          /\ y.par \in DOMAIN u \cup {None}
      BY <2>1, <2>2
    <3>2. List(u) /\ i \in DOMAIN u /\ DOMAIN y = Fields
      BY <1>5, <2>1, <2>2
    <3> HIDE DEF u
    <3>3. QED
      BY <2>3, <3>1, <3>2, Moved
  <2>5. Grown(s, t)
    BY <1>5, <2>4, GrownOn
  <2>6. \A j \in DOMAIN t \ DOMAIN s : ~IsAnchor(t[j])
    BY <1>2, <1>5, <2>4 DEF IsAnchor, Grown
  <2>7. Good(t, i)
    BY <1>2, <2>1, <2>2, <2>4 DEF Good, IsAnchor, Grown
  <2>8. \A j \in DOMAIN s : j # i => t[j] = s[j]
    BY <1>5, <2>4 DEF Grown
  <2>9. QED
    BY <1>5, <2>4, <2>5, <2>6, <2>7, <2>8
<1>10. QED
  BY <1>1, <1>6, <1>7, <1>8, <1>9 DEF own, u, sec, foreign
(* The step that hangs item i elsewhere leaves the other items alone, and  *)
(* a new item has a number that is nobody's.                               *)
OnlyItem(s, t, i) ==
  /\ List(t) /\ Grown(s, t)
  /\ \A j \in DOMAIN s : j # i => t[j] = s[j]

(* Moving an item that is no anchor.                                       *)
LEMMA FlatMoved ==
  ASSUME NEW s, List(s), Flat(s), NEW i \in DOMAIN s, ~IsAnchor(s[i]), NEW t, DOMAIN t = DOMAIN s,
         Grown(s, t), \A j \in DOMAIN s : j # i => t[j] = s[j]
  PROVE  Flat(t)
BY DEF Flat, Grown, IsAnchor

(* Adding an item that does not hang below an anchor.                      *)
LEMMA FlatAppended ==
  ASSUME NEW s, List(s), Flat(s), NEW t, DOMAIN t = DOMAIN s \cup {Fresh(s)},
         \A j \in DOMAIN s : t[j] = s[j],
         IsAnchor(t[Fresh(s)]) =>
           t[Fresh(s)].par \in DOMAIN s \cup {None} /\ (t[Fresh(s)].par # None => ~IsAnchor(s[t[Fresh(s)].par]))
  PROVE  Flat(t)
<1>1. Fresh(s) \notin DOMAIN s /\ (\A j \in DOMAIN s : s[j].par # Fresh(s)) /\ Fresh(s) # None
  BY FreshOf, NoneAssumption
<1>2. None \notin DOMAIN t
  BY FreshOf, NoneAssumption DEF List, Numbered, Within
<1>3. ASSUME NEW j \in DOMAIN t, IsAnchor(t[j]), t[j].par \in DOMAIN t PROVE ~IsAnchor(t[t[j].par])
  <2>1. CASE j = Fresh(s)
    BY <1>1, <1>2, <1>3, <2>1
  <2>2. CASE j \in DOMAIN s
    BY <1>1, <1>3, <2>2 DEF Flat
  <2>3. QED
    BY <2>1, <2>2
<1>4. QED
  BY <1>3 DEF Flat

(* Placing an item of level 5 changes that item only; an anchor made for   *)
(* it is below a category.                                                 *)
LEMMA PlaceLeafKeeps ==
  ASSUME NEW s, List(s), Flat(s), NEW i \in DOMAIN s, NEW t, t = PlaceLeaf(s, i)
  PROVE  OnlyItem(s, t, i) /\ Flat(t)
<1> DEFINE x == s[i]
           own == Ancestor(s, i, {j \in DOMAIN s : IsAnchor(s[j])})
           cat == Ancestor(s, i, {j \in DOMAIN s : s[j].sec = "episodes"})
           u == IF cat = None /\ Root(s, i) = Act THEN WithSection(s, "episodes") ELSE s
           home == IF cat = None /\ Root(s, i) = Act THEN SectionItem(u, "episodes") ELSE cat
           near == Nearest({j \in Kids(u, home) : IsAnchor(u[j])}, i)
           head == Item(None, home, None, Anchor, {})
           v == Appended(u, <<head>>)
<1>1. t = IF x.slot \notin Leaf THEN s
          ELSE IF own # None THEN [s EXCEPT ![i] = Beneath(x, own)]
          ELSE IF home = None THEN s
          ELSE IF near # None THEN [u EXCEPT ![i] = Beneath(x, near)]
          ELSE [v EXCEPT ![i] = Beneath(x, Fresh(u))]
  BY DEF PlaceLeaf
<1>2. "episodes" # None /\ None \notin DOMAIN s
  BY NoneAssumption DEF List, Numbered, Within
<1>3. DOMAIN x = Fields /\ (x.slot \in Leaf => ~IsAnchor(x))
  BY LeafIs DEF List, Records, IsAnchor
<1>4. own # None => own \in DOMAIN s
  <2>1. own # None => own \in {j \in DOMAIN s : IsAnchor(s[j])}
    BY AncestorOf
  <2>2. QED
    BY <2>1
<1>5. /\ List(u) /\ Grown(s, u) /\ \A j \in DOMAIN s : u[j] = s[j]
      /\ Flat(u) /\ (home # None => home \in DOMAIN u /\ ~IsAnchor(u[home]))
  <2>1. CASE cat = None /\ Root(s, i) = Act
    <3> DEFINE w == WithSection(s, "episodes")
    <3>1. u = w /\ home = SectionItem(w, "episodes")
      BY <2>1
    <3>2. /\ List(w) /\ Grown(s, w) /\ \A j \in DOMAIN s : w[j] = s[j]
          /\ \A j \in DOMAIN w \ DOMAIN s : w[j].slot = None
          /\ SectionItem(w, "episodes") \in DOMAIN w /\ w[SectionItem(w, "episodes")].slot = None
          /\ \A j \in DOMAIN s : s[j].par \notin DOMAIN w \ DOMAIN s
      BY <1>2, WithSectionOf
    <3> HIDE DEF w
    <3>3. Anchor # None
      BY NoneAssumption DEF Anchor
    <3>4. Flat(w)
      BY <3>2, <3>3 DEF Flat, IsAnchor, Grown
    <3>5. QED
      BY <3>1, <3>2, <3>3, <3>4 DEF IsAnchor
  <2>2. CASE ~(cat = None /\ Root(s, i) = Act)
    <3>1. u = s /\ home = cat
      BY <2>2
    <3>2. cat # None => cat \in {j \in DOMAIN s : s[j].sec = "episodes"}
      BY AncestorOf
    <3> HIDE DEF cat, u, home
    <3>3. cat # None => cat \in DOMAIN s /\ ~IsAnchor(s[cat])
      BY <1>2, <3>2, NoneAssumption DEF List, Clean, IsAnchor, Anchor
    <3>4. QED
      BY <3>1, <3>3 DEF Grown
  <2>3. QED
    BY <2>1, <2>2
<1>6. i \in DOMAIN u /\ u[i] = x /\ \A a : /\ DOMAIN Beneath(x, a) = Fields /\ Beneath(x, a).par = a
                                           /\ Beneath(x, a).src = x.src /\ Beneath(x, a).sec = x.sec
                                           /\ Beneath(x, a).slot = x.slot
  BY <1>3, <1>5, MovedItem DEF Grown
<1>7. near # None => near \in DOMAIN u
  <2>1. {j \in Kids(u, home) : IsAnchor(u[j])} \in SUBSET Nat /\ i \in Nat
    BY <1>5, <1>6 DEF Kids, List, Numbered, Within
  <2>2. near # None => near \in {j \in Kids(u, home) : IsAnchor(u[j])}
    BY <2>1, NearestOf
  <2>3. QED
    BY <2>2 DEF Kids
<1>8. CASE t = s
  BY <1>8 DEF Grown, OnlyItem
<1>9. CASE x.slot \in Leaf /\ own # None /\ t = [s EXCEPT ![i] = Beneath(x, own)]
  <2> DEFINE y == Beneath(x, own)
  <2> HIDE DEF own
  <2>1. DOMAIN y = Fields /\ y.src = x.src /\ y.sec = x.sec /\ y.slot = x.slot /\ y.par = own
    BY <1>6
  <2>2. t = Hang(s, i, y)
    BY <1>9 DEF Hang
  <2> HIDE DEF y
  <2>3. y.par \in DOMAIN s \cup {None}
    BY <1>4, <1>9, <2>1
  <2>4. /\ DOMAIN t = DOMAIN s /\ \A j \in DOMAIN s : j # i => t[j] = s[j]
        /\ List(t) /\ Grown(s, t)
    BY <2>1, <2>2, <2>3, Moved
  <2>5. Flat(t)
    BY <1>3, <1>9, <2>4, FlatMoved
  <2>6. QED
    BY <2>4, <2>5 DEF OnlyItem
<1>10. CASE x.slot \in Leaf /\ near # None /\ t = [u EXCEPT ![i] = Beneath(x, near)]
  <2> DEFINE y == Beneath(x, near)
  <2> HIDE DEF near, u
  <2>1. DOMAIN y = Fields /\ y.src = u[i].src /\ y.sec = u[i].sec /\ y.slot = u[i].slot /\ y.par = near
    BY <1>6
  <2>2. t = Hang(u, i, y)
    BY <1>10 DEF Hang
  <2> HIDE DEF y
  <2>3. y.par \in DOMAIN u \cup {None}
    BY <1>7, <1>10, <2>1
  <2>4. /\ DOMAIN t = DOMAIN u /\ \A j \in DOMAIN u : j # i => t[j] = u[j]
        /\ List(t) /\ Grown(u, t)
    BY <1>5, <1>6, <2>1, <2>2, <2>3, Moved
  <2>5. Flat(t)
    BY <1>3, <1>5, <1>6, <1>10, <2>4, FlatMoved
  <2>6. Grown(s, t)
    BY <1>5, <2>4, GrownOn
  <2>7. \A j \in DOMAIN s : j # i => t[j] = s[j]
    BY <1>5, <2>4 DEF Grown
  <2>8. QED
    BY <2>4, <2>5, <2>6, <2>7 DEF OnlyItem
<1>11. CASE x.slot \in Leaf /\ home # None /\ t = [v EXCEPT ![i] = Beneath(x, Fresh(u))]
  <2> DEFINE y == Beneath(x, Fresh(u))
  <2>1. /\ DOMAIN head = Fields /\ head.src = {} /\ head.sec = None /\ head.par = home
    BY MadeItem
  <2> HIDE DEF u, head, home
  <2>2. head.par \in DOMAIN u \cup {None}
    BY <1>5, <1>11, <2>1
  <2>3. LET w == Appended(u, <<head>>) IN
        /\ DOMAIN w = DOMAIN u \cup {Fresh(u)} /\ w[Fresh(u)] = head
        /\ \A j \in DOMAIN u : w[j] = u[j]
        /\ List(w) /\ Grown(u, w)
    BY <1>5, <2>1, <2>2, AppendedOne, Zenon
  <2>4. /\ DOMAIN v = DOMAIN u \cup {Fresh(u)} /\ v[Fresh(u)] = head
        /\ \A j \in DOMAIN u : v[j] = u[j]
        /\ List(v) /\ Grown(u, v)
    BY <2>3
  <2> HIDE DEF v
  <2>5. Flat(v)
    BY <1>5, <1>11, <2>1, <2>2, <2>4, FlatAppended
  <2>6. DOMAIN y = Fields /\ y.src = v[i].src /\ y.sec = v[i].sec /\ y.slot = v[i].slot /\ y.par = Fresh(u)
    BY <1>6, <2>4
  <2>7. t = Hang(v, i, y)
    BY <1>11 DEF Hang
  <2> HIDE DEF y
  <2>8. y.par \in DOMAIN v \cup {None} /\ i \in DOMAIN v
    BY <1>6, <2>4, <2>6
  <2>9. /\ DOMAIN t = DOMAIN v /\ \A j \in DOMAIN v : j # i => t[j] = v[j]
        /\ List(t) /\ Grown(v, t)
    BY <2>4, <2>6, <2>7, <2>8, Moved
  <2>10. Flat(t)
    <3>1. ~IsAnchor(v[i])
      BY <1>3, <1>6, <1>11, <2>4 DEF IsAnchor
    <3>2. QED
      BY <2>4, <2>5, <2>8, <2>9, <3>1, FlatMoved
  <2>11. Grown(s, t)
    BY <1>5, <2>4, <2>9, GrownOn
  <2>12. \A j \in DOMAIN s : j # i => t[j] = s[j]
    BY <1>5, <2>4, <2>9 DEF Grown
  <2>13. QED
    BY <2>9, <2>10, <2>11, <2>12 DEF OnlyItem
<1> HIDE DEF own, u, home, near, v
<1>12. QED
  BY <1>1, <1>8, <1>9, <1>10, <1>11

(* So does adopting one that hangs below a block; an anchor made for it    *)
(* is below that block.                                                    *)
LEMMA AdoptOrphanKeeps ==
  ASSUME NEW s, List(s), NEW t, List(t), Flat(t), Grown(s, t), NEW i \in DOMAIN s, t[i] = s[i],
         NEW u, u = AdoptOrphan(s, t, i)
  PROVE  OnlyItem(t, u, i) /\ Flat(u)
<1> DEFINE x == s[i]
           block == Root(s, i)
           orphan == /\ x.slot \in Leaf /\ block # None
                     /\ Ancestor(s, i, {j \in DOMAIN s : IsAnchor(s[j])}) = None
                     /\ block # continued /\ tree[block].level # 4
           near == Nearest({j \in DOMAIN s : IsAnchor(s[j]) /\ Root(s, j) = block}, i)
           new == First({j \in DOMAIN t \ DOMAIN s : t[j].ref = block})
           head == Item(block, None, None, Anchor, {})
           v == Appended(t, <<head>>)
<1>1. u = IF ~orphan THEN t
          ELSE IF continued # None /\ tree[continued].up = block
          THEN [t EXCEPT ![i] = Under(x, continued)]
          ELSE IF near # None THEN [t EXCEPT ![i] = Beneath(x, near)]
          ELSE IF new # None THEN [t EXCEPT ![i] = Beneath(x, new)]
          ELSE [v EXCEPT ![i] = Beneath(x, Fresh(t))]
  BY DEF AdoptOrphan
<1>2. DOMAIN x = Fields /\ x = t[i] /\ i \in DOMAIN t /\ (x.slot \in Leaf => ~IsAnchor(x))
  BY LeafIs DEF List, Records, IsAnchor, Grown
<1>3. ~orphan \/ x.slot \in Leaf
  OBVIOUS
<1>4. \A a : /\ DOMAIN Beneath(x, a) = Fields /\ Beneath(x, a).par = a
             /\ Beneath(x, a).src = x.src /\ Beneath(x, a).sec = x.sec
             /\ Beneath(x, a).slot = x.slot
             /\ DOMAIN Under(x, a) = Fields /\ Under(x, a).par = None
             /\ Under(x, a).src = x.src /\ Under(x, a).sec = x.sec
             /\ Under(x, a).slot = x.slot
  BY <1>2, MovedItem
<1>5. near # None => near \in DOMAIN t
  <2>1. {j \in DOMAIN s : IsAnchor(s[j]) /\ Root(s, j) = block} \in SUBSET Nat /\ i \in Nat
    BY DEF List, Numbered, Within
  <2>2. near # None => near \in {j \in DOMAIN s : IsAnchor(s[j]) /\ Root(s, j) = block}
    BY <2>1, NearestOf
  <2>3. QED
    BY <2>2 DEF Grown
<1>6. new # None => new \in DOMAIN t
  <2>1. {j \in DOMAIN t \ DOMAIN s : t[j].ref = block} \in SUBSET Nat
    BY DEF List, Numbered, Within
  <2>2. QED
    BY <2>1, LeastOf DEF First
<1>7. ASSUME NEW y, x.slot \in Leaf, u = Hang(t, i, y), DOMAIN y = Fields,
             y.src = x.src, y.sec = x.sec, y.slot = x.slot, y.par \in DOMAIN t \cup {None}
      PROVE  OnlyItem(t, u, i) /\ Flat(u)
  <2>1. y.src = t[i].src /\ y.sec = t[i].sec /\ y.slot = t[i].slot
    BY <1>2, <1>7
  <2>2. /\ DOMAIN u = DOMAIN t /\ \A j \in DOMAIN t : j # i => u[j] = t[j]
        /\ List(u) /\ Grown(t, u)
    BY <1>2, <1>7, <2>1, Moved
  <2>3. Flat(u)
    BY <1>2, <1>7, <2>2, FlatMoved
  <2>4. QED
    BY <2>2, <2>3 DEF OnlyItem
<1>8. CASE u = t
  BY <1>8 DEF Grown, OnlyItem
<1>9. CASE x.slot \in Leaf /\ u = Hang(t, i, Under(x, continued))
  BY <1>4, <1>7, <1>9
<1>10. CASE x.slot \in Leaf /\ near # None /\ u = Hang(t, i, Beneath(x, near))
  <2> DEFINE y == Beneath(x, near)
  <2> HIDE DEF near
  <2>1. DOMAIN y = Fields /\ y.src = x.src /\ y.sec = x.sec /\ y.slot = x.slot /\ y.par = near
    BY <1>4
  <2>2. u = Hang(t, i, y)
    BY <1>10
  <2> HIDE DEF y
  <2>3. QED
    BY <1>5, <1>7, <1>10, <2>1, <2>2
<1>11. CASE x.slot \in Leaf /\ new # None /\ u = Hang(t, i, Beneath(x, new))
  <2> DEFINE y == Beneath(x, new)
  <2> HIDE DEF new
  <2>1. DOMAIN y = Fields /\ y.src = x.src /\ y.sec = x.sec /\ y.slot = x.slot /\ y.par = new
    BY <1>4
  <2>2. u = Hang(t, i, y)
    BY <1>11
  <2> HIDE DEF y
  <2>3. QED
    BY <1>6, <1>7, <1>11, <2>1, <2>2
<1>12. CASE x.slot \in Leaf /\ u = [v EXCEPT ![i] = Beneath(x, Fresh(t))]
  <2> DEFINE y == Beneath(x, Fresh(t))
  <2>1. /\ DOMAIN head = Fields /\ head.src = {} /\ head.sec = None /\ head.par = None
    BY MadeItem
  <2> HIDE DEF head, block
  <2>2. head.par \in DOMAIN t \cup {None}
    BY <2>1
  <2>3. LET w == Appended(t, <<head>>) IN
        /\ DOMAIN w = DOMAIN t \cup {Fresh(t)} /\ w[Fresh(t)] = head
        /\ \A j \in DOMAIN t : w[j] = t[j]
        /\ List(w) /\ Grown(t, w)
    BY <2>1, <2>2, AppendedOne, Zenon
  <2>4. /\ DOMAIN v = DOMAIN t \cup {Fresh(t)} /\ v[Fresh(t)] = head
        /\ \A j \in DOMAIN t : v[j] = t[j]
        /\ List(v) /\ Grown(t, v)
    BY <2>3
  <2> HIDE DEF v
  <2>5. Flat(v)
    BY <2>1, <2>2, <2>4, FlatAppended
  <2>6. DOMAIN y = Fields /\ y.src = v[i].src /\ y.sec = v[i].sec /\ y.slot = v[i].slot /\ y.par = Fresh(t)
    BY <1>2, <1>4, <2>4
  <2>7. u = Hang(v, i, y)
    BY <1>12 DEF Hang
  <2> HIDE DEF y
  <2>8. y.par \in DOMAIN v \cup {None} /\ i \in DOMAIN v
    BY <1>2, <2>4, <2>6
  <2>9. /\ DOMAIN u = DOMAIN v /\ \A j \in DOMAIN v : j # i => u[j] = v[j]
        /\ List(u) /\ Grown(v, u)
    BY <2>4, <2>6, <2>7, <2>8, Moved
  <2>10. Flat(u)
    BY <1>2, <1>12, <2>4, <2>5, <2>8, <2>9, FlatMoved
  <2>11. Grown(t, u)
    BY <2>4, <2>9, GrownOn
  <2>12. \A j \in DOMAIN t : j # i => u[j] = t[j]
    BY <2>4, <2>9
  <2>13. QED
    BY <2>9, <2>10, <2>11, <2>12 DEF OnlyItem
<1> HIDE DEF orphan, near, new, v, block
<1>13. QED
  BY <1>1, <1>3, <1>8, <1>9, <1>10, <1>11, <1>12 DEF Hang
(* What Blocks places, and in which order.                                 *)
Untitled == OneTemplate(TitlesKept(Grouped))
Filed == TitleCut(WithTitle(Untitled))
KeyOrder == SetToSeq({Filed[l].key : l \in DOMAIN Filed})

(* Rules that go through the items in their order: the list after k of     *)
(* them.  Such a list exists, for what it is after one more number follows *)
(* from what it is before; of the numbers up to which there is none the    *)
(* smallest could not be the smallest.                                     *)
Rule(w, s, t, i) ==
  IF w = "line" THEN IF i \in Placing THEN Put(t, i) ELSE t
  ELSE IF w = "key" THEN PlaceKey(t, Filed, KeyOrder[i], Opened(Untitled, KeyOrder[i]))
  ELSE IF i \notin DOMAIN s THEN t
  ELSE IF w = "direct" THEN PlaceDirect(t, i)
  ELSE IF w = "leaf" THEN PlaceLeaf(t, i) ELSE AdoptOrphan(s, t, i)

RunOf(w, s, n, f) == f = [k \in 0..n |-> IF k = 0 THEN s ELSE Rule(w, s, f[k - 1], k)]

(* There is a function that satisfies the recursive definition: the one    *)
(* defined up to n - 1 is extended by one number, and a least n for        *)
(* which there were none would have a predecessor.                         *)
LEMMA RunExists ==
  ASSUME NEW w, NEW s, NEW n \in Nat
  PROVE  \E f : RunOf(w, s, n, f)
<1> DEFINE Run(f, m) == RunOf(w, s, m, f)
           B == {m \in Nat : ~\E f : Run(f, m)}
<1>1. SUFFICES ASSUME B # {} PROVE FALSE
  OBVIOUS
<1>2. PICK m \in B : \A r \in B : m <= r
  BY <1>1, LeastOf
<1>3. m \in Nat /\ ~\E f : Run(f, m)
  BY <1>2
<1>4. m # 0
  <2>1. Run([k \in 0..0 |-> s], 0)
    BY DEF RunOf
  <2>2. QED
    BY <1>3, <2>1
<1>5. m - 1 \in Nat /\ m - 1 \notin B
  <2> HIDE DEF B
  <2>1. QED
    BY <1>2, <1>3, <1>4
<1>6. PICK f : Run(f, m - 1)
  BY <1>5
<1> DEFINE g == [k \in 0..m |-> IF k = 0 THEN s ELSE Rule(w, s, f[k - 1], k)]
<1>7. \A k \in 0..m : k # 0 => k - 1 \in 0..(m - 1) /\ k - 1 \in 0..m
  BY <1>3
<1>8. \A k \in 0..(m - 1) : k \in 0..m /\ g[k] = f[k]
  BY <1>3, <1>6 DEF RunOf
<1>9. Run(g, m)
  BY <1>7, <1>8 DEF RunOf
<1>10. QED
  BY <1>3, <1>9

(* PlaceDirects, step by step.                                             *)
LEMMA PlaceDirectsRun ==
  ASSUME NEW s, List(s)
  PROVE  \E f : /\ PlaceDirects(s) = f[Top(s)] /\ f[0] = s
                /\ \A k \in 1..Top(s) : f[k] = IF k \in DOMAIN s THEN PlaceDirect(f[k - 1], k) ELSE f[k - 1]
<1> DEFINE run[k \in 0..Top(s)] ==
             IF k = 0 THEN s ELSE IF k \in DOMAIN s THEN PlaceDirect(run[k - 1], k) ELSE run[k - 1]
           Run(f) == f = [k \in 0..Top(s) |->
             IF k = 0 THEN s ELSE IF k \in DOMAIN s THEN PlaceDirect(f[k - 1], k) ELSE f[k - 1]]
<1>1. Top(s) \in Nat
  BY TopOf
<1>2. PlaceDirects(s) = run[Top(s)]
  BY DEF PlaceDirects
<1>3. PICK f : RunOf("direct", s, Top(s), f)
  BY <1>1, RunExists, Zenon
<1>4. \A k : Rule("direct", s, f[k - 1], k) = IF k \in DOMAIN s THEN PlaceDirect(f[k - 1], k) ELSE f[k - 1]
  BY DEF Rule
<1>5. Run(f)
  BY <1>3, <1>4 DEF RunOf
<1>6. run = CHOOSE h : Run(h)
  OBVIOUS
<1> HIDE DEF run
<1>7. Run(run)
  <2> HIDE DEF Run
  <2>1. QED
    BY <1>5, <1>6
<1>8. run[0] = s
  BY <1>1, <1>7
<1>9. \A k \in 1..Top(s) : run[k] = IF k \in DOMAIN s THEN PlaceDirect(run[k - 1], k) ELSE run[k - 1]
  BY <1>1, <1>7
<1>10. QED
  BY <1>2, <1>8, <1>9

(* PlaceLeaves, step by step.                                              *)
LEMMA PlaceLeavesRun ==
  ASSUME NEW s, List(s)
  PROVE  \E f : /\ PlaceLeaves(s) = f[Top(s)] /\ f[0] = s
                /\ \A k \in 1..Top(s) : f[k] = IF k \in DOMAIN s THEN PlaceLeaf(f[k - 1], k) ELSE f[k - 1]
<1> DEFINE run[k \in 0..Top(s)] ==
             IF k = 0 THEN s ELSE IF k \in DOMAIN s THEN PlaceLeaf(run[k - 1], k) ELSE run[k - 1]
           Run(f) == f = [k \in 0..Top(s) |->
             IF k = 0 THEN s ELSE IF k \in DOMAIN s THEN PlaceLeaf(f[k - 1], k) ELSE f[k - 1]]
<1>1. Top(s) \in Nat
  BY TopOf
<1>2. PlaceLeaves(s) = run[Top(s)]
  BY DEF PlaceLeaves
<1>3. PICK f : RunOf("leaf", s, Top(s), f)
  BY <1>1, RunExists, Zenon
<1>4. \A k : Rule("leaf", s, f[k - 1], k) = IF k \in DOMAIN s THEN PlaceLeaf(f[k - 1], k) ELSE f[k - 1]
  BY DEF Rule
<1>5. Run(f)
  BY <1>3, <1>4 DEF RunOf
<1>6. run = CHOOSE h : Run(h)
  OBVIOUS
<1> HIDE DEF run
<1>7. Run(run)
  <2> HIDE DEF Run
  <2>1. QED
    BY <1>5, <1>6
<1>8. run[0] = s
  BY <1>1, <1>7
<1>9. \A k \in 1..Top(s) : run[k] = IF k \in DOMAIN s THEN PlaceLeaf(run[k - 1], k) ELSE run[k - 1]
  BY <1>1, <1>7
<1>10. QED
  BY <1>2, <1>8, <1>9

(* AdoptOrphans, step by step.                                             *)
LEMMA AdoptOrphansRun ==
  ASSUME NEW s, List(s)
  PROVE  \E f : /\ AdoptOrphans(s) = f[Top(s)] /\ f[0] = s
                /\ \A k \in 1..Top(s) : f[k] = IF k \in DOMAIN s THEN AdoptOrphan(s, f[k - 1], k) ELSE f[k - 1]
<1> DEFINE run[k \in 0..Top(s)] ==
             IF k = 0 THEN s ELSE IF k \in DOMAIN s THEN AdoptOrphan(s, run[k - 1], k) ELSE run[k - 1]
           Run(f) == f = [k \in 0..Top(s) |->
             IF k = 0 THEN s ELSE IF k \in DOMAIN s THEN AdoptOrphan(s, f[k - 1], k) ELSE f[k - 1]]
<1>1. Top(s) \in Nat
  BY TopOf
<1>2. AdoptOrphans(s) = run[Top(s)]
  BY DEF AdoptOrphans
<1>3. PICK f : RunOf("orphan", s, Top(s), f)
  BY <1>1, RunExists, Zenon
<1>4. \A k : Rule("orphan", s, f[k - 1], k) = IF k \in DOMAIN s THEN AdoptOrphan(s, f[k - 1], k) ELSE f[k - 1]
  BY DEF Rule
<1>5. Run(f)
  BY <1>3, <1>4 DEF RunOf
<1>6. run = CHOOSE h : Run(h)
  OBVIOUS
<1> HIDE DEF run
<1>7. Run(run)
  <2> HIDE DEF Run
  <2>1. QED
    BY <1>5, <1>6
<1>8. run[0] = s
  BY <1>1, <1>7
<1>9. \A k \in 1..Top(s) : run[k] = IF k \in DOMAIN s THEN AdoptOrphan(s, run[k - 1], k) ELSE run[k - 1]
  BY <1>1, <1>7
<1>10. QED
  BY <1>2, <1>8, <1>9

(* After k items: the list has grown, the items behind them are where they *)
(* were, and the anchors up to the k-th one, the new ones too, do not hang *)
(* below an anchor.                                                        *)
Going(s, t, k) ==
  /\ List(t) /\ Grown(s, t)
  /\ \A j \in DOMAIN s : j > k => t[j] = s[j]

(* One item further.                                                       *)
LEMMA GoingOn ==
  ASSUME NEW s, List(s), NEW k \in Nat \ {0}, NEW t, NEW u, Going(s, t, k - 1),
         (u = t /\ k \notin DOMAIN s) \/ OnlyItem(t, u, k)
  PROVE  Going(s, u, k)
<1>1. \A j \in DOMAIN s : j \in Int
  BY DEF List, Numbered, Within
<1>2. \A j \in DOMAIN s : j > k => j > k - 1 /\ j # k
  BY <1>1
<1>3. \A j \in DOMAIN s : j > k => u[j] = t[j]
  BY <1>2 DEF OnlyItem, Going, Grown
<1>4. List(u) /\ Grown(s, u)
  BY GrownOn DEF OnlyItem, Going
<1>5. QED
  BY <1>2, <1>3, <1>4 DEF Going

(* After item k of PlaceDirects: none of the items so far is an anchor     *)
(* below an anchor, nor is any item it added.                              *)
Settled(s, t, k) ==
  /\ \A j \in DOMAIN s : j <= k => Good(t, j)
  /\ \A j \in DOMAIN t \ DOMAIN s : ~IsAnchor(t[j])

(* All of PlaceDirects, by the least number after which Going or Settled   *)
(* would fail. Afterwards no anchor is below an anchor, whatever the       *)
(* answer said.                                                            *)
LEMMA PlaceDirectsKeeps ==
  ASSUME NEW s, List(s)
  PROVE  /\ List(PlaceDirects(s)) /\ Flat(PlaceDirects(s))
         /\ Placed(PlaceDirects(s)) = Placed(s)
<1>1. PICK f : /\ PlaceDirects(s) = f[Top(s)] /\ f[0] = s
               /\ \A k \in 1..Top(s) : f[k] = IF k \in DOMAIN s THEN PlaceDirect(f[k - 1], k) ELSE f[k - 1]
  BY PlaceDirectsRun
<1> DEFINE Ok(k) == Going(s, f[k], k) /\ Settled(s, f[k], k)
           B == {m \in 0..Top(s) : ~Ok(m)}
<1>2. Top(s) \in Nat /\ DOMAIN s \subseteq 1..Top(s)
  BY TopOf
<1>3. Ok(0)
  BY <1>1, <1>2 DEF Going, Settled, Grown
<1>4. ASSUME NEW k \in 1..Top(s), Ok(k - 1) PROVE Ok(k)
  <2> DEFINE t == f[k - 1]
             u == f[k]
  <2>1. CASE k \notin DOMAIN s
    <3>1. u = t
      BY <1>1, <2>1
    <3>2. Going(s, u, k)
      BY <1>4, <2>1, <3>1, GoingOn
    <3>3. \A j \in DOMAIN s : j <= k => j <= k - 1
      BY <1>2, <2>1
    <3>4. QED
      BY <1>4, <3>1, <3>2, <3>3 DEF Settled
  <2>2. CASE k \in DOMAIN s
    <3>1. u = PlaceDirect(t, k)
      BY <1>1, <2>2
    <3>2. List(t) /\ k \in DOMAIN t /\ Grown(s, t)
      BY <1>4, <2>2 DEF Going, Grown
    <3> HIDE DEF t, u
    <3>3. /\ List(u) /\ Grown(t, u) /\ Good(u, k)
          /\ \A j \in DOMAIN t : j # k => u[j] = t[j]
          /\ \A j \in DOMAIN u \ DOMAIN t : ~IsAnchor(u[j])
          /\ \A j \in DOMAIN t : t[j].par \notin DOMAIN u \ DOMAIN t
      BY <3>1, <3>2, PlaceDirectKeeps
    <3>4. Going(s, u, k)
      BY <1>4, <3>3, GoingOn DEF OnlyItem, t
    <3>5. ASSUME NEW j \in DOMAIN s, j <= k PROVE Good(u, j)
      <4>1. CASE j = k
        BY <3>3, <4>1
      <4>2. CASE j # k
        <5>1. j <= k - 1
          BY <1>2, <3>5, <4>2
        <5>2. Good(t, j)
          BY <1>4, <5>1 DEF Settled, t
        <5>3. u[j] = t[j] /\ j \in DOMAIN t
          BY <3>2, <3>3, <4>2 DEF Grown
        <5>4. QED
          BY <3>3, <5>2, <5>3 DEF Good, Grown, IsAnchor
      <4>3. QED
        BY <4>1, <4>2
    <3>6. ASSUME NEW j \in DOMAIN u \ DOMAIN s PROVE ~IsAnchor(u[j])
      <4>1. CASE j \in DOMAIN t
        <5>1. ~IsAnchor(t[j])
          BY <1>4, <4>1 DEF Settled, t
        <5>2. QED
          BY <3>3, <4>1, <5>1 DEF Grown, IsAnchor
      <4>2. QED
        BY <3>3, <4>1
    <3>7. QED
      BY <3>4, <3>5, <3>6 DEF Settled, u
  <2>3. QED
    BY <2>1, <2>2
<1> HIDE DEF Ok
<1>5. B = {}
  <2>1. SUFFICES ASSUME B # {} PROVE FALSE
    OBVIOUS
  <2>2. B \in SUBSET Nat
    OBVIOUS
  <2>3. PICK m \in B : \A r \in B : m <= r
    BY <2>1, <2>2, LeastOf
  <2>4. m # 0 /\ m \in 0..Top(s) /\ ~Ok(m)
    BY <1>3, <2>3
  <2>5. m \in 1..Top(s) /\ m - 1 \in 0..Top(s) /\ ~(m <= m - 1)
    BY <1>2, <2>4
  <2>6. Ok(m - 1)
    BY <2>3, <2>5
  <2>7. QED
    BY <1>4, <2>4, <2>5, <2>6
<1>6. Ok(Top(s))
  BY <1>2, <1>5
<1>7. List(PlaceDirects(s)) /\ Grown(s, PlaceDirects(s))
  BY <1>1, <1>6 DEF Ok, Going
<1>8. Flat(PlaceDirects(s))
  <2>1. \A j \in DOMAIN s : j <= Top(s)
    BY <1>2
  <2>2. QED
    BY <1>1, <1>6, <2>1 DEF Ok, Settled, Flat, Good
<1>9. QED
  BY <1>7, <1>8, GrownPlaced

(* All of PlaceLeaves, in the same way.                                    *)
LEMMA PlaceLeavesKeeps ==
  ASSUME NEW s, List(s), Flat(s)
  PROVE  /\ List(PlaceLeaves(s)) /\ Flat(PlaceLeaves(s))
         /\ Placed(PlaceLeaves(s)) = Placed(s)
<1>1. PICK f : /\ PlaceLeaves(s) = f[Top(s)] /\ f[0] = s
               /\ \A k \in 1..Top(s) : f[k] = IF k \in DOMAIN s THEN PlaceLeaf(f[k - 1], k) ELSE f[k - 1]
  BY PlaceLeavesRun
<1> DEFINE Ok(k) == Going(s, f[k], k) /\ Flat(f[k])
           B == {m \in 0..Top(s) : ~Ok(m)}
<1>2. Top(s) \in Nat /\ DOMAIN s \subseteq 1..Top(s)
  BY TopOf
<1>3. Ok(0)
  BY <1>1, <1>2 DEF Going, Grown
<1>4. ASSUME NEW k \in 1..Top(s), Ok(k - 1) PROVE Ok(k)
  <2> DEFINE t == f[k - 1]
             u == f[k]
  <2>1. CASE k \notin DOMAIN s
    <3>1. u = t
      BY <1>1, <2>1
    <3>2. Going(s, u, k)
      BY <1>4, <2>1, <3>1, GoingOn
    <3>3. QED
      BY <1>4, <3>1, <3>2
  <2>2. CASE k \in DOMAIN s
    <3>1. u = PlaceLeaf(t, k)
      BY <1>1, <2>2
    <3>2. List(t) /\ Flat(t) /\ k \in DOMAIN t
      BY <1>4, <2>2 DEF Going, Grown
    <3> HIDE DEF t, u
    <3>3. OnlyItem(t, u, k) /\ Flat(u)
      BY <3>1, <3>2, PlaceLeafKeeps
    <3>4. Going(s, u, k)
      BY <1>4, <3>3, GoingOn DEF t
    <3>5. QED
      BY <3>3, <3>4 DEF u
  <2>3. QED
    BY <2>1, <2>2
<1> HIDE DEF Ok
<1>5. B = {}
  <2>1. SUFFICES ASSUME B # {} PROVE FALSE
    OBVIOUS
  <2>2. B \in SUBSET Nat
    OBVIOUS
  <2>3. PICK m \in B : \A r \in B : m <= r
    BY <2>1, <2>2, LeastOf
  <2>4. m # 0 /\ m \in 0..Top(s) /\ ~Ok(m)
    BY <1>3, <2>3
  <2>5. m \in 1..Top(s) /\ m - 1 \in 0..Top(s) /\ ~(m <= m - 1)
    BY <1>2, <2>4
  <2>6. Ok(m - 1)
    BY <2>3, <2>5
  <2>7. QED
    BY <1>4, <2>4, <2>5, <2>6
<1>6. Ok(Top(s))
  BY <1>2, <1>5
<1>7. QED
  BY <1>1, <1>6, GrownPlaced DEF Ok, Going

(* All of AdoptOrphans.                                                    *)
LEMMA AdoptOrphansKeeps ==
  ASSUME NEW s, List(s), Flat(s)
  PROVE  /\ List(AdoptOrphans(s)) /\ Flat(AdoptOrphans(s))
         /\ Placed(AdoptOrphans(s)) = Placed(s)
<1>1. PICK f : /\ AdoptOrphans(s) = f[Top(s)] /\ f[0] = s
               /\ \A k \in 1..Top(s) : f[k] = IF k \in DOMAIN s THEN AdoptOrphan(s, f[k - 1], k) ELSE f[k - 1]
  BY AdoptOrphansRun
<1> DEFINE Ok(k) == Going(s, f[k], k) /\ Flat(f[k])
           B == {m \in 0..Top(s) : ~Ok(m)}
<1>2. Top(s) \in Nat /\ DOMAIN s \subseteq 1..Top(s)
  BY TopOf
<1>3. Ok(0)
  BY <1>1, <1>2 DEF Going, Grown
<1>4. ASSUME NEW k \in 1..Top(s), Ok(k - 1) PROVE Ok(k)
  <2> DEFINE t == f[k - 1]
             u == f[k]
  <2>1. CASE k \notin DOMAIN s
    <3>1. u = t
      BY <1>1, <2>1
    <3>2. Going(s, u, k)
      BY <1>4, <2>1, <3>1, GoingOn
    <3>3. QED
      BY <1>4, <3>1, <3>2
  <2>2. CASE k \in DOMAIN s
    <3>1. u = AdoptOrphan(s, t, k)
      BY <1>1, <2>2
    <3>2. List(t) /\ Flat(t) /\ Grown(s, t) /\ t[k] = s[k]
      BY <1>4, <2>2 DEF Going
    <3> HIDE DEF t, u
    <3>3. OnlyItem(t, u, k) /\ Flat(u)
      BY <2>2, <3>1, <3>2, AdoptOrphanKeeps
    <3>4. Going(s, u, k)
      BY <1>4, <3>3, GoingOn DEF t
    <3>5. QED
      BY <3>3, <3>4 DEF u
  <2>3. QED
    BY <2>1, <2>2
<1> HIDE DEF Ok
<1>5. B = {}
  <2>1. SUFFICES ASSUME B # {} PROVE FALSE
    OBVIOUS
  <2>2. B \in SUBSET Nat
    OBVIOUS
  <2>3. PICK m \in B : \A r \in B : m <= r
    BY <2>1, <2>2, LeastOf
  <2>4. m # 0 /\ m \in 0..Top(s) /\ ~Ok(m)
    BY <1>3, <2>3
  <2>5. m \in 1..Top(s) /\ m - 1 \in 0..Top(s) /\ ~(m <= m - 1)
    BY <1>2, <2>4
  <2>6. Ok(m - 1)
    BY <2>3, <2>5
  <2>7. QED
    BY <1>4, <2>4, <2>5, <2>6
<1>6. Ok(Top(s))
  BY <1>2, <1>5
<1>7. QED
  BY <1>1, <1>6, GrownPlaced DEF Ok, Going

(* Both passes of the code's normalisation.                                *)
LEMMA NormalizeKeeps ==
  ASSUME NEW s, List(s)
  PROVE  Same(s, NormalizeHierarchy(s)) /\ Flat(NormalizeHierarchy(s))
BY PlaceDirectsKeeps, PlaceLeavesKeeps DEF NormalizeHierarchy, Same

-----------------------------------------------------------------------------
(* The answer, the repair, and all rules together.                         *)

(* Before its first rule a list may hold categories that are anchors too.  *)
Room(s) ==
  \A i \in DOMAIN s : s[i].sec # None /\ (s[i].slot # None \/ HasText(s[i])) => i + 1 \notin DOMAIN s

(* Splitting an item that is a category and an anchor gives its text to    *)
(* the anchor: the result is a list also when the answer was none.         *)
LEMMA SplitMergedKeeps ==
  ASSUME NEW s, Numbered(s), Records(s), Room(s)
  PROVE  List(SplitMerged(s)) /\ Placed(SplitMerged(s)) = Placed(s)
<1> DEFINE whole == {i \in DOMAIN s : s[i].sec # None /\ (s[i].slot # None \/ HasText(s[i]))}
           rest(i) == IF i \in whole THEN [s[i] EXCEPT !.slot = None, !.src = {}]
                      ELSE IF s[i].par \in whole THEN Beneath(s[i], s[i].par + 1) ELSE s[i]
           part(i) == IF i \in DOMAIN s THEN rest(i)
                      ELSE Item(None, i - 1, None, s[i - 1].slot, s[i - 1].src)
           t == SplitMerged(s)
<1>1. t = [i \in DOMAIN s \cup {j + 1 : j \in whole} |-> part(i)]
  BY DEF SplitMerged, Each
<1>2. PICK n \in Nat : Within(s, n)
  BY DEF Numbered
<1>3. \A j \in whole : j \in DOMAIN s /\ j \in 1..n /\ j + 1 \notin DOMAIN s /\ j + 1 - 1 = j
  BY <1>2 DEF Within, Room
<1>4. DOMAIN t = DOMAIN s \cup {j + 1 : j \in whole}
  BY <1>1
<1>5. ASSUME NEW i \in DOMAIN s
      PROVE  /\ i \in DOMAIN t /\ DOMAIN t[i] = Fields /\ t[i].sec = s[i].sec
             /\ t[i].src = IF i \in whole THEN {} ELSE s[i].src
             /\ t[i].par \in 0..(n + 1) \cup {None}
             /\ t[i].sec # None => t[i].slot = None /\ t[i].src = {}
  <2>1. DOMAIN s[i] = Fields /\ s[i].par \in 0..n \cup {None}
    BY <1>2 DEF Records, Within
  <2>2. t[i] = rest(i) /\ i \in DOMAIN t
    BY <1>1, <1>4
  <2> HIDE DEF t
  <2>3. CASE i \in whole
    <3>1. t[i] = [s[i] EXCEPT !.slot = None, !.src = {}]
      BY <2>2, <2>3
    <3> HIDE DEF whole
    <3>2. QED
      BY <1>2, <2>1, <2>2, <2>3, <3>1 DEF Fields
  <2>4. CASE i \notin whole /\ s[i].par \in whole
    <3>1. t[i] = Beneath(s[i], s[i].par + 1)
      BY <2>2, <2>4
    <3>2. s[i].par + 1 \in 0..(n + 1)
      BY <1>2, <1>3, <2>4
    <3>3. QED
      BY <2>1, <2>2, <2>4, <3>1, <3>2, MovedItem DEF HasText
  <2>5. CASE i \notin whole /\ s[i].par \notin whole
    <3>1. t[i] = s[i]
      BY <2>2, <2>5
    <3>2. QED
      BY <1>2, <2>1, <2>2, <2>5, <3>1 DEF HasText
  <2>6. QED
    BY <2>3, <2>4, <2>5
<1>6. ASSUME NEW j \in whole
      PROVE  /\ j + 1 \in DOMAIN t /\ DOMAIN t[j + 1] = Fields /\ t[j + 1].sec = None
             /\ t[j + 1].src = s[j].src /\ t[j + 1].par \in 0..(n + 1) \cup {None}
  <2>1. j + 1 \in DOMAIN t /\ j + 1 \notin DOMAIN s /\ j + 1 - 1 = j /\ j \in 0..(n + 1)
    BY <1>2, <1>3, <1>4
  <2>2. t[j + 1] = Item(None, j, None, s[j].slot, s[j].src)
    <3>1. t[j + 1] = part(j + 1)
      <4> HIDE DEF part, whole
      <4>1. QED
        BY <1>1, <2>1
    <3>2. part(j + 1) = Item(None, j + 1 - 1, None, s[j + 1 - 1].slot, s[j + 1 - 1].src)
      BY <2>1
    <3> HIDE DEF t, whole, part
    <3>3. QED
      BY <2>1, <3>1, <3>2
  <2> HIDE DEF t, whole
  <2>3. QED
    BY <2>1, <2>2, MadeItem
<1>7. \A i \in DOMAIN t : i \in DOMAIN s \/ \E j \in whole : i = j + 1
  BY <1>4
<1>8. Within(t, n + 1)
  <2>1. \A i \in DOMAIN t : i \in 1..(n + 1)
    BY <1>2, <1>3, <1>7 DEF Within
  <2>2. \A i \in DOMAIN t : t[i].par \in 0..(n + 1) \cup {None}
    BY <1>5, <1>6, <1>7
  <2>3. QED
    BY <2>1, <2>2 DEF Within
<1>9. List(t)
  <2>1. n + 1 \in Nat
    BY <1>2
  <2>2. Records(t) /\ Clean(t)
    <3> HIDE DEF t, whole
    <3>1. QED
      BY <1>5, <1>6, <1>7 DEF Records, Clean
  <2>3. QED
    BY <1>8, <2>1, <2>2 DEF List, Numbered
<1>10. ASSUME NEW q PROVE q \in Placed(t) <=> q \in Placed(s)
  <2> HIDE DEF t
  <2>1. ASSUME NEW i \in DOMAIN t, q \in t[i].src PROVE \E j \in DOMAIN s : q \in s[j].src
    <3>1. CASE i \in DOMAIN s
      BY <1>5, <2>1, <3>1
    <3>2. CASE \E j \in whole : i = j + 1
      <4> PICK j \in whole : i = j + 1
        BY <3>2
      <4>1. QED
        BY <1>3, <1>6, <2>1
    <3>3. QED
      BY <1>7, <3>1, <3>2
  <2>2. ASSUME NEW i \in DOMAIN s, q \in s[i].src PROVE \E j \in DOMAIN t : q \in t[j].src
    <3> HIDE DEF whole
    <3>1. QED
      BY <1>5, <1>6, <2>2
  <2>3. QED
    BY <2>1, <2>2, PlacedIs
<1>11. QED
  BY <1>9, <1>10

(* The sequence of a finite set.                                           *)
LEMMA SetToSeqOf ==
  ASSUME NEW S, IsFiniteSet(S)
  PROVE  /\ Cardinality(S) \in Nat
         /\ \A k \in 1..Cardinality(S) : SetToSeq(S)[k] \in S
         /\ \A x \in S : \E k \in 1..Cardinality(S) : SetToSeq(S)[k] = x
         /\ DOMAIN SetToSeq(S) = 1..Cardinality(S) /\ Len(SetToSeq(S)) = Cardinality(S)
         /\ \A j, k \in 1..Cardinality(S) : SetToSeq(S)[j] = SetToSeq(S)[k] => j = k
<1> DEFINE n == Cardinality(S)
<1>1. n \in Nat
  BY FS_CardinalityType
<1>2. IsFiniteSet(1..n) /\ Cardinality(1..n) = n
  <2>1. n \in Int /\ 1 \in Int
    BY <1>1
  <2>2. IsFiniteSet(1..n) /\ Cardinality(1..n) = IF 1 > n THEN 0 ELSE n - 1 + 1
    BY <2>1, FS_Interval
  <2>3. (IF 1 > n THEN 0 ELSE n - 1 + 1) = n
    BY <1>1
  <2>4. QED
    BY <2>2, <2>3
<1> HIDE DEF n
<1>3. ExistsBijection(1..n, S)
  BY <1>2, FS_SameCardinalityBij DEF n
<1>4. PICK f : f \in Bijection(1..n, S)
  BY <1>3 DEF ExistsBijection
<1>5. f \in [1..n -> S] /\ IsInjective(f)
  BY <1>4 DEF Bijection, Injection
<1>6. SetToSeq(S) \in [1..n -> S] /\ IsInjective(SetToSeq(S))
  <2>1. SetToSeq(S) = CHOOSE g \in [1..n -> S] : IsInjective(g)
    BY DEF SetToSeq, n
  <2>2. QED
    BY <1>5, <2>1
<1>7. SetToSeq(S) \in Injection(1..n, S)
  BY <1>6 DEF Injection
<1>8. SetToSeq(S) \in Surjection(1..n, S)
  BY <1>2, <1>7, FS_Injection DEF n
<1>9. \A j, k \in 1..n : SetToSeq(S)[j] = SetToSeq(S)[k] => j = k
  BY <1>6 DEF IsInjective
<1>10. Len(SetToSeq(S)) = n
  <2>1. PICK q : q = SetToSeq(S)
    OBVIOUS
  <2>2. q \in Seq(S) /\ DOMAIN q = 1..n
    BY <1>1, <1>6, <2>1
  <2>3. Len(q) \in Nat /\ DOMAIN q = 1..Len(q)
    BY <2>2
  <2>4. QED
    BY <1>1, <2>1, <2>2, <2>3
<1>11. QED
  BY <1>1, <1>6, <1>8, <1>9, <1>10 DEF Surjection, n

(* An anchor that holds pieces of several headings is split by heading:    *)
(* each piece goes to exactly one of the new anchors.                      *)
LEMMA SeparateGroupsKeeps ==
  ASSUME NEW s, List(s)
  PROVE  Same(s, SeparateGroups(s))
<1> DEFINE anchors == {i \in DOMAIN s : s[i].act = "add" /\ IsAnchor(s[i])}
           voiced(i) == {j \in Kids(s, i) : LabelOf(s[j].src) # None}
           name(i) == IF LabelOf(s[i].src) # None THEN LabelOf(s[i].src)
                      ELSE IF voiced(i) = {} THEN None ELSE LabelOf(s[Least(voiced(i))].src)
           place(i) == <<s[i].par, LabelOf(s[i].src)>>
           D == {i \in DOMAIN s : /\ s[i].par \in anchors
                                  /\ place(i)[2] \notin {None, name(s[i].par)}}
           strays == {place(j) : j \in D}
           order == SetToSeq(strays)
           n == Cardinality(strays)
           back(i) == IF i = None THEN None ELSE i + n
           new(k) == LET x == s[order[k][1]] IN Item(x.ref, back(x.par), None, x.slot, {})
           move(i) == IF place(i) \in strays
                      THEN Beneath(s[i], CHOOSE k \in 1..n : order[k] = place(i))
                      ELSE [s[i] EXCEPT !.par = back(@)]
           t == SeparateGroups(s)
<1>1. t = [i \in 1..n \cup {j + n : j \in DOMAIN s} |-> IF i <= n THEN new(i) ELSE move(i - n)]
  BY DEF SeparateGroups, Each
<1>2. PICK m \in Nat : Within(s, m)
  BY DEF List, Numbered
<1>3. IsFiniteSet(strays)
  <2>1. IsFiniteSet(D)
    BY FiniteList, FS_Subset
  <2> HIDE DEF D
  <2>2. [i \in D |-> place(i)] \in Surjection(D, strays)
    BY DEF Surjection
  <2>3. QED
    BY <2>1, <2>2, FS_Surjection
<1>4. \A p \in strays : p[1] \in DOMAIN s
  <2>1. \A i \in D : s[i].par \in DOMAIN s
    OBVIOUS
  <2> HIDE DEF D
  <2>2. \A p \in strays : \E i \in D : p[1] = s[i].par
    OBVIOUS
  <2>3. QED
    BY <2>1, <2>2
<1> HIDE DEF strays
<1>5. /\ n \in Nat
      /\ \A k \in 1..n : order[k] \in strays
      /\ \A x \in strays : \E k \in 1..n : order[k] = x
  BY <1>3, SetToSeqOf
<1> HIDE DEF n, order
<1>6. DOMAIN t = 1..n \cup {j + n : j \in DOMAIN s}
  BY <1>1
<1>7. \A i \in DOMAIN s : i \in 1..m /\ s[i].par \in 0..m \cup {None} /\ DOMAIN s[i] = Fields
  BY <1>2 DEF Within, List, Records
<1>8. \A i \in DOMAIN s : back(s[i].par) \in 0..(m + n) \cup {None}
  BY <1>2, <1>5, <1>7
<1>9. ASSUME NEW k \in 1..n
      PROVE  /\ DOMAIN t[k] = Fields /\ t[k].par \in 0..(m + n) \cup {None} /\ t[k].sec = None
             /\ t[k].src = {}
  <2>1. t[k] = new(k)
    BY <1>1, <1>5
  <2>2. order[k][1] \in DOMAIN s
    BY <1>4, <1>5
  <2> DEFINE x == s[order[k][1]]
  <2>3. t[k] = Item(x.ref, back(x.par), None, x.slot, {})
    BY <2>1
  <2>4. back(x.par) \in 0..(m + n) \cup {None}
    BY <1>8, <2>2
  <2> HIDE DEF x, t, back
  <2>5. QED
    BY <2>3, <2>4, MadeItem
<1>10. ASSUME NEW i \in DOMAIN s
       PROVE  /\ i + n \in DOMAIN t
              /\ DOMAIN t[i + n] = Fields /\ t[i + n].par \in 0..(m + n) \cup {None}
              /\ t[i + n].sec = s[i].sec /\ t[i + n].slot = s[i].slot /\ t[i + n].src = s[i].src
  <2>1. i + n \in DOMAIN t /\ ~(i + n <= n) /\ i + n - n = i
    BY <1>5, <1>6, <1>7
  <2>2. t[i + n] = move(i)
    <3> DEFINE k == i + n
    <3>1. k \in 1..n \cup {j + n : j \in DOMAIN s} /\ ~(k <= n) /\ k - n = i
      BY <1>5, <1>7
    <3> HIDE DEF k, new, t, place
    <3>2. t[k] = IF k <= n THEN new(k) ELSE move(k - n)
      BY <1>1, <3>1
    <3>3. t[k] = move(i)
      BY <3>1, <3>2
    <3>4. QED
      BY <3>3 DEF k
  <2> HIDE DEF t, back
  <2>3. CASE place(i) \in strays
    <3> DEFINE c == CHOOSE k \in 1..n : order[k] = place(i)
    <3>1. \E k \in 1..n : order[k] = place(i)
      BY <1>5, <2>3
    <3>2. c \in 1..n
      BY <3>1
    <3>3. t[i + n] = Beneath(s[i], c)
      BY <2>2, <2>3
    <3> HIDE DEF c
    <3>4. c \in 0..(m + n)
      BY <1>2, <1>5, <3>2
    <3>5. QED
      BY <1>7, <2>1, <3>3, <3>4, MovedItem
  <2>4. CASE place(i) \notin strays
    <3>1. t[i + n] = [s[i] EXCEPT !.par = back(@)]
      BY <2>2, <2>4
    <3>2. QED
      BY <1>7, <1>8, <2>1, <3>1 DEF Fields
  <2>5. QED
    BY <2>3, <2>4
<1>11. \A i \in DOMAIN t : i \in 1..n \/ \E j \in DOMAIN s : i = j + n
  BY <1>6
<1> HIDE DEF t
<1>12. Within(t, m + n) /\ m + n \in Nat
  <2>1. \A i \in DOMAIN t : i \in 1..(m + n)
    BY <1>2, <1>5, <1>7, <1>11
  <2>2. \A i \in DOMAIN t : t[i].par \in 0..(m + n) \cup {None}
    BY <1>9, <1>10, <1>11
  <2>3. QED
    BY <1>2, <1>5, <2>1, <2>2 DEF Within
<1>13. Records(t) /\ Clean(t)
  BY <1>9, <1>10, <1>11 DEF Records, Clean, List
<1>14. ASSUME NEW q PROVE q \in Placed(t) <=> q \in Placed(s)
  BY <1>9, <1>10, <1>11, PlacedIs
<1>15. Placed(t) = Placed(s)
  BY <1>14
<1>16. QED
  BY <1>12, <1>13, <1>15 DEF Same, List, Numbered, t

(* The number an item gets says how many items there are up to it.         *)
LEMMA RankOf ==
  ASSUME NEW s, List(s), NEW i \in DOMAIN s
  PROVE  LET rank(j) == Cardinality({k \in DOMAIN s : k <= j}) IN
         /\ rank(i) \in 1..Cardinality(DOMAIN s)
         /\ \A j \in DOMAIN s : rank(i) = rank(j) => i = j
<1> DEFINE upTo(j) == {k \in DOMAIN s : k <= j}
<1>1. IsFiniteSet(DOMAIN s) /\ Cardinality(DOMAIN s) \in Nat
  BY FiniteList
<1>2. \A j \in DOMAIN s : j \in Int
  BY DEF List, Numbered, Within
<1>3. \A j \in DOMAIN s : /\ IsFiniteSet(upTo(j)) /\ Cardinality(upTo(j)) \in Nat
                          /\ Cardinality(upTo(j)) <= Cardinality(DOMAIN s)
  BY <1>1, FS_Subset, FS_CardinalityType
<1>4. i \in upTo(i)
  BY <1>2
<1>5. Cardinality(upTo(i)) # 0
  BY <1>3, <1>4, FS_EmptySet
<1>6. ASSUME NEW j \in DOMAIN s, NEW k \in DOMAIN s, j < k
      PROVE  Cardinality(upTo(j)) # Cardinality(upTo(k))
  <2>1. upTo(j) \in SUBSET upTo(k) /\ k \in upTo(k) /\ k \notin upTo(j)
    BY <1>2, <1>6
  <2>2. upTo(j) # upTo(k)
    BY <2>1
  <2> HIDE DEF upTo
  <2>3. QED
    BY <1>3, <2>1, <2>2, FS_Subset
<1>7. \A j \in DOMAIN s : Cardinality(upTo(i)) = Cardinality(upTo(j)) => i = j
  <2>1. \A j \in DOMAIN s : i = j \/ i < j \/ j < i
    BY <1>2
  <2> HIDE DEF upTo
  <2>2. QED
    BY <1>6, <2>1
<1> HIDE DEF upTo
<1>8. Cardinality(upTo(i)) \in 1..Cardinality(DOMAIN s)
  BY <1>1, <1>3, <1>5
<1>9. QED
  BY <1>7, <1>8 DEF upTo

(* Numbering the items anew loses none.                                    *)
LEMMA RenamedKeeps ==
  ASSUME NEW s, List(s)
  PROVE  Same(s, Renamed(s))
<1> DEFINE rank(i) == Cardinality({j \in DOMAIN s : j <= i})
           parent(i) == IF i = None THEN None ELSE IF i \in DOMAIN s THEN rank(i) ELSE 0
           renamed(x) == [x EXCEPT !.par = parent(@)]
           at(k) == CHOOSE i \in DOMAIN s : rank(i) = k
           n == Cardinality(DOMAIN s)
           t == Renamed(s)
<1>1. t = [k \in {rank(i) : i \in DOMAIN s} |-> renamed(s[at(k)])]
  BY DEF Renamed, Each
<1>2. \A i \in DOMAIN s : rank(i) \in 1..n /\ \A j \in DOMAIN s : rank(i) = rank(j) => i = j
  BY RankOf
<1>3. n \in Nat
  BY FiniteList
<1>4. DOMAIN t = {rank(i) : i \in DOMAIN s}
  BY <1>1
<1> HIDE DEF rank, n
<1>5. \A i \in DOMAIN s : at(rank(i)) = i
  BY <1>2
<1> HIDE DEF at
<1>6. ASSUME NEW i \in DOMAIN s
      PROVE  /\ DOMAIN t[rank(i)] = Fields /\ t[rank(i)].par \in 0..n \cup {None}
             /\ t[rank(i)].sec = s[i].sec /\ t[rank(i)].slot = s[i].slot
             /\ t[rank(i)].src = s[i].src
  <2>1. t[rank(i)] = renamed(s[i])
    BY <1>1, <1>5
  <2>2. DOMAIN s[i] = Fields
    BY DEF List, Records
  <2>3. parent(s[i].par) \in 0..n \cup {None}
    BY <1>2, <1>3
  <2> HIDE DEF parent, t
  <2>4. QED
    BY <2>1, <2>2, <2>3 DEF Fields
<1>7. \A k \in DOMAIN t : \E i \in DOMAIN s : k = rank(i)
  BY <1>4
<1>8. \A i \in DOMAIN s : rank(i) \in DOMAIN t
  BY <1>4
<1> HIDE DEF t
<1>9. Within(t, n)
  BY <1>2, <1>6, <1>7 DEF Within
<1>10. Records(t) /\ Clean(t)
  BY <1>6, <1>7 DEF Records, Clean, List
<1>11. \A q : q \in Placed(t) <=> q \in Placed(s)
  BY <1>6, <1>7, <1>8, PlacedIs
<1>12. Placed(t) = Placed(s)
  BY <1>11
<1>13. QED
  BY <1>3, <1>9, <1>10, <1>12 DEF Same, List, Numbered, t

(* All rules in the code's order: of what an answer and the items before   *)
(* it hold, exactly the pieces nobody knows are lost.                      *)
LEMMA FixedKeeps ==
  ASSUME NEW s, Numbered(s), Records(s), Room(s), NEW known, NEW earlier
  PROVE  /\ List(Fixed(s, known, earlier))
         /\ Placed(Fixed(s, known, earlier)) = Placed(s) \cap known
<1> DEFINE a == KnownSources(FoldSummary(OfficialSlots(SplitMerged(s))), known)
           slots == AlignLearning(AlignTroubleshooting(ApplyHints(a)))
           merged == DropJunk(MergeSlots(MergeSections(slots)))
           b == NormalizeHierarchy(Reroute(SectionsUnderActivity(merged)))
           placed == MergeIntoCategories(b)
           c == Reroute(AdoptOrphans(placed))
           episodes == MergeAnchors(ContinueEpisode(c), earlier)
           d == CollapseTemplates(ReuseAnchor(episodes))
           templates == PruneTemplates(DedupeAnchor(MergeSlots(d)))
           result == MergeIntoCategories(SeparateGroups(FillEmptySlots(templates)))
<1>1. Fixed(s, known, earlier) = result
  BY DEF Fixed
<1>2. List(a) /\ Placed(a) = Placed(s) \cap known
  <2>1. List(SplitMerged(s)) /\ Placed(SplitMerged(s)) = Placed(s)
    BY SplitMergedKeeps
  <2>2. /\ List(OfficialSlots(SplitMerged(s)))
        /\ Placed(OfficialSlots(SplitMerged(s))) = Placed(s)
    BY <2>1, OfficialSlotsKeeps
  <2>3. /\ List(FoldSummary(OfficialSlots(SplitMerged(s))))
        /\ Placed(FoldSummary(OfficialSlots(SplitMerged(s)))) = Placed(s)
    BY <2>2, FoldSummaryKeeps
  <2>4. QED
    BY <2>3, KnownSourcesKeeps
<1> HIDE DEF a
<1>3. Same(a, slots)
  BY <1>2, ApplyHintsKeeps, AlignTroubleshootingKeeps, AlignLearningKeeps DEF Same
<1> HIDE DEF slots
<1>4. Same(slots, merged)
  BY <1>3, MergeSectionsKeeps, MergeSlotsKeeps, DropJunkKeeps DEF Same
<1> HIDE DEF merged
<1>5. Same(merged, b) /\ Flat(b)
  BY <1>4, SectionsUnderActivityKeeps, RerouteKeeps, NormalizeKeeps DEF Same
<1> HIDE DEF b
<1>6. Same(b, placed) /\ Flat(placed)
  BY <1>5, MergeIntoCategoriesKeeps DEF Same
<1> HIDE DEF placed
<1>7. Same(placed, c) /\ Flat(c)
  BY <1>6, AdoptOrphansKeeps, RerouteKeeps, RerouteFlat DEF Same
<1> HIDE DEF c
<1>8. Same(c, episodes) /\ Flat(episodes)
  BY <1>7, ContinueEpisodeKeeps, MergeAnchorsKeeps DEF Same
<1> HIDE DEF episodes
<1>9. Same(episodes, d) /\ Flat(d)
  BY <1>8, ReuseAnchorKeeps, CollapseTemplatesKeeps DEF Same
<1> HIDE DEF d
<1>10. Same(d, templates)
  BY <1>9, MergeSlotsKeeps, MergeSlotsFlat, DedupeAnchorKeeps, PruneTemplatesKeeps DEF Same
<1> HIDE DEF templates
<1>11. Same(templates, result)
  BY <1>10, FillEmptySlotsKeeps, SeparateGroupsKeeps, MergeIntoCategoriesKeeps DEF Same
<1> HIDE DEF result
<1>12. QED
  BY <1>1, <1>2, <1>3, <1>4, <1>5, <1>6, <1>7, <1>8, <1>9, <1>10, <1>11 DEF Same

(* A repair takes away exactly what it asks for.                           *)
LEMMA ClearedKeeps ==
  ASSUME NEW s, List(s), NEW S
  PROVE  List(Cleared(s, S)) /\ Placed(Cleared(s, S)) = Placed(s) \ S
<1> DEFINE t == Cleared(s, S)
<1>1. t = [i \in DOMAIN s |-> [s[i] EXCEPT !.src = @ \ S]]
  BY DEF Cleared, Each
<1>2. DOMAIN t = DOMAIN s
  BY <1>1
<1>3. \A i \in DOMAIN s : /\ DOMAIN t[i] = Fields /\ t[i].src = s[i].src \ S
                          /\ t[i].par = s[i].par /\ t[i].sec = s[i].sec /\ t[i].slot = s[i].slot
  BY <1>1 DEF List, Records, Fields
<1> HIDE DEF t
<1>4. Change(s, t)
  BY <1>2, <1>3 DEF Change, List, Clean
<1>5. \A q : q \in Placed(t) <=> q \in Placed(s) \ S
  BY <1>2, <1>3, PlacedIs
<1>6. Placed(t) = Placed(s) \ S
  BY <1>5
<1>7. QED
  BY <1>4, <1>6, ChangedList DEF t

(* It asks for pieces of the batch, and for all of the given ones.         *)
LEMMA SpreadOf ==
  ASSUME NEW s, NEW S \in SUBSET Batch(batch)
  PROVE  S \subseteq Spread(s, S) /\ Spread(s, S) \subseteq Batch(batch)
BY DEF Spread

(* An answer adds items to those there are, with numbers of their own.     *)
LEMMA AnsweredKeeps ==
  ASSUME List(items), NEW u, NEW v, NEW w, NEW uses \in SUBSET {u, v, w}, NEW home,
         NEW old \in DOMAIN items \cup {None}
  PROVE  LET t == Answered(uses, home, old) IN
         Numbered(t) /\ Records(t) /\ Room(t) /\ Placed(items) \subseteq Placed(t)
<1> DEFINE n == Top(items)
           at(shape) == {x[2] : x \in {y \in uses : y[1] = shape}}
           heads == {x \in Shape : x.slot = Anchor /\ x.at = "new"}
           text == UNION {at(shape) : shape \in heads}
           S == {x[1] : x \in uses} \ heads
           shapes == SetToSeq(S)
           head == IF home = "merged" THEN n + 1 ELSE n + 2
           own == IF \A x \in uses : x[1].at # "new" THEN {}
                  ELSE IF home = "section" THEN {n + 1, n + 2} ELSE {head}
           category == Item(Act, None, "episodes", IF home = "merged" THEN Anchor ELSE None,
                            IF home = "merged" THEN text ELSE {})
           anchor == IF home = "section" THEN Item(None, n + 1, None, Anchor, text)
                     ELSE Item(home, None, None, Anchor, text)
           other(shape) ==
             IF shape.at \in {"new", "old"}
             THEN Item(None, IF shape.at = "new" THEN head ELSE old, None, shape.slot, at(shape))
             ELSE Item(IF shape.at \in Alias THEN shape.at ELSE Act, None, None, shape.slot, at(shape))
           item(i) == IF i \in DOMAIN items THEN items[i]
                      ELSE IF i = n + 1 THEN category ELSE IF i = n + 2 THEN anchor ELSE other(shapes[i - n - 2])
           t == Answered(uses, home, old)
           c == Cardinality(S)
           m == n + 2 + c
<1>1. t = [i \in DOMAIN items \cup own \cup {n + 2 + k : k \in DOMAIN shapes} |-> item(i)]
  BY DEF Answered, Each
<1>2. /\ n \in Nat /\ DOMAIN items \subseteq 1..n
      /\ \A i \in DOMAIN items : items[i].par \in 0..n \cup {None}
  BY TopOf
<1>3. IsFiniteSet(S)
  <2>1. IsFiniteSet({u[1]} \cup {v[1]} \cup {w[1]})
    <3>1. IsFiniteSet({u[1]})
      BY FS_Singleton
    <3>2. IsFiniteSet({u[1]} \cup {v[1]})
      BY <3>1, FS_AddElement
    <3>3. QED
      BY <3>2, FS_AddElement
  <2>2. S \in SUBSET ({u[1]} \cup {v[1]} \cup {w[1]})
    OBVIOUS
  <2>3. QED
    BY <2>1, <2>2, FS_Subset
<1>4. c \in Nat /\ DOMAIN shapes = 1..c
  BY <1>3, SetToSeqOf
<1>5. own \subseteq {n + 1, n + 2} /\ (n + 1 \in own /\ n + 2 \in own => home = "section")
      /\ (home = "merged" => n + 2 \notin own) /\ (n + 1 \in own => home = "merged" \/ home = "section")
  BY <1>2
<1> HIDE DEF n, S, shapes, c, own, text, at
<1>6. head \in 0..m /\ n + 1 \in 0..m /\ old \in 0..m \cup {None}
  BY <1>2, <1>4
<1>7. DOMAIN t = DOMAIN items \cup own \cup {n + 2 + k : k \in 1..c}
  BY <1>1, <1>4
<1>8. \A i \in DOMAIN t : /\ t[i] = item(i) /\ i \in 1..m
                          /\ (i \in DOMAIN items \/ i \in own \/ i > n + 2)
  <2>1. \A i \in DOMAIN t : t[i] = item(i)
    <3> HIDE DEF item
    <3>1. QED
      BY <1>1
  <2> HIDE DEF item, t
  <2>2. \A k \in 1..c : n + 2 + k \in 1..m /\ n + 2 + k > n + 2
    BY <1>2, <1>4
  <2>3. n + 1 \in 1..m /\ n + 2 \in 1..m /\ \A i \in 1..n : i \in 1..m
    BY <1>2, <1>4
  <2> HIDE DEF m
  <2>4. QED
    BY <1>2, <1>5, <1>7, <2>1, <2>2, <2>3
<1>9. /\ DOMAIN category = Fields /\ category.par = None
      /\ (home # "merged" => category.slot = None /\ category.src = {})
  BY MadeItem
<1>10. DOMAIN anchor = Fields /\ anchor.sec = None /\ anchor.par \in {n + 1, None}
  BY MadeItem
<1>11. \A x : DOMAIN other(x) = Fields /\ other(x).sec = None /\ other(x).par \in {head, old, None}
  BY MadeItem
<1> HIDE DEF category, anchor, other, head, t, m
<1>12. ASSUME NEW i \in DOMAIN t
       PROVE  /\ DOMAIN t[i] = Fields /\ t[i].par \in 0..m \cup {None}
              /\ i \in DOMAIN items => t[i] = items[i]
              /\ i \notin DOMAIN items => i > n /\ (i # n + 1 => t[i].sec = None)
              /\ i \notin DOMAIN items /\ i = n + 1 => t[i] = category
  <2>1. CASE i \in DOMAIN items
    <3>1. t[i] = items[i]
      BY <1>8, <2>1
    <3>2. 0..n \subseteq 0..m
      BY <1>2, <1>4 DEF m
    <3>3. QED
      BY <1>2, <2>1, <3>1, <3>2 DEF List, Records
  <2>2. CASE i \notin DOMAIN items
    <3>1. i > n
      BY <1>2, <1>5, <1>8, <2>2
    <3>2. CASE i = n + 1
      <4>1. t[i] = category
        BY <1>8, <2>2, <3>2
      <4>2. QED
        BY <1>9, <2>2, <3>1, <3>2, <4>1
    <3>3. CASE i = n + 2
      <4>1. t[i] = anchor /\ i # n + 1
        BY <1>2, <1>8, <2>2, <3>3
      <4>2. QED
        BY <1>6, <1>10, <2>2, <3>1, <4>1
    <3>4. CASE i # n + 1 /\ i # n + 2
      <4>1. t[i] = other(shapes[i - n - 2])
        BY <1>8, <2>2, <3>4
      <4>2. QED
        BY <1>6, <1>11, <2>2, <3>1, <3>4, <4>1
    <3>5. QED
      BY <3>2, <3>3, <3>4
  <2>3. QED
    BY <2>1, <2>2
<1>13. Within(t, m) /\ m \in Nat
  BY <1>2, <1>4, <1>8, <1>12 DEF Within, m
<1>14. Records(t)
  BY <1>12 DEF Records
<1>15. Room(t)
  <2>1. SUFFICES ASSUME NEW i \in DOMAIN t, t[i].sec # None, t[i].slot # None \/ HasText(t[i])
                 PROVE  i + 1 \notin DOMAIN t
    BY DEF Room
  <2>2. i \notin DOMAIN items
    BY <1>12, <2>1 DEF List, Clean, HasText
  <2>3. i = n + 1 /\ t[i] = category
    BY <1>12, <2>1, <2>2
  <2>4. home = "merged"
    BY <1>9, <2>1, <2>3 DEF HasText
  <2>5. n + 2 \notin own /\ n + 2 \notin DOMAIN items
    BY <1>2, <1>5, <2>4
  <2>6. i + 1 = n + 2 /\ ~(n + 2 > n + 2)
    BY <1>2, <2>3
  <2>7. QED
    BY <1>8, <2>5, <2>6
<1>16. Placed(items) \subseteq Placed(t)
  <2>1. \A i \in DOMAIN items : i \in DOMAIN t
    BY <1>7
  <2>2. \A q : q \in Placed(items) => q \in Placed(t)
    BY <1>12, <2>1, PlacedIs
  <2>3. QED
    BY <2>2
<1>17. QED
  BY <1>13, <1>14, <1>15, <1>16 DEF Numbered, t

-----------------------------------------------------------------------------
(* Batches.                                                                *)

(* Each piece has one number.                                              *)
Distinct == \A j, k \in DOMAIN Sources : Sources[j] = Sources[k] => j = k

(* So no piece is in two batches,                                          *)
LEMMA BatchesDisjoint ==
  ASSUME Distinct, NEW m, NEW n, m # n
  PROVE  Batch(m) \cap Batch(n) = {}
BY DEF Distinct, Batch

(* and every piece of a batch is a piece of the input.                     *)
LEMMA BatchIn ==
  ASSUME NEW n
  PROVE  Batch(n) \subseteq All(Sources)
BY DEF Batch, All

(* The batches depend on the input only.                                   *)
LEMMA SameBatch ==
  ASSUME input' = input, NEW n
  PROVE  Batch(n)' = Batch(n)
BY DEF Batch, BatchOf, Starts, RunStart, Sources, BatchSize, label, Least

(* What they are in the next state.                                        *)
LEMMA SameBatches ==
  ASSUME input' = input
  PROVE  /\ Batch(batch)' = Batch(batch')
         /\ SoFar' = UNION {Batch(n) : n \in 1..batch'}
<1>1. Batch(batch)' = Batch(batch')
  BY DEF Batch, BatchOf, Starts, RunStart, Sources, BatchSize, label, Least
<1>2. \A n : Batch(n)' = Batch(n)
  BY SameBatch
<1>3. SoFar' = UNION {Batch(n)' : n \in 1..batch'}
  BY DEF SoFar
<1>4. QED
  BY <1>1, <1>2, <1>3

(* A round begins with an empty list.                                      *)
LEMMA EmptyList ==
  List(<<>>) /\ Placed(<<>>) = {}
<1>1. DOMAIN <<>> = {}
  OBVIOUS
<1>2. Within(<<>>, 0)
  BY <1>1 DEF Within
<1>3. QED
  BY <1>1, <1>2 DEF List, Numbered, Records, Clean, Placed, All

-----------------------------------------------------------------------------
(* The invariant.                                                          *)

(* What must be known of a call besides the two properties: it asks for    *)
(* pieces of its batch, and the items so far are a list.                   *)
Asking ==
  /\ input \in Inputs
  /\ pc \in {"match", "ask", "check"} => "lines" \notin DOMAIN input
  /\ pc = "ask" => batch \in Nat \ {0} /\ asked \subseteq Batch(batch) /\ List(items)

(* The inductive invariant.                                                *)
IInv == Asking /\ NothingForgotten /\ AskedOnce

(* What the assumption on the inputs says of a message.                    *)
LEMMA IsDistinct ==
  ASSUME input \in Inputs, "lines" \notin DOMAIN input
  PROVE  Distinct
BY InputAssumption DEF Distinct, Sources

(* A round begins: its first batch is asked for.                           *)
LEMMA StartRoundKeeps ==
  ASSUME input \in Inputs, "lines" \notin DOMAIN input, NEW again, StartRound(again)
  PROVE  IInv'
<1>1. /\ items' = <<>> /\ batch' = 1 /\ asked' = Batch(1) /\ pc' = "ask" /\ input' = input
  BY DEF StartRound
<1>2. Batch(batch)' = Batch(1) /\ SoFar' = Batch(1)
  <2>1. 1..batch' = {1}
    BY <1>1
  <2>2. UNION {Batch(n) : n \in {1}} = Batch(1)
    OBVIOUS
  <2>3. QED
    BY <1>1, <2>1, <2>2, SameBatches
<1>3. List(items') /\ Placed(items') = {}
  BY <1>1, EmptyList
<1>4. Asking'
  BY <1>1, <1>2, <1>3 DEF Asking
<1>5. NothingForgotten' /\ AskedOnce'
  BY <1>1, <1>2, <1>3 DEF NothingForgotten, AskedOnce
<1>6. QED
  BY <1>4, <1>5 DEF IInv

(* A batch is complete and the next one is asked for; none of its pieces   *)
(* is placed yet, as batches are disjoint and unknown pieces were taken    *)
(* away.                                                                   *)
LEMMA AcceptKeeps ==
  ASSUME IInv, pc = "ask", NEW s, List(s), Placed(items) \cap SoFar \subseteq Placed(s),
         Placed(s) \subseteq SoFar, AcceptBatch(s)
  PROVE  IInv'
<1>1. /\ Missing(s) = {} /\ items' = Renamed(s) /\ batch' = batch + 1
      /\ asked' = Batch(batch + 1) /\ input' = input
      /\ pc' \in {"check", "ask"}
  BY DEF AcceptBatch
<1>2. /\ batch \in Nat \ {0} /\ asked \subseteq Batch(batch) /\ input \in Inputs
      /\ "lines" \notin DOMAIN input
  BY DEF IInv, Asking
<1>3. List(items') /\ Placed(items') = Placed(s)
  BY <1>1, RenamedKeeps DEF Same
<1>4. Batch(batch)' = Batch(batch + 1)
  BY <1>1, SameBatches
<1>5. SoFar' = SoFar \cup Batch(batch + 1)
  <2>1. 1..batch' = 1..batch \cup {batch + 1}
    BY <1>1, <1>2
  <2>2. SoFar' = UNION {Batch(n) : n \in 1..batch \cup {batch + 1}}
    BY <1>1, <2>1, SameBatches
  <2>3. QED
    BY <2>2 DEF SoFar
<1>6. SoFar \subseteq Placed(s)
  <2>1. Batch(batch) \subseteq Placed(s)
    BY <1>1 DEF Missing
  <2>2. SoFar \subseteq Placed(items) \cup asked
    BY DEF IInv, NothingForgotten
  <2>3. QED
    BY <1>2, <2>1, <2>2
<1>7. SoFar \cap Batch(batch + 1) = {}
  <2>1. \A n \in 1..batch : n # batch + 1
    BY <1>2
  <2>2. Distinct
    BY <1>2, IsDistinct
  <2>3. \A n \in 1..batch : Batch(n) \cap Batch(batch + 1) = {}
    BY <2>1, <2>2, BatchesDisjoint
  <2>4. QED
    BY <2>3 DEF SoFar
<1>8. Asking'
  <2>1. batch' \in Nat \ {0}
    BY <1>1, <1>2
  <2>2. asked' \subseteq Batch(batch)'
    BY <1>1, <1>4
  <2>3. QED
    BY <1>1, <1>2, <1>3, <2>1, <2>2 DEF Asking
<1>9. NothingForgotten'
  BY <1>1, <1>3, <1>5, <1>6 DEF NothingForgotten
<1>10. AskedOnce'
  <2>1. Placed(items') \cap asked' = {}
    BY <1>1, <1>3, <1>7
  <2>2. QED
    BY <2>1 DEF AskedOnce
<1>11. QED
  BY <1>8, <1>9, <1>10 DEF IInv

(* The repair: what it asks for is what it has cleared.                    *)
LEMMA AskAgainKeeps ==
  ASSUME IInv, pc = "ask", NEW s, List(s), Placed(items) \cap SoFar \subseteq Placed(s),
         AskAgain(s)
  PROVE  IInv'
<1> DEFINE S == Missing(s) \cup Twice(s)
           repair == Spread(s, S)
<1>1. /\ items' = Renamed(Cleared(s, repair)) /\ asked' = repair
      /\ input' = input /\ batch' = batch /\ pc' = pc
  BY DEF AskAgain
<1>2. /\ batch \in Nat \ {0} /\ asked \subseteq Batch(batch) /\ input \in Inputs
      /\ "lines" \notin DOMAIN input
  BY DEF IInv, Asking
<1>3. S \in SUBSET Batch(batch)
  BY DEF Missing, Twice
<1>4. S \subseteq repair /\ repair \subseteq Batch(batch)
  BY <1>3, SpreadOf
<1>5. Missing(s) \subseteq repair
  BY <1>4
<1> HIDE DEF repair, S
<1>6. List(items') /\ Placed(items') = Placed(s) \ repair
  BY <1>1, ClearedKeeps, RenamedKeeps DEF Same
<1>7. Batch(batch)' = Batch(batch) /\ SoFar' = SoFar
  BY <1>1, SameBatches DEF SoFar
<1>8. SoFar \subseteq Placed(s) \cup repair
  <2>1. Batch(batch) \subseteq Placed(s) \cup repair
    BY <1>5 DEF Missing
  <2>2. SoFar \subseteq Placed(items) \cup asked
    BY DEF IInv, NothingForgotten
  <2>3. QED
    BY <1>2, <2>1, <2>2
<1>9. Asking'
  BY <1>1, <1>2, <1>4, <1>6, <1>7 DEF Asking
<1>10. NothingForgotten' /\ AskedOnce'
  BY <1>1, <1>6, <1>7, <1>8 DEF NothingForgotten, AskedOnce
<1>11. QED
  BY <1>9, <1>10 DEF IInv

(* The node gives up.                                                      *)
LEMMA FailsKeeps ==
  ASSUME IInv, Fails
  PROVE  IInv'
<1>1. pc' = "failed" /\ input' = input
  BY DEF Fails
<1>2. QED
  BY <1>1 DEF IInv, Asking, NothingForgotten, AskedOnce

(* The second round.                                                       *)
LEMMA StartAgainKeeps ==
  ASSUME IInv, pc \in {"ask", "check"}, StartAgain
  PROVE  IInv'
<1>1. CASE rerun
  BY <1>1, FailsKeeps DEF StartAgain
<1>2. CASE ~rerun
  BY <1>2, StartRoundKeeps DEF StartAgain, IInv, Asking
<1>3. QED
  BY <1>1, <1>2

(* An answer, whatever it says.                                            *)
LEMMA AnswerKeeps ==
  ASSUME IInv, Answer
  PROVE  IInv'
<1>1. pc = "ask" /\ List(items)
  BY DEF Answer, IInv, Asking
<1> DEFINE Taken(t) == AcceptBatch(t) \/ AskAgain(t) \/ LoseBatch(t)
<1>2. PICK old \in Olds \cup {None}, uses \in Few :
        \E home : Taken(Fixed(Answered(uses, home, old), SoFar, DOMAIN items))
  BY DEF Answer
<1> PICK home : Taken(Fixed(Answered(uses, home, old), SoFar, DOMAIN items))
  BY <1>2
<1> DEFINE a == Answered(uses, home, old)
           s == Fixed(a, SoFar, DOMAIN items)
<1>3. old \in DOMAIN items \cup {None}
  BY DEF Olds
<1>4. \E u, v, w : uses \in SUBSET {u, v, w}
  BY DEF Few
<1>5. Numbered(a) /\ Records(a) /\ Room(a) /\ Placed(items) \subseteq Placed(a)
  BY <1>1, <1>3, <1>4, AnsweredKeeps
<1> HIDE DEF a
<1>6. List(s) /\ Placed(s) = Placed(a) \cap SoFar
  BY <1>5, FixedKeeps
<1>7. Taken(s)
  BY DEF a
<1> HIDE DEF s
<1>8. Placed(items) \cap SoFar \subseteq Placed(s) /\ Placed(s) \subseteq SoFar
  BY <1>5, <1>6
<1>9. CASE AcceptBatch(s)
  BY <1>1, <1>6, <1>8, <1>9, AcceptKeeps
<1>10. CASE AskAgain(s)
  BY <1>1, <1>6, <1>8, <1>10, AskAgainKeeps
<1>11. CASE LoseBatch(s)
  BY <1>1, <1>11, StartAgainKeeps DEF LoseBatch
<1>12. QED
  BY <1>7, <1>9, <1>10, <1>11

(* The final checks; the result covers every piece.                        *)
LEMMA CheckResultKeeps ==
  ASSUME IInv, CheckResult
  PROVE  IInv'
<1> DEFINE s == Completed(items)
<1>1. pc = "check"
  BY DEF CheckResult
<1>2. \/ Fails \/ StartAgain
      \/ CoversOnce(s) /\ items' = s /\ pc' = "done" /\ UNCHANGED <<input, batch, asked>>
  BY DEF CheckResult
<1> HIDE DEF s
<1>3. CASE CoversOnce(s) /\ items' = s /\ pc' = "done" /\ UNCHANGED <<input, batch, asked>>
  <2>1. ASSUME NEW q \in All(Sources) PROVE q \in Placed(s)
    <3>1. Cardinality(Holding(s, q)) = 1
      BY <1>3 DEF CoversOnce
    <3>2. Holding(s, q) # {}
      BY <3>1, FS_EmptySet
    <3>3. QED
      BY <3>2, PlacedIs DEF Holding
  <2>2. SoFar' = UNION {Batch(n) : n \in 1..batch}
    BY <1>3, SameBatches
  <2>3. SoFar' \subseteq Placed(items')
    BY <1>3, <2>1, <2>2, BatchIn
  <2>4. QED
    BY <1>3, <2>3 DEF IInv, Asking, NothingForgotten, AskedOnce
<1>4. QED
  BY <1>1, <1>2, <1>3, FailsKeeps, StartAgainKeeps

(* Every step of the node.                                                 *)
LEMMA NextKeeps ==
  ASSUME IInv, Next
  PROVE  IInv'
<1>1. CASE MatchEpisode
  BY <1>1, StartRoundKeeps DEF MatchEpisode, IInv, Asking
<1>2. CASE Unreadable
  <2>1. CASE attempt = 1
    BY <1>2, <2>1, FailsKeeps DEF Unreadable
  <2>2. CASE attempt # 1
    <3>1. /\ input' = input /\ items' = items /\ asked' = asked /\ batch' = batch /\ pc' = pc
      BY <1>2, <2>2 DEF Unreadable
    <3>2. Batch(batch)' = Batch(batch) /\ SoFar' = SoFar
      BY <3>1, SameBatches DEF SoFar
    <3>3. QED
      BY <3>1, <3>2 DEF IInv, Asking, NothingForgotten, AskedOnce
  <2>3. QED
    BY <2>1, <2>2
<1>3. CASE Inconsistent
  BY <1>3, FailsKeeps DEF Inconsistent
<1>4. QED
  BY <1>1, <1>2, <1>3, AnswerKeeps, CheckResultKeeps DEF Next

(* Where the way of a file may be: the invariant says nothing of it.       *)
Elsewhere == {"gate", "assign", "verify", "place", "structure", "placed", "failed", "refused"}

(* The invariant holds for any input with distinct pieces, any activity,   *)
(* any number of batches and any answers.                                  *)
THEOREM InvariantHolds == FSpec => []IInv
<1>1. FInit => IInv
  <2> SUFFICES ASSUME FInit PROVE IInv
    OBVIOUS
  <2>1. /\ input \in Inputs /\ pc = IF IsFile THEN "gate" ELSE "match"
    BY DEF FInit
  <2>2. QED
    BY <2>1 DEF IInv, Asking, NothingForgotten, AskedOnce, IsFile
<1>2. IInv /\ [FNext]_<<vars, fvars>> => IInv'
  <2> SUFFICES ASSUME IInv, [FNext]_<<vars, fvars>> PROVE IInv'
    OBVIOUS
  <2>1. CASE Next
    BY <2>1, NextKeeps
  <2>2. ASSUME input' = input, pc' \in Elsewhere PROVE IInv'
    BY <2>2 DEF IInv, Asking, NothingForgotten, AskedOnce, Elsewhere
  <2>3. CASE Gate
    BY <2>2, <2>3 DEF Gate, Kept, Elsewhere
  <2>4. CASE \E n \in left : AssignChunk(n)
    BY <2>2, <2>4 DEF AssignChunk, Kept, Elsewhere
  <2>5. CASE Arrange
    BY <2>2, <2>5 DEF Arrange, Kept, Elsewhere
  <2>6. CASE VerifyExclusions
    BY <2>2, <2>6 DEF VerifyExclusions, Kept, Elsewhere
  <2>7. CASE PlaceLines
    BY <2>2, <2>7 DEF PlaceLines, Kept, Elsewhere
  <2>8. CASE StructureFile
    BY <2>2, <2>8 DEF StructureFile, Kept, Elsewhere
  <2>9. CASE FileFails
    BY <2>2, <2>9 DEF FileFails, Kept, Elsewhere
  <2>10. CASE UNCHANGED <<vars, fvars>>
    <3>1. /\ input' = input /\ items' = items /\ asked' = asked /\ batch' = batch /\ pc' = pc
      BY <2>10 DEF vars
    <3>2. Batch(batch)' = Batch(batch) /\ SoFar' = SoFar
      BY <3>1, SameBatches DEF SoFar
    <3>3. QED
      BY <3>1, <3>2 DEF IInv, Asking, NothingForgotten, AskedOnce
  <2>11. QED
    BY <2>1, <2>3, <2>4, <2>5, <2>6, <2>7, <2>8, <2>9, <2>10 DEF FNext
<1>3. QED
  BY <1>1, <1>2, PTL DEF FSpec

(* In every reachable state a piece of the batches so far is in some       *)
(* item or is being asked for (_apply_structuring_fixups,                  *)
(* _clear_repair_sources).                                                 *)
THEOREM NothingForgottenHolds == FSpec => []NothingForgotten
<1>1. IInv => NothingForgotten
  BY DEF IInv
<1>2. QED
  BY <1>1, InvariantHolds, PTL

(* In every reachable state no piece that is asked for is placed already   *)
(* (_coverage_repair_source_ids).                                          *)
THEOREM AskedOnceHolds == FSpec => []AskedOnce
<1>1. IInv => AskedOnce
  BY DEF IInv
<1>2. QED
  BY <1>1, InvariantHolds, PTL

-----------------------------------------------------------------------------
(* The lines of a file.                                                    *)

(* What the assignment is when the blocks are made.                        *)
Placeable ==
  /\ Len(input.lines) \in Nat
  /\ DOMAIN assigned \subseteq Lines
  /\ \A l \in DOMAIN assigned : assigned[l].slot \in Slots
  /\ \A l \in DOMAIN assigned : Line(l).size \in Nat

(* What may be left out: each other line is placed by a slot.              *)
LEMMA AssignedOf ==
  ASSUME Len(input.lines) \in Nat, \A l \in Lines : Line(l).size \in Nat,
         assigned = Assigned(answer, gone)
  PROVE  /\ Placeable
         /\ \A l \in Lines \ DOMAIN assigned :
              \/ l \in gone
              \/ Line(l).head /\ answer[l].slot = Heading
              \/ answer[l].slot = Instruction
              \/ \A k \in 1..l : ~InSlot(answer, k) \/ k \in gone
<1> DEFINE before(l) == {k \in 1..l : InSlot(answer, k) /\ ~Skipped(answer, gone, k)}
<1>1. assigned = [l \in {m \in Lines : ~Skipped(answer, gone, m) /\ before(m) # {}} |->
                    answer[Greatest(before(l))]]
  BY DEF Assigned, Each
<1>2. ASSUME NEW l \in DOMAIN assigned PROVE l \in Lines /\ assigned[l].slot \in Slots
  <2>1. l \in Lines /\ before(l) # {} /\ assigned[l] = answer[Greatest(before(l))]
    BY <1>1
  <2>2. l \in Nat /\ before(l) \in SUBSET (0..l)
    BY <2>1 DEF Lines
  <2>3. Greatest(before(l)) \in before(l)
    <3> HIDE DEF before
    <3>1. QED
      BY <2>1, <2>2, GreatestOf
  <2>4. QED
    BY <2>1, <2>3 DEF InSlot
<1>3. ASSUME NEW l \in Lines, l \notin DOMAIN assigned, ~Skipped(answer, gone, l)
      PROVE  \A k \in 1..l : ~InSlot(answer, k) \/ k \in gone
  <2>1. before(l) = {}
    BY <1>1, <1>3
  <2>2. ASSUME NEW k \in 1..l, InSlot(answer, k), k \notin gone PROVE FALSE
    <3>1. Skipped(answer, gone, k)
      BY <2>1, <2>2
    <3>2. answer[k].slot \in Leaf \cup {Anchor, "growth"}
      BY <2>2 DEF InSlot, Slots
    <3>3. QED
      BY <2>2, <3>1, <3>2, LeafIs DEF Skipped, Instruction, Heading, Anchor
  <2>3. QED
    BY <2>2
<1>4. QED
  BY <1>2, <1>3 DEF Placeable, Skipped

(* A line of the learning section has a key of its own.                    *)
LEMMA KeyIs ==
  ASSUME NEW l
  PROVE  LineKey(l) = <<"learning">> <=> assigned[l].slot = "growth"
<1>1. ASSUME NEW ep PROVE KeyOf(ep) # <<"learning">>
  <2>1. <<"auto">> # <<"learning">>
    OBVIOUS
  <2>2. \A x : <<"project", x>> # <<"learning">>
    OBVIOUS
  <2>3. \A x : <<"line", x>> # <<"learning">>
    OBVIOUS
  <2>4. QED
    BY <2>1, <2>2, <2>3 DEF KeyOf
<1>2. QED
  BY <1>1 DEF LineKey

(* Where lines are filed, while some still wait: a line is filed where it  *)
(* is assigned to, or it is a title.                                       *)
Entries(g, more) ==
  \A l \in DOMAIN g :
    /\ g[l] = [key |-> g[l].key, slot |-> g[l].slot, rank |-> g[l].rank]
    /\ g[l].key = LineKey(l) /\ g[l].rank \in Nat
    /\ g[l].slot \in Slots \cup more
    /\ g[l].key = <<"learning">> <=> g[l].slot = "growth"
Stays(g) == \A l \in DOMAIN g : g[l].slot = assigned[l].slot \/ assigned[l].slot = Anchor
Twin(g, l) ==
  \E m \in DOMAIN g : /\ m # l /\ Line(m).text = Line(l).text
                      /\ g[m].key = LineKey(l) /\ g[m].slot = assigned[l].slot
                      /\ g[m].slot = Anchor => Line(l).num # None
PutSoFar(g, j) ==
  /\ DOMAIN g \subseteq {l \in Placing : l <= j}
  /\ Entries(g, {"waiting"}) /\ Stays(g)
  /\ \A l \in Placing : l <= j => l \in DOMAIN g \/ Twin(g, l)

(* Putting one line.                                                       *)
LEMMA PutKeeps ==
  ASSUME Placeable, NEW j \in Placing, NEW g, PutSoFar(g, j - 1), NEW h, h = Put(g, j)
  PROVE  PutSoFar(h, j)
<1> DEFINE k == LineKey(j)
           slot == assigned[j].slot
           f == Flushed(g, j)
<1>1. /\ j \in Nat \ {0} /\ slot \in Slots /\ Anchor # "waiting" /\ Anchor # "growth"
      /\ \A l \in Placing : l \in Nat /\ assigned[l].slot \in Slots
  BY DEF Placing, Placeable, Lines, Anchor
<1>2. (k = <<"learning">> <=> slot = "growth") /\ "waiting" \notin Slots
  <2>1. k = <<"learning">> <=> slot = "growth"
    BY KeyIs
  <2>2. "waiting" \notin Slots
    BY LeafIs DEF Slots, Anchor
  <2>3. QED
    BY <2>1, <2>2
<1>3. /\ DOMAIN f = DOMAIN g
      /\ \A m \in DOMAIN g : \/ f[m] = g[m]
                             \/ /\ g[m].slot = "waiting" /\ g[m].key = k /\ slot # Anchor
                                /\ f[m] = Entry(m, slot)
  BY DEF Flushed, LinesAt, Each
<1>4. \A m, x : /\ Entry(m, x).key = LineKey(m) /\ Entry(m, x).slot = x
                /\ Entry(m, x) = [key |-> Entry(m, x).key, slot |-> Entry(m, x).slot, rank |-> Entry(m, x).rank]
                /\ Entry(m, x).rank \in Nat
  BY DEF Entry
<1>5. \A l \in DOMAIN g : l \in Placing /\ l <= j - 1 /\ l # j /\ l <= j
  <2>1. \A l \in DOMAIN g : l \in Placing /\ l <= j - 1
    BY DEF PutSoFar
  <2>2. \A l \in Placing : l <= j - 1 => l # j /\ l <= j
    BY <1>1
  <2>3. QED
    BY <2>1, <2>2
<1> HIDE DEF k, slot, f
<1>6. ASSUME NEW m \in DOMAIN g
      PROVE  /\ f[m].key = LineKey(m) /\ f[m].key = g[m].key /\ f[m].rank \in Nat
             /\ f[m] = [key |-> f[m].key, slot |-> f[m].slot, rank |-> f[m].rank]
             /\ \/ f[m].slot = g[m].slot
                \/ g[m].slot = "waiting" /\ g[m].key = k /\ slot # Anchor /\ f[m].slot = slot
  <2>1. /\ g[m].key = LineKey(m) /\ g[m].rank \in Nat
        /\ g[m] = [key |-> g[m].key, slot |-> g[m].slot, rank |-> g[m].rank]
    BY DEF PutSoFar, Entries
  <2>2. CASE f[m] = g[m]
    BY <2>1, <2>2
  <2>3. CASE /\ g[m].slot = "waiting" /\ g[m].key = k /\ slot # Anchor
             /\ f[m] = Entry(m, slot)
    <3>1. /\ f[m].key = LineKey(m) /\ f[m].slot = slot /\ f[m].rank \in Nat
          /\ f[m] = [key |-> f[m].key, slot |-> f[m].slot, rank |-> f[m].rank]
      BY <1>4, <2>3
    <3>2. QED
      BY <2>1, <2>3, <3>1
  <2>4. QED
    BY <1>3, <2>2, <2>3
<1>7. Entries(f, {"waiting"}) /\ Stays(f)
  <2>1. ASSUME NEW m \in DOMAIN f
        PROVE  /\ f[m].slot \in Slots \cup {"waiting"}
               /\ f[m].key = <<"learning">> <=> f[m].slot = "growth"
               /\ f[m].slot = assigned[m].slot \/ assigned[m].slot = Anchor
    <3>1. /\ m \in DOMAIN g /\ assigned[m].slot \in Slots
          /\ g[m].slot \in Slots \cup {"waiting"}
          /\ g[m].key = <<"learning">> <=> g[m].slot = "growth"
          /\ g[m].slot = assigned[m].slot \/ assigned[m].slot = Anchor
      BY <1>1, <1>3, <1>5 DEF PutSoFar, Entries, Stays
    <3>2. CASE f[m].slot = g[m].slot
      BY <1>6, <3>1, <3>2
    <3>3. CASE g[m].slot = "waiting" /\ g[m].key = k /\ slot # Anchor /\ f[m].slot = slot
      BY <1>1, <1>2, <1>6, <3>1, <3>3
    <3>4. QED
      BY <1>6, <3>1, <3>2, <3>3
  <2>2. \A m \in DOMAIN f : /\ f[m].key = LineKey(m) /\ f[m].rank \in Nat
                            /\ f[m] = [key |-> f[m].key, slot |-> f[m].slot, rank |-> f[m].rank]
    BY <1>3, <1>6
  <2>3. QED
    BY <2>1, <2>2 DEF Entries, Stays
<1>8. \A l \in Placing : l <= j - 1 => l \in DOMAIN f \/ Twin(f, l)
  <2>1. ASSUME NEW l \in Placing, Twin(g, l) PROVE Twin(f, l)
    <3>1. PICK m \in DOMAIN g : /\ m # l /\ Line(m).text = Line(l).text
                                /\ g[m].key = LineKey(l) /\ g[m].slot = assigned[l].slot
                                /\ g[m].slot = Anchor => Line(l).num # None
      BY <2>1 DEF Twin
    <3>2. g[m].slot # "waiting"
      BY <1>1, <1>2, <3>1
    <3>3. f[m].slot = g[m].slot /\ f[m].key = g[m].key
      BY <1>6, <3>2
    <3>4. QED
      BY <1>3, <3>1, <3>3 DEF Twin
  <2>2. QED
    BY <1>3, <2>1 DEF PutSoFar
<1>9. ASSUME NEW b, DOMAIN b = DOMAIN g, Entries(b, {"waiting"}), Stays(b),
             \A l \in Placing : l <= j - 1 => l \in DOMAIN b \/ Twin(b, l),
             NEW x \in Slots \cup {"waiting"}, k = <<"learning">> <=> x = "growth",
             x = slot \/ slot = Anchor, h = Insert(b, j, x)
      PROVE  PutSoFar(h, j)
  <2>1. /\ DOMAIN h = DOMAIN b \cup {j} /\ h[j] = Entry(j, x) /\ \A m \in DOMAIN b : h[m] = b[m]
    BY <1>5, <1>9 DEF Insert, Each
  <2>2. Entries(h, {"waiting"})
    <3>1. /\ h[j] = [key |-> h[j].key, slot |-> h[j].slot, rank |-> h[j].rank]
          /\ h[j].key = LineKey(j) /\ h[j].rank \in Nat /\ h[j].slot = x
      BY <1>4, <2>1
    <3>2. h[j].slot \in Slots \cup {"waiting"} /\ (h[j].key = <<"learning">> <=> h[j].slot = "growth")
      BY <1>9, <3>1 DEF k
    <3>3. \A m \in DOMAIN h : m = j \/ (m \in DOMAIN b /\ h[m] = b[m])
      BY <2>1
    <3>4. Entries(b, {"waiting"})
      BY <1>9
    <3>5. QED
      BY <3>1, <3>2, <3>3, <3>4 DEF Entries
  <2>8. Stays(h)
    BY <1>4, <1>9, <2>1 DEF Stays, slot
  <2>3. \A l : Twin(b, l) => Twin(h, l)
    BY <2>1 DEF Twin
  <2>4. \A l \in Placing : l <= j => l = j \/ l <= j - 1
    BY <1>1
  <2>5. j <= j
    BY <1>1
  <2>6. \A l \in DOMAIN h : l \in Placing /\ l <= j
    BY <1>5, <1>9, <2>1, <2>5
  <2>7. QED
    BY <1>9, <2>1, <2>2, <2>3, <2>4, <2>6, <2>8 DEF PutSoFar
<1>10. CASE slot = Anchor /\ LinesAt(g, k, Anchor) # {} /\ Line(j).num = None
  <2>1. h = Insert(g, j, "waiting")
    BY <1>10 DEF Put, k, slot
  <2>2. Entries(g, {"waiting"}) /\ Stays(g) /\ (k = <<"learning">> <=> "waiting" = "growth")
    BY <1>1, <1>2, <1>10 DEF PutSoFar
  <2>3. \A l \in Placing : l <= j - 1 => l \in DOMAIN g \/ Twin(g, l)
    BY DEF PutSoFar
  <2>4. QED
    BY <1>9, <1>10, <2>1, <2>2, <2>3
<1>11. CASE ~(slot = Anchor /\ LinesAt(g, k, Anchor) # {} /\ Line(j).num = None)
  <2> DEFINE twins == {m \in LinesAt(f, k, slot) : Line(m).text = Line(j).text}
  <2>1. h = IF k # <<"learning">> /\ twins # {} THEN f ELSE Insert(f, j, slot)
    BY <1>11 DEF Put, k, slot, f
  <2>2. CASE k # <<"learning">> /\ twins # {}
    <3>1. h = f
      BY <2>1, <2>2
    <3>2. PICK m \in DOMAIN f : f[m].key = k /\ f[m].slot = slot /\ Line(m).text = Line(j).text
      BY <2>2 DEF LinesAt
    <3>3. m # j
      BY <1>3, <1>5, <3>2
    <3>4. ASSUME slot = Anchor PROVE Line(j).num # None
      <4>1. f[m].slot = g[m].slot /\ f[m].key = g[m].key
        BY <1>3, <1>6, <3>2, <3>4
      <4>2. m \in LinesAt(g, k, Anchor)
        BY <1>3, <3>2, <3>4, <4>1 DEF LinesAt
      <4>3. QED
        BY <1>11, <3>4, <4>2
    <3>5. Twin(f, j)
      BY <3>2, <3>3, <3>4 DEF Twin, k, slot
    <3>6. \A l \in Placing : l <= j => l = j \/ l <= j - 1
      BY <1>1
    <3>7. \A l \in DOMAIN f : l \in Placing /\ l <= j
      BY <1>3, <1>5
    <3>8. QED
      BY <1>7, <1>8, <3>1, <3>5, <3>6, <3>7 DEF PutSoFar
  <2>3. CASE ~(k # <<"learning">> /\ twins # {})
    <3>1. h = Insert(f, j, slot)
      BY <2>1, <2>3
    <3> HIDE DEF twins
    <3>2. QED
      BY <1>1, <1>2, <1>3, <1>7, <1>8, <1>9, <3>1
  <2>4. QED
    BY <2>2, <2>3
<1>12. QED
  BY <1>10, <1>11

(* Blocks before they are placed: which line goes where, and for a line    *)
(* that is left out which one stands for it.                               *)
Titles(g) == \A l \in DOMAIN g : g[l].slot = Anchor => assigned[l].slot = Anchor
Stand(g, m, l) == m # l /\ StandsFor(m, l) /\ (g[m].slot = Anchor => assigned[l].slot = Anchor)
Filing(g) ==
  /\ DOMAIN g \subseteq Placing
  /\ Entries(g, {}) /\ Titles(g)
  /\ \A l \in Placing \ DOMAIN g : \E m \in DOMAIN g : Stand(g, m, l)

(* Grouped, line by line.                                                  *)
LEMMA GroupedRun ==
  ASSUME Placeable
  PROVE  \E f : /\ f[0] = <<>>
                /\ \A l \in 1..Len(input.lines) : f[l] = IF l \in Placing THEN Put(f[l - 1], l) ELSE f[l - 1]
                /\ LET g == f[Len(input.lines)] IN
                   Grouped = [l \in DOMAIN g |->
                     IF g[l].slot = "waiting" THEN [g[l] EXCEPT !.slot = Anchor, !.rank = 1] ELSE g[l]]
<1> DEFINE n == Len(input.lines)
           run[l \in 0..Len(input.lines)] ==
             IF l = 0 THEN <<>> ELSE IF l \in Placing THEN Put(run[l - 1], l) ELSE run[l - 1]
           Run(f) == f = [l \in 0..Len(input.lines) |->
             IF l = 0 THEN <<>> ELSE IF l \in Placing THEN Put(f[l - 1], l) ELSE f[l - 1]]
<1>1. n \in Nat
  BY DEF Placeable
<1>2. LET g == run[n] IN
      Grouped = [l \in DOMAIN g |->
        IF g[l].slot = "waiting" THEN [g[l] EXCEPT !.slot = Anchor, !.rank = 1] ELSE g[l]]
  BY DEF Grouped, Each
<1>3. PICK f : RunOf("line", <<>>, n, f)
  BY <1>1, RunExists, Zenon
<1>4. \A l : Rule("line", <<>>, f[l - 1], l) =
               IF l \in Placing THEN Put(f[l - 1], l) ELSE f[l - 1]
  BY DEF Rule
<1>5. Run(f)
  BY <1>3, <1>4 DEF RunOf
<1>6. run = CHOOSE h : Run(h)
  OBVIOUS
<1> HIDE DEF run
<1>7. Run(run)
  <2> HIDE DEF Run
  <2>1. QED
    BY <1>5, <1>6
<1>8. run[0] = <<>>
  BY <1>1, <1>7
<1>9. \A l \in 1..n : run[l] = IF l \in Placing THEN Put(run[l - 1], l) ELSE run[l - 1]
  BY <1>1, <1>7
<1>10. QED
  BY <1>2, <1>8, <1>9

(* Every line is filed, or one with its text is.                           *)
LEMMA GroupedKeeps ==
  ASSUME Placeable, NEW h, h = Grouped
  PROVE  /\ DOMAIN h \subseteq Placing /\ Entries(h, {}) /\ Stays(h)
         /\ \A l \in Placing : l \in DOMAIN h \/ Twin(h, l)
<1> DEFINE n == Len(input.lines)
<1>1. PICK f : /\ f[0] = <<>>
               /\ \A l \in 1..n : f[l] = IF l \in Placing THEN Put(f[l - 1], l) ELSE f[l - 1]
               /\ LET g == f[n] IN
                  Grouped = [l \in DOMAIN g |->
                    IF g[l].slot = "waiting" THEN [g[l] EXCEPT !.slot = Anchor, !.rank = 1] ELSE g[l]]
  BY GroupedRun
<1>2. n \in Nat /\ \A l \in Placing : l \in 1..n
  BY DEF Placeable, Placing, Lines
<1> HIDE DEF n
<1> DEFINE Ok(j) == PutSoFar(f[j], j)
           B == {m \in 0..n : ~Ok(m)}
<1>3. Ok(0)
  <2>4. f[0] = <<>>
    BY <1>1, Zenon
  <2>1. DOMAIN f[0] = {}
    BY <2>4
  <2>2. \A l \in Placing : ~(l <= 0)
    BY <1>2
  <2>3. QED
    BY <2>1, <2>2 DEF PutSoFar, Entries, Stays
<1>4. ASSUME NEW j \in 1..n, Ok(j - 1) PROVE Ok(j)
  <2>1. CASE j \in Placing
    <3>1. f[j] = Put(f[j - 1], j)
      BY <1>1, <2>1
    <3>2. QED
      BY <1>4, <2>1, <3>1, PutKeeps
  <2>2. CASE j \notin Placing
    <3>1. f[j] = f[j - 1]
      BY <1>1, <2>2
    <3>2. \A l \in Placing : l <= j <=> l <= j - 1
      BY <1>2, <2>2
    <3>3. {l \in Placing : l <= j} = {l \in Placing : l <= j - 1}
      BY <3>2
    <3>4. QED
      BY <1>4, <3>1, <3>2, <3>3 DEF PutSoFar
  <2>3. QED
    BY <2>1, <2>2
<1> HIDE DEF Ok
<1>5. B = {}
  <2>1. SUFFICES ASSUME B # {} PROVE FALSE
    OBVIOUS
  <2>2. B \in SUBSET Nat
    OBVIOUS
  <2>3. PICK m \in B : \A r \in B : m <= r
    BY <2>1, <2>2, LeastOf
  <2>4. m # 0 /\ m \in 0..n /\ ~Ok(m)
    BY <1>3, <2>3
  <2>5. m \in 1..n /\ m - 1 \in 0..n /\ ~(m <= m - 1)
    BY <1>2, <2>4
  <2>6. Ok(m - 1)
    BY <2>3, <2>5
  <2>7. QED
    BY <1>4, <2>4, <2>5, <2>6
<1> DEFINE g == f[n]
<1>6. PutSoFar(g, n)
  BY <1>2, <1>5 DEF Ok
<1>7. h = [l \in DOMAIN g |->
            IF g[l].slot = "waiting" THEN [g[l] EXCEPT !.slot = Anchor, !.rank = 1] ELSE g[l]]
  BY <1>1
<1> HIDE DEF g
<1>8. ASSUME NEW l \in DOMAIN h
      PROVE  /\ l \in DOMAIN g /\ h[l].key = g[l].key
             /\ g[l].slot # "waiting" => h[l] = g[l]
             /\ g[l].slot = "waiting" => h[l] = [key |-> g[l].key, slot |-> Anchor, rank |-> 1]
  <2>1. l \in DOMAIN g /\ h[l] = IF g[l].slot = "waiting" THEN [g[l] EXCEPT !.slot = Anchor, !.rank = 1] ELSE g[l]
    BY <1>7
  <2>2. g[l] = [key |-> g[l].key, slot |-> g[l].slot, rank |-> g[l].rank]
    BY <1>6, <2>1 DEF PutSoFar, Entries
  <2>5. PICK x, y, z : x = g[l].key /\ y = g[l].slot /\ z = g[l].rank
    OBVIOUS
  <2>6. g[l] = [key |-> x, slot |-> y, rank |-> z]
    BY <2>2, <2>5
  <2>3. [g[l] EXCEPT !.slot = Anchor, !.rank = 1] = [key |-> g[l].key, slot |-> Anchor, rank |-> 1]
    <3>1. PICK e : e = [g[l] EXCEPT !.slot = Anchor]
      OBVIOUS
    <3>2. e = [key |-> x, slot |-> Anchor, rank |-> z]
      BY <2>6, <3>1
    <3>3. [e EXCEPT !.rank = 1] = [key |-> x, slot |-> Anchor, rank |-> 1]
      BY <3>2
    <3>4. QED
      BY <2>5, <3>1, <3>3
  <2>4. QED
    BY <2>1, <2>3
<1>9. DOMAIN h = DOMAIN g
  BY <1>7
<1>13. "waiting" \notin Slots /\ \A l \in Placing : assigned[l].slot \in Slots
  BY LeafIs DEF Slots, Anchor, Placing, Placeable
<1>10. Entries(h, {}) /\ Stays(h)
  <2>1. Anchor \in Slots /\ Anchor # "growth" /\ "waiting" # "growth"
    BY DEF Slots, Anchor
  <2>2. Entries(h, {})
    BY <1>6, <1>8, <2>1 DEF PutSoFar, Entries
  <2>3. ASSUME NEW l \in DOMAIN h PROVE h[l].slot = assigned[l].slot \/ assigned[l].slot = Anchor
    <3>1. l \in Placing /\ (g[l].slot = assigned[l].slot \/ assigned[l].slot = Anchor)
      BY <1>6, <1>8 DEF PutSoFar, Stays
    <3>2. CASE g[l].slot # "waiting"
      BY <1>8, <3>1, <3>2
    <3>3. CASE g[l].slot = "waiting"
      BY <1>13, <3>1, <3>3
    <3>4. QED
      BY <3>2, <3>3
  <2>4. QED
    BY <2>2, <2>3 DEF Stays
<1>11. ASSUME NEW l \in Placing, Twin(g, l) PROVE Twin(h, l)
  <2>1. PICK m \in DOMAIN g : /\ m # l /\ Line(m).text = Line(l).text
                              /\ g[m].key = LineKey(l) /\ g[m].slot = assigned[l].slot
                              /\ g[m].slot = Anchor => Line(l).num # None
    BY <1>11 DEF Twin
  <2>2. h[m] = g[m]
    BY <1>8, <1>9, <1>13, <2>1
  <2>3. QED
    BY <1>9, <2>1, <2>2 DEF Twin
<1>12. QED
  BY <1>2, <1>6, <1>9, <1>10, <1>11 DEF PutSoFar

(* Of some lines one is longest, and the first of those is one of them.    *)
LEMMA LongestOf ==
  ASSUME NEW S, S \subseteq Lines, S # {}, Len(input.lines) \in Nat, \A l \in S : Line(l).size \in Nat
  PROVE  First({l \in S : \A m \in S : Line(m).size <= Line(l).size}) \in S
<1> DEFINE R == {Line(l).size : l \in S}
           top == {l \in S : \A m \in S : Line(m).size <= Line(l).size}
<1>1. \E b \in Nat : \A l \in S : Line(l).size <= b
  <2> DEFINE UpTo(n) == \E b \in Nat : \A l \in S : l <= n => Line(l).size <= b
             B == {n \in Nat : ~UpTo(n)}
  <2>1. S \subseteq Nat \ {0} /\ \A l \in S : l <= Len(input.lines)
    BY DEF Lines
  <2>2. UpTo(0)
    <3>1. \A l \in S : ~(l <= 0)
      BY <2>1
    <3>2. QED
      BY <3>1
  <2>3. ASSUME NEW n \in Nat, n # 0, UpTo(n - 1) PROVE UpTo(n)
    <3>1. PICK b \in Nat : \A l \in S : l <= n - 1 => Line(l).size <= b
      BY <2>3
    <3>2. \A l \in S : l <= n => l = n \/ l <= n - 1
      BY <2>1
    <3>3. CASE n \notin S
      BY <3>1, <3>2, <3>3
    <3>4. CASE n \in S
      <4>1. Line(n).size \in Nat
        BY <3>4
      <4>2. PICK c \in Nat : c = b + Line(n).size /\ b <= c /\ Line(n).size <= c
        BY <4>1
      <4>3. \A l \in S : l <= n => Line(l).size <= c
        BY <3>1, <3>2, <4>2
      <4>4. QED
        BY <4>3
    <3>5. QED
      BY <3>3, <3>4
  <2> HIDE DEF UpTo
  <2>4. B = {}
    <3>1. SUFFICES ASSUME B # {} PROVE FALSE
      OBVIOUS
    <3>2. B \in SUBSET Nat
      OBVIOUS
    <3>3. PICK m \in B : \A r \in B : m <= r
      BY <3>1, <3>2, LeastOf
    <3>4. m \in Nat /\ m # 0 /\ ~UpTo(m)
      BY <2>2, <3>3
    <3>5. m - 1 \in Nat /\ ~(m <= m - 1)
      BY <3>4
    <3>6. UpTo(m - 1)
      BY <3>3, <3>5
    <3>7. QED
      BY <2>3, <3>4, <3>6
  <2>5. UpTo(Len(input.lines))
    BY <2>4
  <2>6. QED
    BY <2>1, <2>5 DEF UpTo
<1>2. PICK b \in Nat : R \in SUBSET (0..b)
  BY <1>1
<1>3. Greatest(R) \in R /\ \A r \in R : r <= Greatest(R)
  <2>1. R # {}
    OBVIOUS
  <2> HIDE DEF R
  <2>2. QED
    BY <1>2, <2>1, GreatestOf
<1>4. top # {} /\ top \in SUBSET Nat
  <2>1. PICK l \in S : Line(l).size = Greatest(R)
    BY <1>3
  <2>2. \A m \in S : Line(m).size \in R
    OBVIOUS
  <2>3. l \in top
    BY <1>3, <2>1, <2>2
  <2>4. S \subseteq Nat
    BY DEF Lines
  <2>5. top \subseteq S
    OBVIOUS
  <2> HIDE DEF top
  <2>6. QED
    BY <2>3, <2>4, <2>5
<1>5. top \subseteq S
  OBVIOUS
<1> HIDE DEF top
<1>6. First(top) \in top
  BY <1>4, LeastOf DEF First
<1>7. QED
  BY <1>5, <1>6 DEF top

(* A title is dropped for another title of its project.                    *)
LEMMA TitlesKeptKeeps ==
  ASSUME Placeable, NEW g, DOMAIN g \subseteq Placing, Entries(g, {}), Stays(g),
         \A l \in Placing : l \in DOMAIN g \/ Twin(g, l),
         NEW h, h = TitlesKept(g)
  PROVE  Filing(h)
<1> DEFINE titles(k) == {l \in LinesAt(g, k, Anchor) : Line(l).num # None}
           kept(k) == First({l \in titles(k) : \A m \in titles(k) : Line(m).size <= Line(l).size})
           dropped(l) == l \in titles(g[l].key) /\ l # kept(g[l].key)
<1>1. h = [l \in {m \in DOMAIN g : ~dropped(m)} |-> g[l]]
  BY DEF TitlesKept, Each
<1>7. Titles(g)
  <2>1. \A l \in DOMAIN g : assigned[l].slot \in Slots
    BY DEF Placing, Placeable
  <2>2. QED
    BY <2>1 DEF Titles, Stays
<1>2. ASSUME NEW l \in DOMAIN g, dropped(l)
      PROVE  \E m \in DOMAIN h : /\ m # l /\ Line(m).num # None /\ g[m].slot = Anchor
                                 /\ g[m].key = g[l].key
  <2> DEFINE k == g[l].key
  <2>1. /\ titles(k) # {} /\ titles(k) \subseteq Lines /\ \A m \in titles(k) : Line(m).size \in Nat
        /\ l # kept(k)
    BY <1>2 DEF LinesAt, Placing, Placeable
  <2>2. kept(k) \in titles(k)
    <3>1. PICK S : S = titles(k)
      OBVIOUS
    <3>2. Len(input.lines) \in Nat
      BY DEF Placeable
    <3>3. kept(k) = First({m \in S : \A r \in S : Line(r).size <= Line(m).size})
      BY <3>1
    <3> HIDE DEF titles, k, kept
    <3>4. QED
      BY <2>1, <3>1, <3>2, <3>3, LongestOf
  <2>3. /\ kept(k) \in DOMAIN g /\ g[kept(k)].key = k /\ g[kept(k)].slot = Anchor
        /\ Line(kept(k)).num # None
    BY <2>2 DEF LinesAt
  <2> HIDE DEF titles, kept
  <2>4. ~dropped(kept(k))
    BY <2>3
  <2>5. QED
    BY <1>1, <2>1, <2>3, <2>4
<1>3. ASSUME NEW l \in DOMAIN g, dropped(l)
      PROVE  Line(l).num # None /\ g[l].slot = Anchor
  BY <1>3 DEF LinesAt
<1>4. /\ DOMAIN h \subseteq DOMAIN g /\ \A l \in DOMAIN h : h[l] = g[l]
      /\ \A l \in DOMAIN g \ DOMAIN h : dropped(l)
  BY <1>1
<1> HIDE DEF dropped
<1>5. Entries(h, {}) /\ Titles(h) /\ \A l \in DOMAIN g : g[l].key = LineKey(l)
  BY <1>4, <1>7 DEF Entries, Titles
<1>6. ASSUME NEW l \in Placing, l \notin DOMAIN h
      PROVE  \E m \in DOMAIN h : Stand(h, m, l)
  <2>1. CASE l \in DOMAIN g
    <3>1. Line(l).num # None /\ g[l].slot = Anchor
      BY <1>3, <1>4, <1>6, <2>1
    <3>2. PICK m \in DOMAIN h : /\ m # l /\ Line(m).num # None /\ g[m].slot = Anchor
                                /\ g[m].key = g[l].key
      BY <1>2, <1>4, <1>6, <2>1
    <3>3. LineKey(m) = LineKey(l) /\ assigned[m].slot = Anchor /\ assigned[l].slot = Anchor
      BY <1>4, <1>5, <1>7, <2>1, <3>1, <3>2 DEF Titles
    <3>4. QED
      BY <3>1, <3>2, <3>3 DEF Stand, StandsFor
  <2>2. CASE l \notin DOMAIN g
    <3>1. PICK m \in DOMAIN g : /\ m # l /\ Line(m).text = Line(l).text
                                /\ g[m].key = LineKey(l) /\ g[m].slot = assigned[l].slot
                                /\ g[m].slot = Anchor => Line(l).num # None
      BY <2>2 DEF Twin
    <3>2. CASE m \in DOMAIN h
      <4>1. LineKey(m) = LineKey(l) /\ assigned[m].slot \in {assigned[l].slot, Anchor}
        BY <1>5, <3>1 DEF Stays
      <4>2. h[m].slot = Anchor => assigned[l].slot = Anchor
        BY <1>4, <3>1, <3>2
      <4>3. QED
        BY <3>1, <3>2, <4>1, <4>2 DEF Stand, StandsFor
    <3>3. CASE m \notin DOMAIN h
      <4>1. g[m].slot = Anchor /\ Line(l).num # None /\ assigned[l].slot = Anchor
        BY <1>3, <1>4, <3>1, <3>3
      <4>2. PICK r \in DOMAIN h : /\ Line(r).num # None /\ g[r].slot = Anchor
                                  /\ g[r].key = g[m].key
        BY <1>2, <1>4, <3>3
      <4>3. r # l /\ LineKey(r) = LineKey(l) /\ assigned[r].slot = Anchor
        BY <1>4, <1>5, <1>7, <2>2, <3>1, <4>2 DEF Titles
      <4>4. QED
        BY <4>1, <4>2, <4>3 DEF Stand, StandsFor
    <3>4. QED
      BY <3>2, <3>3
  <2>3. QED
    BY <2>1, <2>2
<1>8. QED
  BY <1>4, <1>5, <1>6 DEF Filing

(* No slot is in two templates, and there are finitely many.               *)
LEMMA TemplateIs ==
  /\ DOMAIN Template = {"basic", "trouble", "other"}
  /\ \A t \in DOMAIN Template : Template[t] # {} /\ Template[t] \subseteq Leaf
  /\ \A t, u \in DOMAIN Template : Template[t] \cap Template[u] # {} => t = u
  /\ IsFiniteSet(Leaf)
<1>1. DOMAIN Template = {"basic", "trouble", "other"}
  BY DEF Template
<1>2. Template["basic"] = {"b1"} /\ Template["trouble"] = {"t1", "t2"} /\ Template["other"] = {"o1"}
  BY DEF Template
<1>3. IsFiniteSet(Leaf)
  <2>1. Leaf = {"b1", "t1", "t2"} \cup {"o1"}
    BY LeafIs
  <2>2. IsFiniteSet({"o1"})
    BY FS_Singleton
  <2>3. {"b1", "t1", "t2"} = {"b1"} \cup ({"t1"} \cup {"t2"})
    OBVIOUS
  <2>4. IsFiniteSet({"b1"} \cup ({"t1"} \cup {"t2"}))
    BY FS_Singleton, FS_Union
  <2>5. QED
    BY <2>1, <2>2, <2>3, <2>4, FS_Union
<1>4. \A t, u \in DOMAIN Template : Template[t] \cap Template[u] # {} => t = u
  BY <1>1, <1>2
<1>5. \A t \in DOMAIN Template : Template[t] # {} /\ Template[t] \subseteq Leaf
  BY <1>1, <1>2, LeafIs
<1>6. QED
  BY <1>1, <1>3, <1>4, <1>5

(* A slot of another template becomes one of the chosen template; no       *)
(* line goes.                                                              *)
LEMMA OneTemplateKeeps ==
  ASSUME Placeable, NEW g, Filing(g), NEW h, h = OneTemplate(g)
  PROVE  Filing(h)
<1> DEFINE leaves(k) == {g[l].slot : l \in {m \in DOMAIN g : g[m].key = k}} \cap Leaf
           used(k, t) == Cardinality(leaves(k) \cap Template[t])
           chosen(k) == CHOOSE t \in DOMAIN Template : \A u \in DOMAIN Template : used(k, u) <= used(k, t)
           any(t) == CHOOSE q \in Template[t] : TRUE
           least(x) == Least(LinesAt(g, x.key, x.slot))
           fit(x) == [x EXCEPT !.rank = least(x),
                               !.slot = IF @ \in Template[chosen(x.key)] THEN @ ELSE any(chosen(x.key))]
<1>1. h = [l \in DOMAIN g |-> IF g[l].slot \in Leaf THEN fit(g[l]) ELSE g[l]]
  BY DEF OneTemplate, Each
<1>2. ASSUME NEW k PROVE chosen(k) \in DOMAIN Template
  <2>1. \A t : used(k, t) \in Nat
    <3>1. ASSUME NEW t PROVE used(k, t) \in Nat
      <4>1. leaves(k) \cap Template[t] \subseteq Leaf
        OBVIOUS
      <4>2. IsFiniteSet(leaves(k) \cap Template[t])
        BY <4>1, TemplateIs, FS_Subset
      <4>3. QED
        BY <4>2, FS_CardinalityType
    <3>2. QED
      BY <3>1
  <2> HIDE DEF used
  <2>2. \E t \in DOMAIN Template : \A u \in DOMAIN Template : used(k, u) <= used(k, t)
    <3>1. /\ used(k, "basic") \in Nat /\ used(k, "trouble") \in Nat /\ used(k, "other") \in Nat
      BY <2>1
    <3>2. DOMAIN Template = {"basic", "trouble", "other"}
      BY TemplateIs
    <3>3. \/ used(k, "trouble") <= used(k, "basic") /\ used(k, "other") <= used(k, "basic")
          \/ used(k, "basic") <= used(k, "trouble") /\ used(k, "other") <= used(k, "trouble")
          \/ used(k, "basic") <= used(k, "other") /\ used(k, "trouble") <= used(k, "other")
      BY <3>1
    <3>4. \A t \in DOMAIN Template : used(k, t) <= used(k, t)
      BY <2>1
    <3>5. QED
      BY <3>2, <3>3, <3>4
  <2>3. QED
    BY <2>2
<1>3. \A t \in DOMAIN Template : any(t) \in Template[t]
  BY TemplateIs
<1>11. ASSUME NEW l \in DOMAIN g PROVE least(g[l]) \in Nat
  <2> DEFINE S == LinesAt(g, g[l].key, g[l].slot)
  <2>1. l \in S /\ S \in SUBSET Nat
    BY DEF LinesAt, Filing, Placing, Placeable, Lines
  <2>2. least(g[l]) = Least(S)
    OBVIOUS
  <2> HIDE DEF S, least
  <2>3. Least(S) \in S
    BY <2>1, LeastOf
  <2>4. QED
    BY <2>1, <2>2, <2>3
<1> HIDE DEF chosen, any, used, leaves, least
<1>4. DOMAIN h = DOMAIN g
  BY <1>1
<1>5. ASSUME NEW l \in DOMAIN h
      PROVE  /\ h[l].key = g[l].key /\ h[l].rank \in Nat
             /\ h[l] = [key |-> h[l].key, slot |-> h[l].slot, rank |-> h[l].rank]
             /\ \/ h[l].slot = g[l].slot
                \/ g[l].slot \in Leaf /\ h[l].slot \in Template[chosen(g[l].key)]
  <2>1. g[l] = [key |-> g[l].key, slot |-> g[l].slot, rank |-> g[l].rank] /\ g[l].rank \in Nat
    BY <1>4 DEF Filing, Entries
  <2>2. h[l] = IF g[l].slot \in Leaf THEN fit(g[l]) ELSE g[l]
    BY <1>1, <1>4
  <2>3. CASE g[l].slot \in Leaf
    <3>1. PICK x : x = IF g[l].slot \in Template[chosen(g[l].key)] THEN g[l].slot ELSE any(chosen(g[l].key))
      OBVIOUS
    <3>2. h[l] = [g[l] EXCEPT !.rank = least(g[l]), !.slot = x]
      BY <2>2, <2>3, <3>1
    <3>3. h[l] = [key |-> g[l].key, slot |-> x, rank |-> least(g[l])]
      BY <2>1, <3>2
    <3>4. x = g[l].slot \/ x \in Template[chosen(g[l].key)]
      BY <1>2, <1>3, <3>1
    <3>5. QED
      BY <1>4, <1>11, <2>3, <3>3, <3>4
  <2>4. CASE g[l].slot \notin Leaf
    BY <2>1, <2>2, <2>4
  <2>5. QED
    BY <2>3, <2>4
<1>6. "growth" \notin Leaf /\ Anchor \notin Leaf
  BY LeafIs
<1>7. \A t \in DOMAIN Template : Template[t] \subseteq Leaf
  BY TemplateIs
<1>9. Entries(h, {})
  BY <1>2, <1>4, <1>5, <1>6, <1>7 DEF Filing, Entries, Slots
<1>8. \A l \in DOMAIN g : h[l].slot = Anchor <=> g[l].slot = Anchor
  BY <1>2, <1>4, <1>5, <1>6, <1>7
<1>12. Titles(h) /\ \A l : \A m \in DOMAIN g : Stand(g, m, l) => Stand(h, m, l)
  BY <1>4, <1>8 DEF Filing, Titles, Stand
<1>10. QED
  BY <1>4, <1>9, <1>12 DEF Filing

(* The first line becomes the title where there is none: then it is the    *)
(* only line there.                                                        *)
LEMMA WithTitleKeeps ==
  ASSUME NEW g, Filing(g), NEW h, h = WithTitle(g)
  PROVE  /\ DOMAIN h = DOMAIN g /\ Entries(h, {})
         /\ \A l \in DOMAIN g : /\ h[l].key = g[l].key
                                /\ h[l].slot # Anchor => h[l].slot = g[l].slot
                                /\ g[l].slot = Anchor => h[l].slot = Anchor
                                /\ \/ h[l].slot = g[l].slot
                                   \/ LinesAt(h, h[l].key, Anchor) = {l}
<1> DEFINE of(k) == {l \in DOMAIN g : g[l].key = k}
           raise(l) == LET k == g[l].key IN /\ k # <<"learning">> /\ l = First(of(k))
                                            /\ \A m \in of(k) : g[m].slot # Anchor
<1>1. h = [l \in DOMAIN g |-> IF raise(l) THEN [g[l] EXCEPT !.slot = Anchor] ELSE g[l]]
  BY DEF WithTitle, Each
<1>2. \A l : raise(l) => g[l].key # <<"learning">>
  OBVIOUS
<1>8. ASSUME NEW l \in DOMAIN g, raise(l), NEW m \in DOMAIN g, g[m].key = g[l].key
      PROVE  g[m].slot # Anchor /\ (raise(m) => m = l)
  <2>1. m \in of(g[l].key)
    BY <1>8
  <2>2. l = First(of(g[l].key)) /\ g[m].slot # Anchor
    BY <1>8, <2>1
  <2>3. raise(m) => m = First(of(g[m].key))
    OBVIOUS
  <2> HIDE DEF of, raise
  <2>4. QED
    BY <1>8, <2>2, <2>3
<1> HIDE DEF raise
<1>3. DOMAIN h = DOMAIN g
  BY <1>1
<1>4. ASSUME NEW l \in DOMAIN h
      PROVE  \/ h[l] = g[l] /\ ~raise(l)
             \/ /\ h[l] = [key |-> g[l].key, slot |-> Anchor, rank |-> g[l].rank]
                /\ g[l].key # <<"learning">> /\ raise(l)
  <2>1. g[l] = [key |-> g[l].key, slot |-> g[l].slot, rank |-> g[l].rank]
    BY <1>3 DEF Filing, Entries
  <2>2. CASE raise(l)
    <3>1. h[l] = [g[l] EXCEPT !.slot = Anchor]
      BY <1>1, <2>2
    <3>2. h[l] = [key |-> g[l].key, slot |-> Anchor, rank |-> g[l].rank]
      BY <2>1, <3>1
    <3>3. QED
      BY <1>2, <2>2, <3>2
  <2>3. CASE ~raise(l)
    BY <1>1, <2>3
  <2>4. QED
    BY <2>2, <2>3
<1>5. Anchor \notin Leaf /\ Anchor \in Slots /\ Anchor # "growth"
  BY LeafIs DEF Slots, Anchor
<1>6. Entries(h, {})
  BY <1>3, <1>4, <1>5 DEF Filing, Entries
<1>7. ASSUME NEW l \in DOMAIN g, raise(l) PROVE LinesAt(h, h[l].key, Anchor) = {l}
  <2>1. h[l].key = g[l].key /\ h[l].slot = Anchor
    BY <1>3, <1>4, <1>7
  <2>2. ASSUME NEW m \in DOMAIN h, h[m].key = h[l].key, h[m].slot = Anchor PROVE m = l
    <3>1. g[m].key = g[l].key /\ (raise(m) \/ g[m].slot = Anchor)
      BY <1>3, <1>4, <2>1, <2>2
    <3>2. QED
      BY <1>3, <1>7, <1>8, <3>1
  <2>3. QED
    BY <1>3, <2>1, <2>2 DEF LinesAt
<1>9. QED
  BY <1>3, <1>4, <1>6, <1>7

(* The lines that are cut begin behind all the room, and the others there  *)
(* fill it: of the lines without room none comes before the first.         *)
LEMMA TitleCutIs ==
  ASSUME Placeable, NEW g, DOMAIN g \subseteq Placing, Entries(g, {}), NEW h, h = TitleCut(g)
  PROVE  /\ DOMAIN h \subseteq DOMAIN g /\ \A l \in DOMAIN h : h[l] = g[l]
         /\ \A l \in DOMAIN g \ DOMAIN h :
              /\ g[l].slot = Anchor /\ Full(LinesAt(h, g[l].key, Anchor))
              /\ LinesAt(g, g[l].key, Anchor) # {l}
<1> DEFINE title(l) == LinesAt(g, g[l].key, Anchor)
           room(l) == ~Full({m \in title(l) : Precedes(g, m, l)})
           cut(l) == g[l].slot = Anchor /\ \E m \in title(l) : (m = l \/ Precedes(g, m, l)) /\ ~room(m)
<1>1. h = [l \in {m \in DOMAIN g : ~cut(m)} |-> g[l]]
  BY DEF TitleCut, Each
<1>2. \A l \in DOMAIN g : l \in Nat /\ g[l].rank \in Nat
  BY DEF Placing, Placeable, Lines, Entries
<1>3. \A a, b \in DOMAIN g : Precedes(g, a, b) \/ Precedes(g, b, a) \/ a = b
  BY <1>2 DEF Precedes
<1>4. \A a \in DOMAIN g : ~Precedes(g, a, a)
  BY <1>2 DEF Precedes
<1>5. \A a, b, c \in DOMAIN g : Precedes(g, a, b) /\ Precedes(g, b, c) => Precedes(g, a, c)
  BY <1>2 DEF Precedes
<1>6. ASSUME NEW l \in DOMAIN g, cut(l)
      PROVE  Full(LinesAt(h, g[l].key, Anchor)) /\ title(l) # {l}
  <2> DEFINE T == title(l)
             N == {m \in T : ~room(m)}
             low == Least({g[m].rank : m \in N})
             first == {m \in N : g[m].rank = low}
             c == Least(first)
  <2>1. N # {} /\ N \subseteq DOMAIN g
    BY <1>6 DEF LinesAt
  <2>2. \A m \in T : m \in DOMAIN g /\ g[m].slot = Anchor /\ g[m].key = g[l].key /\ title(m) = T
    BY DEF LinesAt
  <2> HIDE DEF T, room
  <2>3. low \in {g[m].rank : m \in N} /\ \A x \in {g[m].rank : m \in N} : low <= x
    <3> DEFINE R == {g[m].rank : m \in N}
    <3>1. R \in SUBSET Nat /\ R # {}
      BY <1>2, <2>1
    <3> HIDE DEF R, N
    <3>2. Least(R) \in R /\ \A x \in R : Least(R) <= x
      BY <3>1, LeastOf
    <3>3. QED
      BY <3>2 DEF R
  <2>4. first \in SUBSET Nat /\ first # {}
    BY <1>2, <2>1, <2>3
  <2>5. c \in first /\ \A m \in first : c <= m
    <3> HIDE DEF first, low
    <3>1. QED
      BY <2>4, LeastOf
  <2>6. c \in N /\ g[c].rank = low
    BY <2>5
  <2>7. ASSUME NEW m \in N, Precedes(g, m, c) PROVE FALSE
    <3>1. low <= g[m].rank /\ low \in Nat /\ g[m].rank \in Nat /\ m \in Nat /\ c \in Nat
      BY <1>2, <2>1, <2>3, <2>6
    <3>2. g[m].rank = low /\ m < c
      BY <2>6, <2>7, <3>1 DEF Precedes
    <3>3. c <= m
      BY <2>5, <3>2
    <3>4. QED
      BY <3>1, <3>2, <3>3
  <2> HIDE DEF low, first, c
  <2>8. \A m \in T : cut(m) <=> \E n \in N : n = m \/ Precedes(g, n, m)
    <3>1. \A m \in T : cut(m) <=> \E n \in T : (n = m \/ Precedes(g, n, m)) /\ ~room(n)
      <4> HIDE DEF title
      <4>1. QED
        BY <2>2
    <3>2. QED
      BY <3>1
  <2>9. \A m \in T : ~cut(m) <=> Precedes(g, m, c)
    <3>1. ASSUME NEW m \in T, ~cut(m) PROVE Precedes(g, m, c)
      <4>1. c # m /\ ~Precedes(g, c, m)
        BY <2>6, <2>8, <3>1
      <4>2. m \in DOMAIN g /\ c \in DOMAIN g
        BY <2>1, <2>2, <2>6
      <4>3. QED
        BY <1>3, <4>1, <4>2
    <3>2. ASSUME NEW m \in T, cut(m), Precedes(g, m, c) PROVE FALSE
      <4>1. PICK n \in N : n = m \/ Precedes(g, n, m)
        BY <2>8, <3>2
      <4>2. m \in DOMAIN g /\ c \in DOMAIN g /\ n \in DOMAIN g
        BY <2>1, <2>2, <2>6
      <4>3. Precedes(g, n, c)
        BY <1>5, <3>2, <4>1, <4>2
      <4>4. QED
        BY <2>7, <4>3
    <3>3. QED
      BY <3>1, <3>2
  <2>10. LinesAt(h, g[l].key, Anchor) = {m \in T : ~cut(m)}
    <3> HIDE DEF cut
    <3>1. DOMAIN h = {m \in DOMAIN g : ~cut(m)} /\ \A m \in DOMAIN h : h[m] = g[m]
      BY <1>1
    <3>2. T = {m \in DOMAIN g : g[m].key = g[l].key /\ g[m].slot = Anchor}
      BY DEF T, LinesAt
    <3>3. QED
      BY <3>1, <3>2 DEF LinesAt
  <2>11. {m \in T : ~cut(m)} = {m \in T : Precedes(g, m, c)}
    <3> HIDE DEF cut
    <3>1. QED
      BY <2>9
  <2>12. c \in T /\ Full({m \in T : Precedes(g, m, c)})
    <3>1. c \in T /\ ~room(c) /\ title(c) = T
      BY <2>2, <2>6
    <3>2. QED
      BY <3>1 DEF room
  <2>13. T # {l}
    <3>1. SUFFICES ASSUME T = {l} PROVE FALSE
      OBVIOUS
    <3>2. {m \in T : Precedes(g, m, c)} = {}
      BY <1>4, <2>12, <3>1
    <3>3. QED
      BY <2>12, <3>2 DEF Full
  <2>14. QED
    BY <2>10, <2>11, <2>12, <2>13 DEF T
<1>7. \A l : cut(l) => g[l].slot = Anchor
  OBVIOUS
<1> HIDE DEF cut, room, title
<1>8. /\ DOMAIN h \subseteq DOMAIN g /\ \A l \in DOMAIN h : h[l] = g[l]
      /\ \A l \in DOMAIN g \ DOMAIN h : cut(l)
  BY <1>1
<1>9. QED
  BY <1>6, <1>7, <1>8 DEF title

(* Where the lines are filed at last: each of them is, or another stands   *)
(* for it, or the others of its title fill the block.                      *)
CutOf(g, h) ==
  /\ DOMAIN h \subseteq Placing /\ Entries(h, {})
  /\ \A l \in DOMAIN h : /\ l \in DOMAIN g /\ h[l].key = g[l].key
                         /\ h[l].slot \in Leaf => h[l].slot = g[l].slot
  /\ \A l \in Placing \ DOMAIN h :
       \/ \E m \in DOMAIN h : m # l /\ StandsFor(m, l)
       \/ assigned[l].slot = Anchor /\ Full(LinesAt(h, LineKey(l), Anchor))

(* What is cut was assigned to be a title, and so was what it stood for.   *)
LEMMA FiledIs ==
  ASSUME Placeable
  PROVE  CutOf(Untitled, Filed)
<1>1. PICK g : g = Untitled
  OBVIOUS
<1>2. PICK w : w = WithTitle(g)
  OBVIOUS
<1>3. PICK h : h = Filed
  OBVIOUS
<1>4. Filing(g)
  BY <1>1, GroupedKeeps, TitlesKeptKeeps, OneTemplateKeeps DEF Untitled
<1>5. h = TitleCut(w)
  BY <1>1, <1>2, <1>3 DEF Filed
<1>6. DOMAIN g \subseteq Placing /\ Titles(g) /\ \A l \in DOMAIN g : g[l].key = LineKey(l)
  BY <1>4 DEF Filing, Entries
<1>7. DOMAIN w = DOMAIN g /\ Entries(w, {})
  BY <1>2, <1>4, WithTitleKeeps
<1>8. \A l \in DOMAIN g : /\ w[l].key = g[l].key
                          /\ w[l].slot # Anchor => w[l].slot = g[l].slot
                          /\ \/ w[l].slot = g[l].slot
                             \/ LinesAt(w, w[l].key, Anchor) = {l}
  BY <1>2, <1>4, WithTitleKeeps
<1>9. /\ DOMAIN h \subseteq DOMAIN w /\ \A l \in DOMAIN h : h[l] = w[l]
      /\ \A l \in DOMAIN w \ DOMAIN h :
           /\ w[l].slot = Anchor /\ Full(LinesAt(h, w[l].key, Anchor))
           /\ LinesAt(w, w[l].key, Anchor) # {l}
  BY <1>5, <1>6, <1>7, TitleCutIs
<1>10. ASSUME NEW m \in DOMAIN g, m \notin DOMAIN h
       PROVE  g[m].slot = Anchor /\ assigned[m].slot = Anchor /\ Full(LinesAt(h, LineKey(m), Anchor))
  <2>1. g[m].slot = Anchor /\ Full(LinesAt(h, LineKey(m), Anchor))
    BY <1>6, <1>7, <1>8, <1>9, <1>10
  <2>2. QED
    BY <1>6, <2>1 DEF Titles
<1>11. ASSUME NEW l \in Placing, l \notin DOMAIN h
       PROVE  \/ \E m \in DOMAIN h : m # l /\ StandsFor(m, l)
              \/ assigned[l].slot = Anchor /\ Full(LinesAt(h, LineKey(l), Anchor))
  <2>1. CASE l \in DOMAIN g
    BY <1>10, <1>11, <2>1
  <2>2. CASE l \notin DOMAIN g
    <3>1. PICK m \in DOMAIN g : m # l /\ StandsFor(m, l) /\ (g[m].slot = Anchor => assigned[l].slot = Anchor)
      BY <1>4, <2>2 DEF Filing, Stand
    <3>2. CASE m \in DOMAIN h
      BY <3>1, <3>2
    <3>3. CASE m \notin DOMAIN h
      <4>1. LineKey(m) = LineKey(l)
        BY <3>1 DEF StandsFor
      <4>2. QED
        BY <1>10, <3>1, <3>3, <4>1
    <3>4. QED
      BY <3>2, <3>3
  <2>3. QED
    BY <2>1, <2>2
<1>12. Entries(h, {})
  BY <1>7, <1>9 DEF Entries
<1>13. \A l \in DOMAIN h : /\ l \in DOMAIN g /\ h[l].key = g[l].key
                           /\ h[l].slot \in Leaf => h[l].slot = g[l].slot
  BY <1>7, <1>8, <1>9, LeafIs
<1>14. CutOf(g, h)
  BY <1>6, <1>7, <1>9, <1>11, <1>12, <1>13 DEF CutOf
<1>15. QED
  BY <1>1, <1>3, <1>14

(* t is s with new items that hold the lines of A, each line one item.     *)
Files(s, t, A) ==
  /\ List(t)
  /\ DOMAIN s \subseteq DOMAIN t /\ \A i \in DOMAIN s : t[i] = s[i]
  /\ \A i \in DOMAIN t \ DOMAIN s : t[i].src \subseteq A
  /\ \A l \in A : \E i \in DOMAIN t \ DOMAIN s :
       l \in t[i].src /\ \A j \in DOMAIN t \ DOMAIN s : l \in t[j].src => j = i

(* Two such steps, for different lines, are one.                           *)
LEMMA FilesOn ==
  ASSUME NEW s, NEW t, NEW u, NEW A, NEW B, Files(s, t, A), Files(t, u, B), A \cap B = {}
  PROVE  Files(s, u, A \cup B)
<1>1. DOMAIN s \subseteq DOMAIN u /\ \A i \in DOMAIN s : u[i] = s[i]
  BY DEF Files
<1>2. \A i \in DOMAIN t \ DOMAIN s : u[i].src \subseteq A /\ u[i] = t[i] /\ i \in DOMAIN u
  BY DEF Files
<1>3. \A i \in DOMAIN u \ DOMAIN t : u[i].src \subseteq B
  BY DEF Files
<1>4. ASSUME NEW l \in A
      PROVE  \E i \in DOMAIN u \ DOMAIN s :
               l \in u[i].src /\ \A j \in DOMAIN u \ DOMAIN s : l \in u[j].src => j = i
  <2>1. PICK i \in DOMAIN t \ DOMAIN s :
             l \in t[i].src /\ \A j \in DOMAIN t \ DOMAIN s : l \in t[j].src => j = i
    BY DEF Files
  <2>2. l \notin B
    BY <1>4
  <2>3. QED
    BY <1>2, <1>3, <2>1, <2>2
<1>5. ASSUME NEW l \in B
      PROVE  \E i \in DOMAIN u \ DOMAIN s :
               l \in u[i].src /\ \A j \in DOMAIN u \ DOMAIN s : l \in u[j].src => j = i
  <2>1. PICK i \in DOMAIN u \ DOMAIN t :
             l \in u[i].src /\ \A j \in DOMAIN u \ DOMAIN t : l \in u[j].src => j = i
    BY DEF Files
  <2>2. l \notin A
    BY <1>5
  <2>3. i \in DOMAIN u \ DOMAIN s
    BY <2>1 DEF Files
  <2>4. QED
    BY <1>2, <2>1, <2>2, <2>3
<1>6. \A i \in DOMAIN u \ DOMAIN s : u[i].src \subseteq A \cup B
  BY <1>2, <1>3
<1>7. List(u)
  BY DEF Files
<1>8. QED
  BY <1>1, <1>4, <1>5, <1>6, <1>7 DEF Files

(* Items that may be added to s.                                           *)
New(s, x) == DOMAIN x = Fields /\ x.sec = None /\ x.par \in 0..Top(s) \cup {None}

(* New items behind those there are.                                       *)
LEMMA AppendedMany ==
  ASSUME NEW s, List(s), NEW c \in Nat, NEW more, DOMAIN more = 1..c,
         \A j \in 1..c : New(s, more[j]), NEW t, t = Appended(s, more)
  PROVE  /\ List(t) /\ DOMAIN s \subseteq DOMAIN t /\ \A i \in DOMAIN s : t[i] = s[i]
         /\ \A j \in 1..c : Top(s) + j \in DOMAIN t \ DOMAIN s /\ t[Top(s) + j] = more[j]
         /\ \A i \in DOMAIN t \ DOMAIN s : \E j \in 1..c : i = Top(s) + j
<1>1. Top(s) \in Nat /\ DOMAIN s \subseteq 1..Top(s) /\ Within(s, Top(s))
  BY TopOf DEF Within
<1>2. t = [i \in DOMAIN s \cup {Top(s) + j : j \in 1..c} |->
             IF i \in DOMAIN s THEN s[i] ELSE more[i - Top(s)]]
  BY DEF Appended, Each
<1> DEFINE n == Top(s)
<1> HIDE DEF n
<1>3. n \in Nat /\ DOMAIN s \subseteq 1..n /\ \A i \in DOMAIN s : s[i].par \in 0..n \cup {None}
  BY <1>1 DEF n, Within
<1>4. \A j \in 1..c : n + j \notin DOMAIN s /\ n + j \in 1..(n + c) /\ (n + j) - n = j
  BY <1>3
<1>5. DOMAIN t = DOMAIN s \cup {n + j : j \in 1..c} /\ \A i \in DOMAIN s : t[i] = s[i]
  BY <1>2 DEF n
<1>6. \A j \in 1..c : n + j \in DOMAIN t /\ t[n + j] = more[j]
  BY <1>2, <1>4 DEF n
<1>7. \A i \in DOMAIN t : i \in DOMAIN s \/ \E j \in 1..c : i = n + j
  BY <1>5
<1>8. Within(t, n + c)
  <2>1. \A i \in DOMAIN s : i \in 1..(n + c)
    BY <1>3
  <2>2. \A i \in DOMAIN t : i \in 1..(n + c)
    BY <1>4, <1>7, <2>1
  <2>3. \A p \in 0..n : p \in 0..(n + c)
    BY <1>3
  <2>4. ASSUME NEW i \in DOMAIN t PROVE t[i].par \in 0..n \cup {None}
    BY <1>3, <1>5, <1>6, <1>7 DEF New, n
  <2>5. QED
    BY <2>2, <2>3, <2>4 DEF Within
<1>9. n + c \in Nat
  BY <1>3
<1>10. List(t)
  <2>1. Numbered(t)
    BY <1>8, <1>9 DEF Numbered
  <2>2. ASSUME NEW i \in DOMAIN t
        PROVE  DOMAIN t[i] = Fields /\ (t[i].sec # None => t[i].slot = None /\ t[i].src = {})
    BY <1>5, <1>6, <1>7 DEF List, Records, Clean, New
  <2>3. QED
    BY <2>1, <2>2 DEF List, Records, Clean
<1>11. QED
  BY <1>4, <1>5, <1>6, <1>7, <1>10 DEF n

(* New items made for the members of a set.                                *)
LEMMA AppendedEachFiles ==
  ASSUME NEW s, List(s), NEW S, IsFiniteSet(S), NEW made,
         \A q \in S : New(s, made[q]),
         \A q, r \in S : made[q].src \cap made[r].src # {} => q = r,
         NEW t, t = Appended(s, [j \in DOMAIN SetToSeq(S) |-> made[SetToSeq(S)[j]]])
  PROVE  Files(s, t, UNION {made[q].src : q \in S})
<1> DEFINE order == SetToSeq(S)
           c == Cardinality(S)
<1>1. /\ c \in Nat /\ DOMAIN order = 1..c /\ \A j \in 1..c : order[j] \in S
      /\ \A q \in S : \E j \in 1..c : order[j] = q
      /\ \A j, k \in 1..c : order[j] = order[k] => j = k
  BY SetToSeqOf, Zenon
<1>0. PICK new : new = [j \in DOMAIN order |-> made[order[j]]]
  OBVIOUS
<1> HIDE DEF order, c
<1>2. DOMAIN new = 1..c /\ \A j \in 1..c : new[j] = made[order[j]]
  BY <1>0, <1>1
<1>3. t = Appended(s, new)
  BY <1>0 DEF order
<1>4. \A j \in 1..c : New(s, new[j])
  BY <1>1, <1>2
<1>5. /\ List(t) /\ DOMAIN s \subseteq DOMAIN t /\ \A i \in DOMAIN s : t[i] = s[i]
      /\ \A j \in 1..c : Top(s) + j \in DOMAIN t \ DOMAIN s /\ t[Top(s) + j] = new[j]
      /\ \A i \in DOMAIN t \ DOMAIN s : \E j \in 1..c : i = Top(s) + j
  <2>1. PICK n : n = c
    OBVIOUS
  <2>2. n \in Nat /\ DOMAIN new = 1..n /\ \A j \in 1..n : New(s, new[j])
    BY <1>1, <1>2, <1>4, <2>1
  <2>3. List(t) /\ DOMAIN s \subseteq DOMAIN t
    BY <1>3, <2>2, AppendedMany
  <2>7. \A i \in DOMAIN s : t[i] = s[i]
    BY <1>3, <2>2, AppendedMany
  <2>4. \A j \in 1..n : Top(s) + j \in DOMAIN t \ DOMAIN s /\ t[Top(s) + j] = new[j]
    BY <1>3, <2>2, AppendedMany
  <2>5. \A i \in DOMAIN t \ DOMAIN s : \E j \in 1..n : i = Top(s) + j
    BY <1>3, <2>2, AppendedMany
  <2>6. QED
    BY <2>1, <2>3, <2>4, <2>5, <2>7
<1>6. ASSUME NEW i \in DOMAIN t \ DOMAIN s
      PROVE  \E q \in S : t[i].src = made[q].src
  <2>1. PICK j \in 1..c : i = Top(s) + j
    BY <1>5
  <2>2. t[i] = made[order[j]]
    BY <1>2, <1>5, <2>1
  <2>3. order[j] \in S
    BY <1>1
  <2>4. QED
    BY <2>2, <2>3
<1>7. ASSUME NEW q \in S, NEW l \in made[q].src
      PROVE  \E i \in DOMAIN t \ DOMAIN s :
               l \in t[i].src /\ \A j \in DOMAIN t \ DOMAIN s : l \in t[j].src => j = i
  <2>1. PICK j \in 1..c : order[j] = q
    BY <1>1
  <2>2. l \in t[Top(s) + j].src
    BY <1>2, <1>5, <1>7, <2>1
  <2>3. ASSUME NEW i \in DOMAIN t \ DOMAIN s, l \in t[i].src PROVE i = Top(s) + j
    <3>1. PICK m \in 1..c : i = Top(s) + m
      BY <1>5
    <3>2. l \in made[order[m]].src /\ order[m] \in S
      BY <1>1, <1>2, <1>5, <2>3, <3>1
    <3>3. order[m] = q
      BY <1>7, <3>2
    <3>4. m = j
      BY <1>1, <2>1, <3>3
    <3>5. QED
      BY <3>1, <3>4
  <2>4. QED
    BY <1>5, <2>2, <2>3
<1>8. QED
  BY <1>5, <1>6, <1>7 DEF Files

(* One new item.                                                           *)
LEMMA AppendedOneFiles ==
  ASSUME NEW s, List(s), NEW x, New(s, x), NEW t, t = Appended(s, <<x>>)
  PROVE  Files(s, t, x.src) /\ Fresh(s) \in DOMAIN t \ DOMAIN s /\ t[Fresh(s)].src = x.src
<1>1. PICK new : new = <<x>>
  OBVIOUS
<1>2. PICK c : c = 1
  OBVIOUS
<1>3. /\ c \in Nat /\ DOMAIN new = 1..c /\ t = Appended(s, new)
      /\ \A j \in 1..c : New(s, new[j]) /\ new[j] = x
  BY <1>1, <1>2
<1>4. List(t) /\ DOMAIN s \subseteq DOMAIN t
  BY <1>3, AppendedMany
<1>9. \A i \in DOMAIN s : t[i] = s[i]
  BY <1>3, AppendedMany
<1>5. \A j \in 1..c : Top(s) + j \in DOMAIN t \ DOMAIN s /\ t[Top(s) + j] = new[j]
  BY <1>3, AppendedMany
<1>6. \A i \in DOMAIN t \ DOMAIN s : \E j \in 1..c : i = Top(s) + j
  BY <1>3, AppendedMany
<1>7. /\ t[Top(s) + 1] = x /\ Top(s) + 1 \in DOMAIN t \ DOMAIN s
      /\ \A i \in DOMAIN t \ DOMAIN s : i = Top(s) + 1
  BY <1>2, <1>3, <1>5, <1>6
<1>8. QED
  BY <1>4, <1>7, <1>9 DEF Files, Fresh

(* Items as PlaceKey makes them may be added.                              *)
LEMMA MadeNew ==
  ASSUME NEW s, NEW ref, NEW par \in 0..Top(s) \cup {None}, NEW slot, NEW src, NEW b
  PROVE  /\ New(s, Item(ref, par, None, slot, src)) /\ Item(ref, par, None, slot, src).src = src
         /\ New(s, Update(Item(ref, par, None, slot, src), b))
         /\ Update(Item(ref, par, None, slot, src), b).src = src
BY MadeItem, MovedItem DEF New

(* The category holds no line.                                             *)
LEMMA WithSectionFiles ==
  ASSUME NEW s, List(s), NEW sec, sec # None, NEW t, t = WithSection(s, sec)
  PROVE  Files(s, t, {}) /\ SectionItem(t, sec) \in DOMAIN t
<1>1. /\ List(t) /\ Grown(s, t) /\ \A i \in DOMAIN s : t[i] = s[i]
      /\ SectionItem(t, sec) \in DOMAIN t
  BY WithSectionOf
<1>2. QED
  BY <1>1 DEF Files, Grown

(* Finitely many lines have finitely many places.                          *)
LEMMA ImageFinite ==
  ASSUME NEW g, NEW L, IsFiniteSet(L)
  PROVE  IsFiniteSet({<<g[l].slot, BlockOf(g, l)>> : l \in L})
<1> DEFINE B == {<<g[l].slot, BlockOf(g, l)>> : l \in L}
<1>1. [l \in L |-> <<g[l].slot, BlockOf(g, l)>>] \in Surjection(L, B)
  BY DEF Surjection
<1>2. QED
  BY <1>1, FS_Surjection

(* And finitely many slots.                                                *)
LEMMA PairsFinite ==
  ASSUME NEW S, IsFiniteSet(S)
  PROVE  IsFiniteSet({<<q, 1>> : q \in S})
<1> DEFINE B == {<<q, 1>> : q \in S}
<1>1. [q \in S |-> <<q, 1>>] \in Surjection(S, B)
  BY DEF Surjection
<1>2. QED
  BY <1>1, FS_Surjection

(* The slots below a new anchor: those its lines go to are among them.     *)
LEMMA OpenedIs ==
  ASSUME NEW h, NEW g, CutOf(h, g), NEW k
  PROVE  Opened(h, k) \subseteq Leaf /\ {q \in Leaf : LinesAt(g, k, q) # {}} \subseteq Opened(h, k)
<1>1. ASSUME NEW q \in Leaf PROVE TemplateOf(q) \in DOMAIN Template /\ q \in Template[TemplateOf(q)]
  BY DEF Leaf, TemplateOf
<1>2. Opened(h, k) \subseteq Leaf
  <2>1. \A q \in Leaf : Template[TemplateOf(q)] \subseteq Leaf
    BY <1>1, TemplateIs
  <2>2. QED
    BY <2>1 DEF Opened
<1>3. ASSUME NEW q \in Leaf, LinesAt(g, k, q) # {} PROVE q \in Opened(h, k)
  <2>1. PICK l \in DOMAIN g : g[l].key = k /\ g[l].slot = q
    BY <1>3 DEF LinesAt
  <2>2. l \in DOMAIN h /\ h[l].key = k /\ h[l].slot = q
    BY <1>3, <2>1 DEF CutOf
  <2>3. q \in Template[TemplateOf(h[l].slot)]
    BY <1>1, <2>2
  <2>4. QED
    BY <1>3, <2>2, <2>3 DEF Opened
<1>4. QED
  BY <1>2, <1>3

(* The lines of one key: each line begins in one of the blocks of its      *)
(* slot, and those of the title are together.                              *)
LEMMA PlaceKeyFiles ==
  ASSUME NEW s, List(s), NEW h, NEW g, CutOf(h, g), IsFiniteSet(DOMAIN g),
         NEW k, NEW u, u = PlaceKey(s, g, k, Opened(h, k))
  PROVE  /\ Files(s, u, {l \in DOMAIN g : g[l].key = k})
         /\ k # <<"learning">> => \E i \in DOMAIN u \ DOMAIN s : u[i].src = LinesAt(g, k, Anchor)
<1> DEFINE A == {l \in DOMAIN g : g[l].key = k}
           at(slot) == LinesAt(g, k, slot)
           in(p) == LinesIn(g, k, p)
           open == Opened(h, k)
           slots == {q \in Leaf : at(q) # {}}
           sec == IF k = <<"learning">> THEN "learning" ELSE "episodes"
           cat == Category(sec)
           t == IF cat # None THEN s ELSE WithSection(s, sec)
           up == IF cat = None THEN SectionItem(t, sec) ELSE None
           new(slot, src) == Item(cat, up, None, slot, src)
           used == {x.target : x \in All(s)}
           own(a, slot) == {b \in Children(a) : tree[b].slot = slot /\ tree[b].blank /\ b \notin used}
           blank == {a \in own(cat, Anchor) :
                       /\ \A b \in Children(a) : tree[b].blank
                       /\ slots \subseteq {tree[b].slot : b \in Children(a)}}
           item(a, p) == Item(a, None, None, p[1], in(p))
           fill(a, p) == IF p[2] # 1 \/ own(a, p[1]) = {} THEN item(a, p)
                         ELSE Update(item(a, p), CHOOSE b \in own(a, p[1]) : TRUE)
           child(p) == Item(None, Fresh(t), None, p[1], in(p))
           lesson(p) == IF cat = None THEN new("growth", in(p)) ELSE fill(cat, p)
           empty == {<<q, 1>> : q \in open \ slots}
           one == CHOOSE b \in blank : TRUE
           lessons == BlocksAt(g, k, {"growth"})
           texts == BlocksAt(g, k, slots)
           top == Appended(t, <<IF cat # None /\ blank # {} THEN Update(new(Anchor, at(Anchor)), one)
                                ELSE new(Anchor, at(Anchor))>>)
<1>1. u = IF sec = "learning"
          THEN Appended(t, [j \in DOMAIN SetToSeq(lessons) |-> lesson(SetToSeq(lessons)[j])])
          ELSE IF cat # None /\ blank # {}
          THEN Appended(top, [j \in DOMAIN SetToSeq(texts) |-> fill(one, SetToSeq(texts)[j])])
          ELSE Appended(top, [j \in DOMAIN SetToSeq(texts \cup empty) |-> child(SetToSeq(texts \cup empty)[j])])
  BY DEF PlaceKey, AppendedEach
<1>2. \A slot : at(slot) = {l \in DOMAIN g : g[l].key = k /\ g[l].slot = slot}
  BY DEF LinesAt
<1>3. sec # None /\ (sec = "learning" <=> k = <<"learning">>)
  BY NoneAssumption
<1>4. \A a, p : \/ fill(a, p) = item(a, p)
                \/ \E b : fill(a, p) = Update(item(a, p), b)
  OBVIOUS
<1>5. open \subseteq Leaf /\ slots \subseteq open /\ slots \subseteq Leaf
  BY OpenedIs
<1>20. \A p : in(p) = {l \in at(p[1]) : BlockOf(g, l) = p[2]}
  BY DEF LinesIn
<1>21. \A S : BlocksAt(g, k, S) = {<<g[l].slot, BlockOf(g, l)>> : l \in {m \in DOMAIN g : g[m].key = k /\ g[m].slot \in S}}
  BY DEF BlocksAt
<1>22. \A q : q \in Leaf /\ q \notin slots => at(q) = {}
  OBVIOUS
<1> HIDE DEF fill, sec, own, blank, used, one, open
<1>6. Files(s, t, {}) /\ up \in 0..Top(t) \cup {None}
  <2>1. CASE cat # None
    BY <2>1 DEF Files
  <2>2. CASE cat = None
    <3>1. Files(s, t, {}) /\ SectionItem(t, sec) \in DOMAIN t
      BY <1>3, <2>2, WithSectionFiles
    <3> HIDE DEF t
    <3>2. DOMAIN t \subseteq 1..Top(t)
      BY <3>1, TopOf DEF Files
    <3>3. QED
      BY <2>2, <3>1, <3>2
  <2>3. QED
    BY <2>1, <2>2
<1>7. List(t) /\ DOMAIN s \subseteq DOMAIN t
  BY <1>6 DEF Files
<1> HIDE DEF t, cat
<1>8. ASSUME NEW slot, NEW S, NEW b
      PROVE  /\ New(t, new(slot, S)) /\ new(slot, S).src = S
             /\ New(t, Update(new(slot, S), b)) /\ Update(new(slot, S), b).src = S
  <2>1. PICK p : p = up
    OBVIOUS
  <2>2. new(slot, S) = Item(cat, p, None, slot, S) /\ p \in 0..Top(t) \cup {None}
    BY <1>6, <2>1
  <2> HIDE DEF new
  <2>3. New(t, new(slot, S)) /\ new(slot, S).src = S
    BY <2>2, MadeNew
  <2>4. New(t, Update(new(slot, S), b)) /\ Update(new(slot, S), b).src = S
    BY <2>2, MadeNew
  <2>5. QED
    BY <2>3, <2>4
<1>9. ASSUME NEW v, NEW a, NEW p
      PROVE  New(v, fill(a, p)) /\ fill(a, p).src = in(p)
  <2>1. PICK S, slot : S = in(p) /\ slot = p[1]
    OBVIOUS
  <2>2. item(a, p) = Item(a, None, None, slot, S)
    BY <2>1
  <2>3. fill(a, p) = item(a, p) \/ \E b : fill(a, p) = Update(item(a, p), b)
    BY <1>4
  <2> HIDE DEF item
  <2>4. PICK n : n = None
    OBVIOUS
  <2>8. n \in 0..Top(v) \cup {None} /\ item(a, p) = Item(a, n, None, slot, S)
    BY <2>2, <2>4
  <2>5. New(v, item(a, p)) /\ item(a, p).src = S
    BY <2>8, MadeNew
  <2>6. ASSUME NEW b PROVE New(v, Update(item(a, p), b)) /\ Update(item(a, p), b).src = S
    BY <2>8, MadeNew
  <2>7. QED
    BY <2>1, <2>3, <2>5, <2>6
<1>23. ASSUME NEW p PROVE New(t, lesson(p)) /\ lesson(p).src = in(p)
  <2>1. PICK S : S = in(p)
    OBVIOUS
  <2>2. CASE cat = None
    <3>1. lesson(p) = new("growth", S)
      BY <2>1, <2>2
    <3> HIDE DEF lesson, new, in
    <3>2. QED
      BY <1>8, <2>1, <3>1
  <2>3. CASE cat # None
    <3>1. lesson(p) = fill(cat, p)
      BY <2>3
    <3> HIDE DEF lesson, in
    <3>2. QED
      BY <1>9, <3>1
  <2>4. QED
    BY <2>2, <2>3
<1> HIDE DEF up, new, item, lesson
<1>10. \A l \in A : g[l].slot \in Slots /\ (k = <<"learning">> <=> g[l].slot = "growth")
  BY DEF CutOf, Entries
(* The blocks of some slots, and perhaps others without a line, hold the   *)
(* lines of the slots.                                                     *)
<1> DEFINE Makes(v, P, made) ==
             /\ List(v) /\ \A p \in P : New(v, made[p]) /\ made[p].src = in(p)
             /\ u = Appended(v, [j \in DOMAIN SetToSeq(P) |-> made[SetToSeq(P)[j]]])
           Holds(P, S) ==
             \E E : P = BlocksAt(g, k, S) \cup E /\ IsFiniteSet(E) /\ \A p \in E : in(p) = {}
<1>24. ASSUME NEW v, NEW P, NEW S, NEW made, Makes(v, P, made), Holds(P, S)
       PROVE  Files(v, u, UNION {at(q) : q \in S})
  <2> DEFINE C == UNION {made[p].src : p \in P}
             L == {m \in DOMAIN g : g[m].key = k /\ g[m].slot \in S}
             B == {<<g[l].slot, BlockOf(g, l)>> : l \in L}
  <2>10. PICK E : P = BlocksAt(g, k, S) \cup E /\ IsFiniteSet(E) /\ \A p \in E : in(p) = {}
    BY <1>24
  <2>11. /\ List(v) /\ \A p \in P : New(v, made[p])
         /\ u = Appended(v, [j \in DOMAIN SetToSeq(P) |-> made[SetToSeq(P)[j]]])
    BY <1>24
  <2>12. \A p \in P : made[p].src = in(p)
    BY <1>24
  <2>1. IsFiniteSet(P)
    <3>1. IsFiniteSet(L)
      BY FS_Subset
    <3>3. IsFiniteSet(B)
      BY <3>1, ImageFinite
    <3>4. P = B \cup E
      BY <1>21, <2>10
    <3>6. IsFiniteSet(E)
      BY <2>10
    <3> HIDE DEF B
    <3>5. QED
      BY <3>3, <3>4, <3>6, FS_Union
  <2>2. \A p \in P : (\E l \in L : p = <<g[l].slot, BlockOf(g, l)>>) \/ in(p) = {}
    BY <1>21, <2>10
  <2>3. ASSUME NEW p \in P, NEW l \in in(p) PROVE p = <<g[l].slot, BlockOf(g, l)>> /\ l \in L
    <3>1. PICK m \in L : p = <<g[m].slot, BlockOf(g, m)>>
      BY <2>2, <2>3
    <3>2. l \in DOMAIN g /\ g[l].key = k /\ g[l].slot = p[1] /\ BlockOf(g, l) = p[2]
      BY <1>2, <1>20, <2>3
    <3>3. p[1] = g[m].slot /\ p[2] = BlockOf(g, m) /\ g[m].slot \in S
      BY <3>1
    <3>4. QED
      BY <3>1, <3>2, <3>3
  <2>4. \A p, r \in P : made[p].src \cap made[r].src # {} => p = r
    <3>1. ASSUME NEW p \in P, NEW r \in P, NEW l \in in(p), l \in in(r) PROVE p = r
      BY <2>3, <3>1
    <3> HIDE DEF in
    <3>2. QED
      BY <2>12, <3>1
  <2>5. Files(v, u, C)
    BY <2>1, <2>4, <2>11, AppendedEachFiles
  <2>6. ASSUME NEW l \in L
        PROVE  <<g[l].slot, BlockOf(g, l)>> \in P /\ l \in in(<<g[l].slot, BlockOf(g, l)>>)
    <3>1. <<g[l].slot, BlockOf(g, l)>> \in P
      BY <1>21, <2>10
    <3>2. PICK p : p = <<g[l].slot, BlockOf(g, l)>>
      OBVIOUS
    <3>3. p[1] = g[l].slot /\ p[2] = BlockOf(g, l)
      BY <3>2
    <3>4. l \in in(p)
      BY <1>2, <1>20, <3>3
    <3>5. QED
      BY <3>1, <3>2, <3>4
  <2>7. C = L
    <3>1. C = UNION {in(p) : p \in P}
      BY <2>12
    <3>2. \A l \in L : \E p \in P : l \in in(p)
      BY <2>6
    <3> HIDE DEF in, L
    <3>3. QED
      BY <2>3, <3>1, <3>2
  <2>8. L = UNION {at(q) : q \in S}
    BY <1>2
  <2>9. QED
    BY <2>5, <2>7, <2>8
<1> HIDE DEF in, Makes, Holds
<1>11. CASE sec = "learning"
  <2>1. A = at("growth")
    BY <1>2, <1>3, <1>10, <1>11
  <2>2. PICK made : made = [p \in lessons |-> lesson(p)]
    OBVIOUS
  <2>3. IsFiniteSet(lessons)
    <3>1. IsFiniteSet({m \in DOMAIN g : g[m].key = k /\ g[m].slot \in {"growth"}})
      BY FS_Subset
    <3>2. QED
      BY <1>21, <3>1, ImageFinite
  <2>4. \A j \in DOMAIN SetToSeq(lessons) : SetToSeq(lessons)[j] \in lessons
    BY <2>3, SetToSeqOf
  <2>5. u = Appended(t, [j \in DOMAIN SetToSeq(lessons) |-> lesson(SetToSeq(lessons)[j])])
    BY <1>1, <1>11
  <2>6. [j \in DOMAIN SetToSeq(lessons) |-> lesson(SetToSeq(lessons)[j])]
        = [j \in DOMAIN SetToSeq(lessons) |-> made[SetToSeq(lessons)[j]]]
    BY <2>2, <2>4
  <2>7. \A p \in lessons : New(t, made[p]) /\ made[p].src = in(p)
    BY <1>23, <2>2
  <2>8. lessons = BlocksAt(g, k, {"growth"}) \cup {}
    OBVIOUS
  <2> HIDE DEF lessons, at
  <2>14. Makes(t, lessons, made)
    BY <1>7, <2>5, <2>6, <2>7 DEF Makes
  <2>15. Holds(lessons, {"growth"})
    BY <2>8, FS_EmptySet DEF Holds
  <2>9. Files(t, u, UNION {at(q) : q \in {"growth"}})
    BY <1>24, <2>14, <2>15
  <2>10. UNION {at(q) : q \in {"growth"}} = A
    <3> HIDE DEF A
    <3>1. QED
      BY <2>1
  <2>11. {} \cap A = {} /\ {} \cup A = A
    OBVIOUS
  <2>12. Files(s, u, A)
    BY <1>6, <2>9, <2>10, <2>11, FilesOn
  <2>13. QED
    BY <1>3, <1>11, <2>12
<1>12. CASE sec # "learning"
  <2>1. Files(t, top, at(Anchor)) /\ Fresh(t) \in DOMAIN top \ DOMAIN t /\ top[Fresh(t)].src = at(Anchor)
    <3> DEFINE x == IF cat # None /\ blank # {} THEN Update(new(Anchor, at(Anchor)), one)
                    ELSE new(Anchor, at(Anchor))
    <3>1. New(t, x) /\ x.src = at(Anchor)
      BY <1>8
    <3>2. top = Appended(t, <<x>>)
      OBVIOUS
    <3> HIDE DEF x, top, at
    <3>3. QED
      BY <1>7, <3>1, <3>2, AppendedOneFiles
  <2> HIDE DEF top
  <2>2. List(top)
    BY <2>1 DEF Files
  <2>3. ASSUME Files(top, u, UNION {at(q) : q \in slots})
        PROVE  Files(s, u, A) /\ \E i \in DOMAIN u \ DOMAIN s : u[i].src = at(Anchor)
    <3> DEFINE C == UNION {at(q) : q \in slots}
    <3>5. at(Anchor) \cap C = {}
      BY <1>2, LeafIs
    <3>6. at(Anchor) \cup C = A
      <4>1. \A l \in A : g[l].slot = Anchor \/ g[l].slot \in slots
        <5>1. \A l \in A : g[l].slot \in Leaf \/ g[l].slot = Anchor
          BY <1>3, <1>10, <1>12 DEF Slots
        <5>2. \A l \in A : g[l].slot \in Leaf => g[l].slot \in slots
          BY <1>2
        <5>3. QED
          BY <5>1, <5>2
      <4>2. \A l \in C : l \in A
        BY <1>2
      <4>3. \A l \in at(Anchor) : l \in A
        BY <1>2
      <4>4. \A l \in A : l \in at(Anchor) \/ l \in C
        BY <1>2, <4>1
      <4> HIDE DEF A, C
      <4>5. QED
        BY <4>2, <4>3, <4>4
    <3>7. Files(top, u, C)
      BY <2>3
    <3> HIDE DEF A, C, at
    <3>8. Files(s, top, at(Anchor))
      <4>1. {} \cap at(Anchor) = {} /\ {} \cup at(Anchor) = at(Anchor)
        OBVIOUS
      <4>2. QED
        BY <1>6, <2>1, <4>1, FilesOn
    <3>9. Files(s, u, at(Anchor) \cup C)
      BY <3>5, <3>7, <3>8, FilesOn
    <3>10. Fresh(t) \in DOMAIN u \ DOMAIN s /\ u[Fresh(t)].src = at(Anchor)
      BY <1>7, <2>1, <3>7 DEF Files
    <3>11. QED
      BY <3>6, <3>9, <3>10
  <2>7. IsFiniteSet(texts)
    <3>1. IsFiniteSet({m \in DOMAIN g : g[m].key = k /\ g[m].slot \in slots})
      BY FS_Subset
    <3> HIDE DEF slots
    <3>2. QED
      BY <1>21, <3>1, ImageFinite
  <2>4. CASE cat # None /\ blank # {}
    <3>1. PICK made : made = [p \in texts |-> fill(one, p)]
      OBVIOUS
    <3>2. \A p \in texts : New(top, made[p]) /\ made[p].src = in(p)
      BY <1>9, <3>1
    <3>4. \A j \in DOMAIN SetToSeq(texts) : SetToSeq(texts)[j] \in texts
      BY <2>7, SetToSeqOf
    <3>5. u = Appended(top, [j \in DOMAIN SetToSeq(texts) |-> fill(one, SetToSeq(texts)[j])])
      BY <1>1, <1>12, <2>4
    <3>6. [j \in DOMAIN SetToSeq(texts) |-> fill(one, SetToSeq(texts)[j])]
          = [j \in DOMAIN SetToSeq(texts) |-> made[SetToSeq(texts)[j]]]
      BY <3>1, <3>4
    <3>7. texts = BlocksAt(g, k, slots) \cup {}
      OBVIOUS
    <3> HIDE DEF slots, at, texts
    <3>8. Holds(texts, slots)
      BY <3>7, FS_EmptySet DEF Holds
    <3>9. Makes(top, texts, made)
      BY <2>2, <3>2, <3>5, <3>6 DEF Makes
    <3>10. Files(top, u, UNION {at(q) : q \in slots})
      BY <1>24, <3>8, <3>9
    <3>11. QED
      BY <2>3, <3>10 DEF at
  <2>5. CASE ~(cat # None /\ blank # {})
    <3> DEFINE all == texts \cup empty
    <3>1. PICK made : made = [p \in all |-> child(p)]
      OBVIOUS
    <3>2. \A p \in all : New(top, made[p]) /\ made[p].src = in(p)
      <4>1. Fresh(t) \in 0..Top(top) \cup {None}
        <5>1. DOMAIN top \subseteq 1..Top(top)
          BY <2>2, TopOf
        <5>2. QED
          BY <2>1, <5>1
      <4>2. ASSUME NEW p \in all PROVE New(top, made[p]) /\ made[p].src = in(p)
        <5>1. PICK S, n, q : S = in(p) /\ n = Fresh(t) /\ q = p[1]
          OBVIOUS
        <5>2. made[p] = Item(None, n, None, q, S)
          BY <3>1, <5>1
        <5>3. n \in 0..Top(top) \cup {None}
          BY <4>1, <5>1
        <5>4. QED
          BY <5>1, <5>2, <5>3, MadeNew
      <4>3. QED
        BY <4>2
    <3>3. IsFiniteSet(empty) /\ \A p \in empty : in(p) = {}
      <4>1. IsFiniteSet(open \ slots)
        BY <1>5, TemplateIs, FS_Subset
      <4>2. IsFiniteSet(empty)
        <5> HIDE DEF slots
        <5>1. QED
          BY <4>1, PairsFinite
      <4>3. ASSUME NEW q \in open \ slots PROVE in(<<q, 1>>) = {}
        <5>1. at(q) = {}
          BY <1>5, <1>22
        <5>2. PICK p : p = <<q, 1>>
          OBVIOUS
        <5>3. p[1] = q
          BY <5>2
        <5> HIDE DEF at
        <5>4. in(p) = {}
          BY <1>20, <5>1, <5>3
        <5>5. QED
          BY <5>2, <5>4
      <4>4. QED
        BY <4>2, <4>3
    <3>4. all = BlocksAt(g, k, slots) \cup empty
      OBVIOUS
    <3>5. IsFiniteSet(all)
      BY <2>7, <3>3, FS_Union
    <3>6. u = Appended(top, [j \in DOMAIN SetToSeq(all) |-> child(SetToSeq(all)[j])])
      BY <1>1, <1>12, <2>5
    <3> HIDE DEF all, empty, slots, at, texts
    <3>7. \A j \in DOMAIN SetToSeq(all) : SetToSeq(all)[j] \in all
      BY <3>5, SetToSeqOf
    <3>8. [j \in DOMAIN SetToSeq(all) |-> child(SetToSeq(all)[j])]
          = [j \in DOMAIN SetToSeq(all) |-> made[SetToSeq(all)[j]]]
      BY <3>1, <3>7
    <3>9. Makes(top, all, made)
      BY <2>2, <3>2, <3>6, <3>8 DEF Makes
    <3>12. Holds(all, slots)
      BY <3>3, <3>4 DEF Holds
    <3>10. Files(top, u, UNION {at(q) : q \in slots})
      BY <1>24, <3>9, <3>12
    <3>11. QED
      BY <2>3, <3>10 DEF at
  <2>6. QED
    BY <2>4, <2>5
<1>13. QED
  BY <1>11, <1>12

(* Finitely many lines are filed.                                          *)
LEMMA FiledFinite ==
  ASSUME Placeable
  PROVE  IsFiniteSet(DOMAIN Filed)
<1>1. DOMAIN Filed \subseteq 1..Len(input.lines) /\ Len(input.lines) \in Nat
  BY FiledIs DEF CutOf, Placing, Placeable, Lines
<1>2. PICK n \in Nat : n = Len(input.lines)
  BY <1>1
<1>3. IsFiniteSet(1..n)
  BY <1>2, FS_Interval
<1>4. QED
  BY <1>1, <1>2, <1>3, FS_Subset

(* The lines placed with the first n of the keys.                          *)
PlacedBy(n) == {l \in DOMAIN Filed : \E m \in 1..n : KeyOrder[m] = Filed[l].key}

(* The keys are placed one after the other.                                *)
LEMMA KeyOrderIs ==
  ASSUME Placeable
  PROVE  \E c \in Nat :
           /\ DOMAIN KeyOrder = 1..c /\ Len(KeyOrder) = c
           /\ \A l \in DOMAIN Filed : \E m \in 1..c : KeyOrder[m] = Filed[l].key
           /\ \A j, k \in 1..c : KeyOrder[j] = KeyOrder[k] => j = k
<1> DEFINE S == {Filed[l].key : l \in DOMAIN Filed}
<1>1. IsFiniteSet(S)
  <2>1. IsFiniteSet(DOMAIN Filed)
    BY FiledFinite
  <2>2. [l \in DOMAIN Filed |-> Filed[l].key] \in Surjection(DOMAIN Filed, S)
    BY DEF Surjection
  <2>3. QED
    BY <2>1, <2>2, FS_Surjection
<1>2. PICK q : q = KeyOrder
  OBVIOUS
<1>3. q = SetToSeq(S)
  BY <1>2 DEF KeyOrder
<1>4. \A l \in DOMAIN Filed : Filed[l].key \in S
  OBVIOUS
<1> HIDE DEF S
<1>5. /\ Cardinality(S) \in Nat /\ DOMAIN q = 1..Cardinality(S) /\ Len(q) = Cardinality(S)
      /\ \A x \in S : \E k \in 1..Cardinality(S) : q[k] = x
      /\ \A j, k \in 1..Cardinality(S) : q[j] = q[k] => j = k
  BY <1>1, <1>3, SetToSeqOf
<1>7. QED
  BY <1>2, <1>4, <1>5

(* Blocks, key by key.                                                     *)
LEMMA BlocksRun ==
  ASSUME Placeable
  PROVE  \E f : /\ f[0] = <<>>
                /\ \A n \in 1..Len(KeyOrder) :
                     f[n] = PlaceKey(f[n - 1], Filed, KeyOrder[n], Opened(Untitled, KeyOrder[n]))
                /\ Blocks = f[Len(KeyOrder)]
<1> DEFINE h == OneTemplate(TitlesKept(Grouped))
           g == TitleCut(WithTitle(h))
           order == SetToSeq({g[l].key : l \in DOMAIN g})
           run[n \in 0..Len(order)] ==
             IF n = 0 THEN <<>> ELSE PlaceKey(run[n - 1], g, order[n], Opened(h, order[n]))
           Run(f) == f = [n \in 0..Len(order) |->
             IF n = 0 THEN <<>> ELSE PlaceKey(f[n - 1], g, order[n], Opened(h, order[n]))]
<1>1. Len(KeyOrder) \in Nat
  BY KeyOrderIs
<1>2. h = Untitled /\ g = Filed /\ order = KeyOrder
  BY DEF Untitled, Filed, KeyOrder
<1>3. Blocks = run[Len(order)]
  BY DEF Blocks
<1>4. PICK f : RunOf("key", <<>>, Len(KeyOrder), f)
  BY <1>1, RunExists, Zenon
<1>5. run = CHOOSE r : Run(r)
  OBVIOUS
<1> HIDE DEF run, h, g, order
<1>6. \A n : Rule("key", <<>>, f[n - 1], n) = PlaceKey(f[n - 1], g, order[n], Opened(h, order[n]))
  BY <1>2 DEF Rule
<1>7. Run(f)
  BY <1>2, <1>4, <1>6 DEF RunOf
<1>8. Run(run)
  <2> HIDE DEF Run
  <2>1. QED
    BY <1>5, <1>7
<1>9. run[0] = <<>>
  BY <1>1, <1>2, <1>8
<1>10. \A n \in 1..Len(KeyOrder) :
         run[n] = PlaceKey(run[n - 1], Filed, KeyOrder[n], Opened(Untitled, KeyOrder[n]))
  BY <1>1, <1>2, <1>8
<1>11. QED
  BY <1>2, <1>3, <1>9, <1>10

(* Every line that is filed is in exactly one block, and no other is; a    *)
(* block holds all of a title.                                             *)
Titled(s, k) == \E i \in DOMAIN s : s[i].src = LinesAt(Filed, k, Anchor)
LEMMA BlocksKeeps ==
  ASSUME Placeable
  PROVE  /\ Files(<<>>, Blocks, DOMAIN Filed)
         /\ \A l \in DOMAIN Filed : Filed[l].key # <<"learning">> => Titled(Blocks, Filed[l].key)
<1>1. PICK c \in Nat :
        /\ DOMAIN KeyOrder = 1..c /\ Len(KeyOrder) = c
        /\ \A l \in DOMAIN Filed : \E m \in 1..c : KeyOrder[m] = Filed[l].key
        /\ \A j, k \in 1..c : KeyOrder[j] = KeyOrder[k] => j = k
  BY KeyOrderIs
<1>2. PICK f : /\ f[0] = <<>>
               /\ \A n \in 1..c : f[n] = PlaceKey(f[n - 1], Filed, KeyOrder[n], Opened(Untitled, KeyOrder[n]))
               /\ Blocks = f[c]
  BY <1>1, BlocksRun
<1> DEFINE Ok(n) == /\ Files(<<>>, f[n], PlacedBy(n))
                    /\ \A m \in 1..n : KeyOrder[m] # <<"learning">> => Titled(f[n], KeyOrder[m])
           B == {m \in 0..c : ~Ok(m)}
<1>3. Ok(0)
  <2>1. PlacedBy(0) = {}
    BY DEF PlacedBy
  <2>2. List(f[0]) /\ DOMAIN f[0] = {}
    BY <1>2, EmptyList
  <2>3. DOMAIN <<>> = {}
    OBVIOUS
  <2>4. QED
    BY <2>1, <2>2, <2>3 DEF Files
<1>10. IsFiniteSet(DOMAIN Filed)
  BY FiledFinite
<1>4. ASSUME NEW n \in 1..c, Ok(n - 1) PROVE Ok(n)
  <2> DEFINE A == {l \in DOMAIN Filed : Filed[l].key = KeyOrder[n]}
  <2>1. List(f[n - 1])
    BY <1>4 DEF Files
  <2>2. /\ Files(f[n - 1], f[n], A)
        /\ KeyOrder[n] # <<"learning">> =>
             \E i \in DOMAIN f[n] \ DOMAIN f[n - 1] : f[n][i].src = LinesAt(Filed, KeyOrder[n], Anchor)
    <3>1. PICK s, h, g, k, u : /\ s = f[n - 1] /\ h = Untitled /\ g = Filed /\ k = KeyOrder[n]
                               /\ u = f[n]
      OBVIOUS
    <3>2. List(s) /\ CutOf(h, g) /\ IsFiniteSet(DOMAIN g) /\ u = PlaceKey(s, g, k, Opened(h, k))
      BY <1>2, <1>10, <2>1, <3>1, FiledIs
    <3>3. /\ Files(s, u, {l \in DOMAIN g : g[l].key = k})
          /\ k # <<"learning">> => \E i \in DOMAIN u \ DOMAIN s : u[i].src = LinesAt(g, k, Anchor)
      BY <3>2, PlaceKeyFiles
    <3>4. QED
      BY <3>1, <3>3
  <2>3. \A m \in 1..n - 1 : m \in 1..c /\ m # n /\ m \in 1..n
    OBVIOUS
  <2>8. \A m \in 1..n : m = n \/ m \in 1..n - 1
    OBVIOUS
  <2>4. PlacedBy(n - 1) \cap A = {}
    BY <1>1, <2>3 DEF PlacedBy
  <2>5. PlacedBy(n - 1) \cup A = PlacedBy(n)
    <3>2. n \in 1..n
      OBVIOUS
    <3>3. \A l \in PlacedBy(n) : l \in PlacedBy(n - 1) \/ l \in A
      BY <2>8 DEF PlacedBy
    <3>4. \A l \in PlacedBy(n - 1) : l \in PlacedBy(n)
      BY <2>3 DEF PlacedBy
    <3>5. \A l \in A : l \in PlacedBy(n)
      BY <3>2 DEF PlacedBy
    <3>6. QED
      BY <3>3, <3>4, <3>5
  <2> HIDE DEF A
  <2>6. Files(<<>>, f[n], PlacedBy(n - 1) \cup A)
    BY <1>4, <2>2, <2>4, FilesOn
  <2>9. ASSUME NEW m \in 1..n, KeyOrder[m] # <<"learning">> PROVE Titled(f[n], KeyOrder[m])
    <3>1. CASE m = n
      BY <2>2, <2>9, <3>1 DEF Titled
    <3>2. CASE m \in 1..n - 1
      <4>1. Titled(f[n - 1], KeyOrder[m])
        BY <1>4, <2>9, <3>2
      <4>2. PICK i \in DOMAIN f[n - 1] : f[n - 1][i].src = LinesAt(Filed, KeyOrder[m], Anchor)
        BY <4>1 DEF Titled
      <4>3. i \in DOMAIN f[n] /\ f[n][i] = f[n - 1][i]
        BY <2>2, <4>2 DEF Files
      <4>4. QED
        BY <4>2, <4>3 DEF Titled
    <3>3. QED
      BY <2>8, <3>1, <3>2
  <2>7. QED
    BY <2>5, <2>6, <2>9
<1> HIDE DEF Ok
<1>5. B = {}
  <2>1. SUFFICES ASSUME B # {} PROVE FALSE
    OBVIOUS
  <2>2. B \in SUBSET Nat
    OBVIOUS
  <2>3. PICK m \in B : \A r \in B : m <= r
    BY <2>1, <2>2, LeastOf
  <2>4. m # 0 /\ m \in 0..c /\ ~Ok(m)
    BY <1>3, <2>3
  <2>5. m \in 1..c /\ m - 1 \in 0..c /\ ~(m <= m - 1)
    BY <2>4
  <2>6. Ok(m - 1)
    BY <2>3, <2>5
  <2>7. QED
    BY <1>4, <2>4, <2>5, <2>6
<1>6. /\ Files(<<>>, f[c], PlacedBy(c))
      /\ \A m \in 1..c : KeyOrder[m] # <<"learning">> => Titled(f[c], KeyOrder[m])
  BY <1>5 DEF Ok
<1>7. PlacedBy(c) = DOMAIN Filed
  BY <1>1 DEF PlacedBy
<1>8. QED
  BY <1>1, <1>2, <1>6, <1>7

(* What is left out of the blocks: a line excluded, one another line in    *)
(* them stands for, or one of a title that is full.                        *)
Accounted(s, l) ==
  \/ Cardinality(Holding(s, l)) = 1
  \/ /\ Holding(s, l) = {}
     /\ \/ l \in gone
        \/ Line(l).head /\ answer[l].slot = Heading
        \/ Line(l).known
        \/ Line(l).size = 0
        \/ /\ l \in DOMAIN assigned
           /\ \E k \in DOMAIN assigned \ {l} : StandsFor(k, l) /\ \E x \in All(s) : k \in x.src
        \/ answer[l].slot = Instruction
        \/ \A k \in 1..l : ~InSlot(answer, k) \/ k \in gone
        \/ /\ l \in DOMAIN assigned /\ assigned[l].slot = Anchor
           /\ \E x \in All(s) : Full(x.src) /\ \A k \in x.src : LineKey(k) = LineKey(l)

(* It stays when nothing it is about changes.                              *)
LEMMA SameLines ==
  ASSUME input' = input, answer' = answer, gone' = gone, assigned' = assigned, NEW s, items' = s
  PROVE  /\ Lines' = Lines
         /\ \A l : Accounted(items, l)' <=> Accounted(s, l)
<1>1. Lines' = Lines /\ \A l : Line(l)' = Line(l)
  BY DEF Lines, Line
<1>2. \A l : LineKey(l)' = LineKey(l)
  BY <1>1 DEF LineKey, KeyOf
<1>3. \A k, l : StandsFor(k, l)' <=> StandsFor(k, l)
  BY <1>1, <1>2 DEF StandsFor
<1>4. \A S : Full(S)' <=> Full(S)
  <2>1. ASSUME NEW S PROVE [l \in S |-> Line(l)'.size + 1] = [l \in S |-> Line(l).size + 1]
    BY <1>1
  <2>2. QED
    BY <2>1 DEF Full
<1>5. All(items)' = All(s) /\ \A l : Holding(items, l)' = Holding(s, l)
  BY DEF All, Holding
<1>6. \A k : InSlot(answer, k)' <=> InSlot(answer, k)
  BY DEF InSlot
<1>7. QED
  BY <1>1, <1>2, <1>3, <1>4, <1>5, <1>6 DEF Accounted

(* What the blocks are: a line is in one of them, or it is known why it    *)
(* is in none.                                                             *)
LEMMA BlocksAccount ==
  ASSUME Len(input.lines) \in Nat, \A k \in Lines : Line(k).size \in Nat,
         assigned = Assigned(answer, gone), NEW l \in Lines
  PROVE  Accounted(Blocks, l)
<1>1. Placeable
  BY AssignedOf
<1>2. /\ CutOf(Untitled, Filed) /\ Files(<<>>, Blocks, DOMAIN Filed)
      /\ \A m \in DOMAIN Filed : Filed[m].key # <<"learning">> => Titled(Blocks, Filed[m].key)
  BY <1>1, FiledIs, BlocksKeeps
<1>3. PICK s, g, D : s = Blocks /\ g = Filed /\ D = DOMAIN Filed
  OBVIOUS
<1>4. DOMAIN <<>> = {}
  OBVIOUS
<1>5. /\ \A i \in DOMAIN s : s[i].src \subseteq D
      /\ \A k \in D : \E i \in DOMAIN s : k \in s[i].src /\ \A j \in DOMAIN s : k \in s[j].src => j = i
  BY <1>2, <1>3, <1>4 DEF Files
<1>6. /\ D \subseteq Placing
      /\ \A k \in Placing \ D : \/ \E m \in D : m # k /\ StandsFor(m, k)
                                \/ assigned[k].slot = Anchor /\ Full(LinesAt(g, LineKey(k), Anchor))
  BY <1>2, <1>3 DEF CutOf
<1>10. \A m \in D : g[m].key = LineKey(m) /\ (g[m].slot = Anchor => g[m].key # <<"learning">>)
  BY <1>2, <1>3 DEF CutOf, Entries, Anchor
<1>7. CASE l \in D
  <2>1. PICK i \in DOMAIN s : l \in s[i].src /\ \A j \in DOMAIN s : l \in s[j].src => j = i
    BY <1>5, <1>7
  <2>2. Holding(s, l) = {i}
    BY <2>1 DEF Holding
  <2>3. Cardinality(Holding(s, l)) = 1
    BY <2>2, FS_Singleton
  <2>4. QED
    BY <1>3, <2>3 DEF Accounted
<1>8. CASE l \notin D
  <2>1. Holding(s, l) = {}
    BY <1>5, <1>8 DEF Holding
  <2>2. CASE l \notin DOMAIN assigned
    <3>1. \/ l \in gone
          \/ Line(l).head /\ answer[l].slot = Heading
          \/ answer[l].slot = Instruction
          \/ \A k \in 1..l : ~InSlot(answer, k) \/ k \in gone
      BY <2>2, AssignedOf
    <3>2. QED
      BY <1>3, <2>1, <3>1 DEF Accounted
  <2>3. CASE l \in DOMAIN assigned /\ (Line(l).known \/ Line(l).size = 0)
    BY <1>3, <2>1, <2>3 DEF Accounted
  <2>4. CASE l \in Placing
    <3>1. l \in DOMAIN assigned
      BY <2>4 DEF Placing
    <3>2. ASSUME NEW m \in D, m # l, StandsFor(m, l) PROVE Accounted(s, l)
      <4>1. PICK i \in DOMAIN s : m \in s[i].src
        BY <1>5
      <4>2. m \in DOMAIN assigned \ {l} /\ s[i] \in All(s)
        BY <1>6, <3>2 DEF Placing, All
      <4>3. QED
        BY <2>1, <3>1, <3>2, <4>1, <4>2 DEF Accounted
    <3>3. ASSUME assigned[l].slot = Anchor, Full(LinesAt(g, LineKey(l), Anchor)) PROVE Accounted(s, l)
      <4>1. PICK m \in D : g[m].key = LineKey(l) /\ g[m].slot = Anchor
        BY <1>3, <3>3 DEF Full, LinesAt
      <4>2. Titled(s, LineKey(l))
        BY <1>2, <1>3, <1>10, <4>1
      <4>3. PICK i \in DOMAIN s : s[i].src = LinesAt(g, LineKey(l), Anchor)
        BY <1>3, <4>2 DEF Titled
      <4>4. \A k \in LinesAt(g, LineKey(l), Anchor) : LineKey(k) = LineKey(l)
        BY <1>3, <1>10 DEF LinesAt
      <4>5. s[i] \in All(s) /\ Full(s[i].src) /\ \A k \in s[i].src : LineKey(k) = LineKey(l)
        BY <3>3, <4>3, <4>4 DEF All
      <4>6. QED
        BY <2>1, <3>1, <3>3, <4>5 DEF Accounted
    <3>4. QED
      BY <1>3, <1>6, <1>8, <2>4, <3>2, <3>3
  <2>5. QED
    BY <2>2, <2>3, <2>4 DEF Placing
<1>9. QED
  BY <1>7, <1>8

(* The way of a file: what the blocks are made from is what the answers    *)
(* and the exclusions give.                                                *)
OfFile == {"gate", "assign", "verify", "place", "structure", "placed"}
FileInv ==
  /\ input \in Inputs
  /\ pc \in OfFile => "lines" \in DOMAIN input
  /\ pc = "structure" => assigned = Assigned(answer, gone)
  /\ NoLineLost

(* The batches of a message do not lead to it.                             *)
LEMMA NextStaysAway ==
  ASSUME Next
  PROVE  input' = input /\ pc' \notin OfFile
<1>1. \A again : StartRound(again) => input' = input /\ pc' \notin OfFile
  BY DEF StartRound, OfFile
<1>2. Fails => input' = input /\ pc' \notin OfFile
  BY DEF Fails, OfFile
<1>3. StartAgain => input' = input /\ pc' \notin OfFile
  BY <1>1, <1>2 DEF StartAgain
<1>4. CASE MatchEpisode
  BY <1>1, <1>4 DEF MatchEpisode
<1>5. CASE Answer
  <2>1. PICK s : pc = "ask" /\ (AcceptBatch(s) \/ AskAgain(s) \/ LoseBatch(s))
    BY <1>5 DEF Answer
  <2>2. CASE AcceptBatch(s)
    BY <2>2 DEF AcceptBatch, OfFile
  <2>3. CASE AskAgain(s)
    BY <2>1, <2>3 DEF AskAgain, OfFile
  <2>4. CASE LoseBatch(s)
    BY <1>3, <2>4 DEF LoseBatch
  <2>5. QED
    BY <2>1, <2>2, <2>3, <2>4
<1>6. CASE Unreadable
  BY <1>2, <1>6 DEF Unreadable, OfFile
<1>7. CASE Inconsistent
  BY <1>2, <1>7 DEF Inconsistent
<1>8. CASE CheckResult
  BY <1>2, <1>3, <1>8 DEF CheckResult, OfFile
<1>9. QED
  BY <1>4, <1>5, <1>6, <1>7, <1>8 DEF Next

(* The invariant of a file holds whatever the lines, their number, the     *)
(* activity and the answers are.                                           *)
THEOREM FileInvariantHolds == FSpec => []FileInv
<1>1. FInit => FileInv
  BY DEF FInit, FileInv, NoLineLost, OfFile, IsFile
<1>2. FileInv /\ [FNext]_<<vars, fvars>> => FileInv'
  <2> SUFFICES ASSUME FileInv, [FNext]_<<vars, fvars>> PROVE FileInv'
    OBVIOUS
  <2>1. ASSUME input' = input, pc' \notin OfFile PROVE FileInv'
    BY <2>1 DEF FileInv, NoLineLost, OfFile
  <2>2. ASSUME input' = input, pc \in OfFile, pc' \notin {"structure", "placed"} PROVE FileInv'
    BY <2>2 DEF FileInv, NoLineLost
  <2>3. CASE Next
    BY <2>1, <2>3, NextStaysAway
  <2>4. CASE Gate
    BY <2>2, <2>4 DEF Gate, Kept, OfFile
  <2>5. CASE \E n \in left : AssignChunk(n)
    BY <2>2, <2>5 DEF AssignChunk, Kept, OfFile
  <2>6. CASE Arrange
    BY <2>2, <2>6 DEF Arrange, Kept, OfFile
  <2>7. CASE VerifyExclusions
    BY <2>2, <2>7 DEF VerifyExclusions, Kept, OfFile
  <2>8. CASE PlaceLines
    <3>1. input' = input /\ pc \in OfFile /\ pc' # "placed"
      BY <2>8 DEF PlaceLines, Kept, OfFile
    <3>2. PICK a, out : answer' = a /\ gone' = out /\ assigned' = Assigned(a, out)
      BY <2>8 DEF PlaceLines
    <3>3. Assigned(answer, gone)' = Assigned(a, out)
      BY <3>1, <3>2 DEF Assigned, Skipped, InSlot, Lines, Line, Each
    <3>4. QED
      BY <3>1, <3>2, <3>3 DEF FileInv, NoLineLost
  <2>9. CASE StructureFile
    <3>1. /\ input' = input /\ pc = "structure" /\ pc' = "placed" /\ items' = Blocks
          /\ answer' = answer /\ gone' = gone
      BY <2>9 DEF StructureFile, Kept, fvars
    <3>2. /\ "lines" \in DOMAIN input /\ Len(input.lines) \in Nat
          /\ \A l \in Lines : Line(l).size \in Nat
      BY <3>1, InputAssumption, LineAssumption DEF FileInv, OfFile, Lines, Line
    <3>6. assigned' = assigned
      BY <2>9 DEF StructureFile, fvars
    <3>4. NoLineLost'
      <4>1. PICK s : s = Blocks
        OBVIOUS
      <4>2. Lines' = Lines /\ \A l : Accounted(items, l)' <=> Accounted(s, l)
        BY <3>1, <3>6, <4>1, SameLines
      <4>3. \A l \in Lines' : Accounted(items, l)'
        BY <3>1, <3>2, <4>1, <4>2, BlocksAccount DEF FileInv
      <4>4. QED
        BY <4>3 DEF NoLineLost, Accounted, LeftOut, TitleFull
    <3>5. QED
      BY <3>1, <3>2, <3>4 DEF FileInv
  <2>10. CASE FileFails
    BY <2>1, <2>10 DEF FileFails, Kept, OfFile
  <2>11. CASE UNCHANGED <<vars, fvars>>
    <3>1. /\ input' = input /\ items' = items /\ pc' = pc /\ answer' = answer /\ gone' = gone
          /\ assigned' = assigned
      BY <2>11 DEF vars, fvars
    <3>2. Assigned(answer, gone)' = Assigned(answer, gone)
      BY <3>1 DEF Assigned, Skipped, InSlot, Lines, Line, Each
    <3>3. NoLineLost'
      <4>1. PICK s : s = items
        OBVIOUS
      <4>2. Lines' = Lines /\ \A l : Accounted(items, l)' <=> Accounted(s, l)
        BY <3>1, <4>1, SameLines
      <4>3. pc' = "placed" => \A l \in Lines' : Accounted(items, l)'
        BY <3>1, <4>1, <4>2 DEF FileInv, NoLineLost, Accounted, LeftOut, TitleFull
      <4>4. QED
        BY <4>3 DEF NoLineLost, Accounted, LeftOut, TitleFull
    <3>4. QED
      BY <3>1, <3>2, <3>3 DEF FileInv
  <2>12. QED
    BY <2>3, <2>4, <2>5, <2>6, <2>7, <2>8, <2>9, <2>10, <2>11 DEF FNext
<1>3. QED
  BY <1>1, <1>2, PTL DEF FSpec

(* When the blocks of a file are made each line is in exactly one of       *)
(* them, or left out for one of the reasons NoLineLost names               *)
(* (file_pipeline, _blocks_from_assignment).                               *)
THEOREM NoLineLostHolds == FSpec => []NoLineLost
<1>1. FileInv => NoLineLost
  BY DEF FileInv
<1>2. QED
  BY <1>1, FileInvariantHolds, PTL
=============================================================================
