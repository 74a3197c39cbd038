------------------------ MODULE MCSlideRegeneration ------------------------
(* Small instances of SlideRegeneration for TLC.                           *)
EXTENDS SlideRegeneration, TLC

Symmetry == Permutations(Slide) \cup Permutations(Host)

(* Bound: at most two pushes at the same time, and beside the last push no *)
(* run that has got further than the download.                             *)
Early == {"idle", "done", "received", "known", "claimed", "reading", "acking"}
TwoAtATime ==
  /\ Cardinality({r \in Run : pc[r] \in Live}) <= 2
  /\ \A q, r \in Run : (\A p \in Run : p <= q) /\ pc[q] \in Live /\ r # q => pc[r] \in Early

(* What steers the runs.  Of the waiting slides, whether they have lost    *)
(* their task; of a run that has failed, not what it was doing.            *)
Control ==
  <<status, tasks, claims, pictured, overlap,
    {s \in Slide : status[s] \in InProgress /\ latest[s] \in lost},
    [r \in Run |-> CASE pc[r] \in {"idle", "done"} -> pc[r]
                     [] pc[r] = "failing" -> <<pc[r], taskOf[r], host[r]>>
                     [] OTHER -> <<pc[r], taskOf[r], host[r], at[r]>>]>>

(* An accepted result of the slide will never be promoted.                 *)
Forgone(s) == \E r \in accepted \ promoted : SlideOf(r) = s /\ pc[r] = "done"

(* No guard reads the versions.  What an attempt holds by the time it is   *)
(* copied is the deck of its run, and a back-up is the canonical file      *)
(* until the copies begin.  Of a slide whose result was forgone only the   *)
(* deck is read again.  An edit of a run that is over was accepted if a      *)
(* file holds it, or AcceptedOnly is violated already.                     *)
Versions ==
  LET forgone == {s \in Slide : Forgone(s)} IN
  <<fills, stored["pptx"], {r \in accepted : pc[r] # "done"}, forgone,
    {<<f, s, IF s \in forgone THEN stored[f][s] \subseteq accepted ELSE stored[f][s]>> :
       f \in {"pdf", "preview"}, s \in Slide},
    [r \in Run |-> CASE pc[r] \in {"reading", "uploading", "sending"} -> <<base[r], deck[r]>>
                     [] pc[r] = "backup" -> <<deck[r]>>
                     [] pc[r] = "copy" -> <<deck[r], backup[taskOf[r]]>>
                     [] pc[r] = "restore" -> <<[i \in 1..at[r] |-> backup[taskOf[r]][Promotions[i]]]>>
                     [] OTHER -> pc[r] = "acking" /\ r \in promoted]>>

(* Once two runs have overlapped, no property of the run that uses this    *)
(* view reads the versions.                                                *)
OneAtATimeView == <<Control, IF overlap THEN None ELSE Versions>>
=============================================================================
