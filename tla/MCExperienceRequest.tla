------------------------ MODULE MCExperienceRequest ------------------------
(* Small instances of ExperienceRequest for TLC.                           *)
EXTENDS ExperienceRequest, TLC

(* All requests go to the same session: the interesting races are there.   *)
OneSession == [r \in Request |-> CHOOSE s \in Session : TRUE]

Symmetry == Permutations(Request) \cup Permutations(Run)

(* Bound: one retry in all.                                                *)
OneRetry ==
  (\E r \in Request : retried[r])
    => \A r \in Request : status[r] = "failed" => status'[r] = "failed"
=============================================================================
