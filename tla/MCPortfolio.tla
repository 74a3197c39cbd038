----------------------------- MODULE MCPortfolio -----------------------------
(* A small instance of Interview and Portfolio for TLC.                    *)
EXTENDS Portfolio, TLC

CONSTANT First   \* of the workers, who takes a request when none is under way

(* The stages ask 3, 2, 3 and 3 questions in stages.yaml.                  *)
Questions == <<2, 1, 1, 1>>

(* Requests overlap, requests fail, and reports go wrong each in a part of *)
(* the instance of its own; a portfolio is made in the second and third.   *)
(* Their conjunction is left to the proofs.                                *)
Apart ==
  /\ overlaps' > 0 => failures' = 0 /\ job' = NoJob
  /\ failures' > 0 => unanswered' = 0 /\ broken' = 0

(* Who takes a request makes no difference.                                *)
InTurn == At(First, "idle") => \A w \in Worker \ {First} : At(w, "idle") => UNCHANGED work[w]

MCSpec == PInit /\ [][PNext /\ Apart /\ InTurn]_<<vars, pvars>>
=============================================================================
