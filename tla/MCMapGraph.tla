----------------------------- MODULE MCMapGraph -----------------------------
(* Small instances of MapGraph for TLC.                                    *)
EXTENDS MapGraph, TLC

CONSTANTS a1, a2, b1, b2

(* An activity with a written block and an empty slot, and an empty one.   *)
Tree == (a1 :> <<b1, b2>>) @@ (a2 :> <<>>)
=============================================================================
