---------------------------- MODULE MCKakaoTurn ----------------------------
(* Small instances of KakaoTurn for TLC.                                   *)
EXTENDS KakaoTurn, TLC

Symmetry == Permutations(Worker)

(* told, excused and the delivery status a worker is about to report to the
   main server are written only; the run that uses this view checks nothing
   that reads them.                                                        *)
StatusView ==
  <<turn, lease, clock, work, pc, view, done, post, committed, refunded, messenger,
    [w \in Worker |-> IF pc[w] = "finish" THEN note[w] ELSE "NOT_ATTEMPTED"]>>
=============================================================================
