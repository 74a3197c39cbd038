-------------------------- MODULE KakaoTurn_proofs --------------------------
(***************************************************************************)
(* Proofs about KakaoTurn for any number of workers, with leases that may  *)
(* lapse under a live worker and POSTs that take any time.                 *)
(*                                                                         *)
(* The checked invariants are not inductive: a stalled worker writes what  *)
(* it read long ago.  What makes that harmless is stated by Views (what it *)
(* has read is still what the row says, or was resolved and published      *)
(* since) and by Sender (whoever is about to send holds the only claim).   *)
(***************************************************************************)
EXTENDS KakaoTurn, TLAPS

(* Nothing happens to a turn that was not accepted.                        *)
Untouched ==
  state = "none" =>
    /\ outcome = "none" /\ ~claimed /\ ~url
    /\ \A w \in Worker : pc[w] = "off"

(* The text in the row was made for the outcome, possibly before it was resolved, and
   it is the text that was sent.                                           *)
Answered ==
  /\ outcome = "none" => payload = "none"
  /\ payload # "none" => \/ payload = Said(outcome)
                         \/ payload = "COMMIT_UNKNOWN" /\ outcome \in {"SUCCEEDED", "FAILED"}
  /\ sent # "none" => sent = payload
  /\ \A w \in Worker : pc[w] \in {"deliver", "sending"} => payload # "none"

(* Where a worker acts on the outcome it has read.                         *)
Settling == {"publish", "settle", "refund", "markUsage", "notify"}

Views ==
  \A w \in Worker :
    /\ pc[w] = "confirm" => view[w] \in {"EXPIRED", "FAILED"}
    /\ pc[w] = "record" => view[w] # "none"
    /\ pc[w] = "resolved" => view[w] \in {"SUCCEEDED", "FAILED"}
    /\ pc[w] \in Settling =>
         /\ view[w] # "none"
         /\ \/ view[w] = outcome
            \/ view[w] = "COMMIT_UNKNOWN" /\ outcome \in {"SUCCEEDED", "FAILED"}
               /\ state = outcome
    /\ pc[w] \in {"refund", "markUsage"} => Refundable(view[w])

Published ==
  /\ state \in Outcome => claimed /\ ~url /\ state = outcome
  /\ \A w \in Worker : pc[w] = "publish" => claimed /\ ~url

(* The worker that sends is alone, and nothing was sent before.            *)
Sender ==
  /\ sends > 0 => claimed
  /\ sends <= 1
  /\ \A w \in Worker : pc[w] = "sending" => claimed /\ sends = 0
  /\ \A v, w \in Worker : pc[v] = "sending" /\ pc[w] = "sending" => v = w

Inv == Untouched /\ Answered /\ Views /\ Published /\ Sender /\ RefundedFailed

-----------------------------------------------------------------------------
(* Types: a callback is counted within its bound.                          *)
LEMMA TypeStep == TypeOK /\ [Next]_vars => TypeOK'
<1> SUFFICES ASSUME TypeOK, [Next]_vars PROVE TypeOK'
  OBVIOUS
<1> USE WorkerAssumption
    DEF TypeOK, Outcome, Reply, Status, Open, WorkerPc, MaxSends, turn, lease, work, locals,
        main, messenger
<1>1. ASSUME Accept PROVE TypeOK'
  BY <1>1 DEF Accept
<1>2. ASSUME NEW w \in Worker, ClaimWorker(w) PROVE TypeOK'
  BY <1>2 DEF ClaimWorker, Fresh, Claimable, Unfinished, GoWith, GoDeliver, Interrupted,
     OutOfTime, Go
<1>3. ASSUME NEW w \in Worker, RenewWorker(w) PROVE TypeOK'
  BY <1>3 DEF RenewWorker
<1>4. ASSUME NEW w \in Worker, Raise(w) PROVE TypeOK'
  BY <1>4 DEF Raise, Leave, Go
<1>5. ASSUME NEW w \in Worker, Crash(w) PROVE TypeOK'
  BY <1>5 DEF Crash, Leave, Go
<1>6. ASSUME LeaseExpires PROVE TypeOK'
  <2>1. leaseLive' \in BOOLEAN
    BY <1>6 DEF LeaseExpires
  <2>2. QED
    BY <1>6, <2>1 DEF LeaseExpires
<1>7. ASSUME Tick PROVE TypeOK'
  BY <1>7 DEF Tick
<1>8. ASSUME PostSettles PROVE TypeOK'
  BY <1>8 DEF PostSettles
<1>9. ASSUME NEW w \in Worker, BeginsLate(w) PROVE TypeOK'
  BY <1>9 DEF BeginsLate, GoWith, Go
<1>10. ASSUME NEW w \in Worker, ClaimSession(w) PROVE TypeOK'
  BY <1>10 DEF ClaimSession, GoWith, Go
<1>11. ASSUME NEW w \in Worker, Replay(w) PROVE TypeOK'
  BY <1>11 DEF Replay, GoWith, Go
<1>12. ASSUME NEW w \in Worker, RetryRequired(w) PROVE TypeOK'
  BY <1>12 DEF RetryRequired, GoWith, Go
<1>13. ASSUME NEW w \in Worker, SendCommit(w) PROVE TypeOK'
  BY <1>13 DEF SendCommit, GoWith, Go
<1>14. ASSUME NEW w \in Worker, CommitAnswered(w) PROVE TypeOK'
  BY <1>14 DEF CommitAnswered, GoWith, Go
<1>15. ASSUME NEW w \in Worker, TurnEnds(w) PROVE TypeOK'
  BY <1>15 DEF TurnEnds, CloseRequest, GoWith, Go
<1>16. ASSUME NEW w \in Worker, TurnFails(w) PROVE TypeOK'
  BY <1>16 DEF TurnFails, CloseRequest, GoWith, Go
<1>17. ASSUME NEW w \in Worker, TimesOut(w) PROVE TypeOK'
  BY <1>17 DEF TimesOut, TimeOutWith, CloseRequest, GoWith, Go
<1>18. ASSUME NEW w \in Worker, ConfirmCommit(w) PROVE TypeOK'
  BY <1>18 DEF ConfirmCommit, GoWith, Go
<1>19. ASSUME NEW w \in Worker, RecordOutcome(w) PROVE TypeOK'
  BY <1>19 DEF RecordOutcome, WriteOutcome, GoWith, Go, Said
<1>20. ASSUME NEW w \in Worker, LookUpAnswered(w) PROVE TypeOK'
  BY <1>20 DEF LookUpAnswered, GoWith, Go
<1>21. ASSUME NEW w \in Worker, LookUpFails(w) PROVE TypeOK'
  BY <1>21 DEF LookUpFails, Go
<1>22. ASSUME NEW w \in Worker, ResolveCommitUnknown(w) PROVE TypeOK'
  <2>1. usageReported' \in BOOLEAN /\ completeNotified' \in BOOLEAN
    BY <1>22 DEF ResolveCommitUnknown, ReopenSettlement
  <2>2. QED
    BY <1>22, <2>1 DEF ResolveCommitUnknown, GoWith, Go
<1>23. ASSUME NEW w \in Worker, ReadRow(w) PROVE TypeOK'
  BY <1>23 DEF ReadRow, GoDeliver, Interrupted, OutOfTime, Go
<1>24. ASSUME NEW w \in Worker, ClaimDelivery(w) PROVE TypeOK'
  <2>1. claimed' \in BOOLEAN
    BY <1>24 DEF ClaimDelivery
  <2>2. QED
    BY <1>24, <2>1 DEF ClaimDelivery, Go
<1>25. ASSUME NEW w \in Worker, SendCallback(w) PROVE TypeOK'
  BY <1>25 DEF SendCallback, Go
<1>26. ASSUME NEW w \in Worker, FinishDelivery(w) PROVE TypeOK'
  <2>1. claimed' \in BOOLEAN /\ url' \in BOOLEAN
    BY <1>26 DEF FinishDelivery
  <2>2. QED
    BY <1>26, <2>1 DEF FinishDelivery, Leave, Go
<1>27. ASSUME NEW w \in Worker, RereadRow(w) PROVE TypeOK'
  BY <1>27 DEF RereadRow, DeliverySettled, GoWith, Go
<1>28. ASSUME NEW w \in Worker, PublishState(w) PROVE TypeOK'
  BY <1>28 DEF PublishState, WriteState, Go
<1>29. ASSUME NEW w \in Worker, ReadDues(w) PROVE TypeOK'
  <2>1. done' \in [Worker -> BOOLEAN]
    BY <1>29 DEF ReadDues, Leave, Go
  <2>2. QED
    BY <1>29, <2>1 DEF ReadDues, Leave, Go
<1>30. ASSUME NEW w \in Worker, UsageApplied(w) PROVE TypeOK'
  <2>1. done' \in [Worker -> BOOLEAN] /\ refunded' \in BOOLEAN
    BY <1>30 DEF UsageApplied, Proceed, Leave, Go
  <2>2. QED
    BY <1>30, <2>1 DEF UsageApplied, Proceed, Leave, Go
<1>31. ASSUME NEW w \in Worker, UsageCallFails(w) PROVE TypeOK'
  <2>1. done' \in [Worker -> BOOLEAN]
    BY <1>31 DEF UsageCallFails, Proceed, Leave, Go
  <2>2. QED
    BY <1>31, <2>1 DEF UsageCallFails, Proceed, Leave, Go
<1>32. ASSUME NEW w \in Worker, MarkUsageReported(w) PROVE TypeOK'
  <2>1. done' \in [Worker -> BOOLEAN] /\ usageReported' \in BOOLEAN
    BY <1>32 DEF MarkUsageReported, Proceed, Leave, Go
  <2>2. QED
    BY <1>32, <2>1 DEF MarkUsageReported, Proceed, Leave, Go
<1>33. ASSUME NEW w \in Worker, CompletionApplied(w) PROVE TypeOK'
  <2>1. done' \in [Worker -> BOOLEAN]
         /\ told' \in [outcome : Reply \cup {"none"}, delivery : Status]
    BY <1>33 DEF CompletionApplied, Leave, Go, Said
  <2>2. QED
    BY <1>33, <2>1 DEF CompletionApplied, Leave, Go
<1>34. ASSUME NEW w \in Worker, CompletionCallFails(w) PROVE TypeOK'
  BY <1>34 DEF CompletionCallFails, Leave, Go
<1>35. ASSUME NEW w \in Worker, MarkCompleteNotified(w) PROVE TypeOK'
  BY <1>35 DEF MarkCompleteNotified, Leave, Go
<1>36. ASSUME NEW w \in Worker, ReleaseWorker(w) PROVE TypeOK'
  BY <1>36 DEF ReleaseWorker, Leave, Go
<1>37. CASE UNCHANGED vars
  BY <1>37 DEF vars
<1>38. QED
  BY <1>1, <1>2, <1>3, <1>4, <1>5, <1>6, <1>7, <1>8, <1>9, <1>10, <1>11, <1>12, <1>13,
     <1>14, <1>15, <1>16, <1>17, <1>18, <1>19, <1>20, <1>21, <1>22, <1>23, <1>24, <1>25,
     <1>26, <1>27, <1>28, <1>29, <1>30, <1>31, <1>32, <1>33, <1>34, <1>35, <1>36,
     <1>37 DEF Next, Advance

(* Only Accept leaves the state "none".                                    *)
LEMMA UntouchedStep == TypeOK /\ Inv /\ [Next]_vars => Untouched'
<1> SUFFICES ASSUME TypeOK, Inv, [Next]_vars PROVE Untouched'
  OBVIOUS
<1> USE WorkerAssumption
    DEF TypeOK, Outcome, Reply, Status, Open, WorkerPc, MaxSends, turn, lease, work, locals,
        main, messenger, Inv, Untouched
<1>1. ASSUME Accept PROVE Untouched'
  BY <1>1 DEF Accept
<1>2. ASSUME NEW w \in Worker, ClaimWorker(w) PROVE Untouched'
  BY <1>2 DEF ClaimWorker, Fresh, Claimable, Unfinished, GoWith, GoDeliver, Interrupted,
     OutOfTime, Go
<1>3. ASSUME NEW w \in Worker, RenewWorker(w) PROVE Untouched'
  BY <1>3 DEF RenewWorker
<1>4. ASSUME NEW w \in Worker, Raise(w) PROVE Untouched'
  BY <1>4 DEF Raise, Leave, Go
<1>5. ASSUME NEW w \in Worker, Crash(w) PROVE Untouched'
  BY <1>5 DEF Crash, Leave, Go
<1>6. ASSUME LeaseExpires PROVE Untouched'
  BY <1>6 DEF LeaseExpires
<1>7. ASSUME Tick PROVE Untouched'
  BY <1>7 DEF Tick
<1>8. ASSUME PostSettles PROVE Untouched'
  BY <1>8 DEF PostSettles
<1>9. ASSUME NEW w \in Worker, BeginsLate(w) PROVE Untouched'
  BY <1>9 DEF BeginsLate, GoWith, Go
<1>10. ASSUME NEW w \in Worker, ClaimSession(w) PROVE Untouched'
  BY <1>10 DEF ClaimSession, GoWith, Go
<1>11. ASSUME NEW w \in Worker, Replay(w) PROVE Untouched'
  BY <1>11 DEF Replay, GoWith, Go
<1>12. ASSUME NEW w \in Worker, RetryRequired(w) PROVE Untouched'
  BY <1>12 DEF RetryRequired, GoWith, Go
<1>13. ASSUME NEW w \in Worker, SendCommit(w) PROVE Untouched'
  BY <1>13 DEF SendCommit, GoWith, Go
<1>14. ASSUME NEW w \in Worker, CommitAnswered(w) PROVE Untouched'
  BY <1>14 DEF CommitAnswered, GoWith, Go
<1>15. ASSUME NEW w \in Worker, TurnEnds(w) PROVE Untouched'
  BY <1>15 DEF TurnEnds, CloseRequest, GoWith, Go
<1>16. ASSUME NEW w \in Worker, TurnFails(w) PROVE Untouched'
  BY <1>16 DEF TurnFails, CloseRequest, GoWith, Go
<1>17. ASSUME NEW w \in Worker, TimesOut(w) PROVE Untouched'
  BY <1>17 DEF TimesOut, TimeOutWith, CloseRequest, GoWith, Go
<1>18. ASSUME NEW w \in Worker, ConfirmCommit(w) PROVE Untouched'
  BY <1>18 DEF ConfirmCommit, GoWith, Go
<1>19. ASSUME NEW w \in Worker, RecordOutcome(w) PROVE Untouched'
  BY <1>19 DEF RecordOutcome, WriteOutcome, GoWith, Go
<1>20. ASSUME NEW w \in Worker, LookUpAnswered(w) PROVE Untouched'
  BY <1>20 DEF LookUpAnswered, GoWith, Go
<1>21. ASSUME NEW w \in Worker, LookUpFails(w) PROVE Untouched'
  BY <1>21 DEF LookUpFails, Go
<1>22. ASSUME NEW w \in Worker, ResolveCommitUnknown(w) PROVE Untouched'
  BY <1>22 DEF ResolveCommitUnknown, ReopenSettlement, GoWith, Go, Views, Settling
<1>23. ASSUME NEW w \in Worker, ReadRow(w) PROVE Untouched'
  BY <1>23 DEF ReadRow, GoDeliver, Interrupted, OutOfTime, Go
<1>24. ASSUME NEW w \in Worker, ClaimDelivery(w) PROVE Untouched'
  BY <1>24 DEF ClaimDelivery, Unclaimed, Go
<1>25. ASSUME NEW w \in Worker, SendCallback(w) PROVE Untouched'
  BY <1>25 DEF SendCallback, Go
<1>26. ASSUME NEW w \in Worker, FinishDelivery(w) PROVE Untouched'
  BY <1>26 DEF FinishDelivery, Leave, Go
<1>27. ASSUME NEW w \in Worker, RereadRow(w) PROVE Untouched'
  BY <1>27 DEF RereadRow, DeliverySettled, GoWith, Go
<1>28. ASSUME NEW w \in Worker, PublishState(w) PROVE Untouched'
  BY <1>28 DEF PublishState, WriteState, Go, Views, Settling
<1>29. ASSUME NEW w \in Worker, ReadDues(w) PROVE Untouched'
  BY <1>29 DEF ReadDues, Refundable, Leave, Go
<1>30. ASSUME NEW w \in Worker, UsageApplied(w) PROVE Untouched'
  BY <1>30 DEF UsageApplied, Proceed, Leave, Go
<1>31. ASSUME NEW w \in Worker, UsageCallFails(w) PROVE Untouched'
  BY <1>31 DEF UsageCallFails, Proceed, Leave, Go
<1>32. ASSUME NEW w \in Worker, MarkUsageReported(w) PROVE Untouched'
  BY <1>32 DEF MarkUsageReported, Proceed, Leave, Go
<1>33. ASSUME NEW w \in Worker, CompletionApplied(w) PROVE Untouched'
  BY <1>33 DEF CompletionApplied, Leave, Go
<1>34. ASSUME NEW w \in Worker, CompletionCallFails(w) PROVE Untouched'
  BY <1>34 DEF CompletionCallFails, Leave, Go
<1>35. ASSUME NEW w \in Worker, MarkCompleteNotified(w) PROVE Untouched'
  BY <1>35 DEF MarkCompleteNotified, Leave, Go
<1>36. ASSUME NEW w \in Worker, ReleaseWorker(w) PROVE Untouched'
  BY <1>36 DEF ReleaseWorker, Leave, Go
<1>37. CASE UNCHANGED vars
  BY <1>37 DEF vars
<1>38. QED
  BY <1>1, <1>2, <1>3, <1>4, <1>5, <1>6, <1>7, <1>8, <1>9, <1>10, <1>11, <1>12, <1>13,
     <1>14, <1>15, <1>16, <1>17, <1>18, <1>19, <1>20, <1>21, <1>22, <1>23, <1>24, <1>25,
     <1>26, <1>27, <1>28, <1>29, <1>30, <1>31, <1>32, <1>33, <1>34, <1>35, <1>36,
     <1>37 DEF Next, Advance

(* The outcome is written once, with its text, and changed only by resolving it. *)
LEMMA AnsweredStep == TypeOK /\ Inv /\ [Next]_vars => Answered'
<1> SUFFICES ASSUME TypeOK, Inv, [Next]_vars PROVE Answered'
  OBVIOUS
<1> USE WorkerAssumption
    DEF TypeOK, Outcome, Reply, Status, Open, WorkerPc, MaxSends, turn, lease, work, locals,
        main, messenger, Inv, Answered, Published
<1>1. ASSUME Accept PROVE Answered'
  BY <1>1 DEF Accept, Said
<1>2. ASSUME NEW w \in Worker, ClaimWorker(w) PROVE Answered'
  BY <1>2 DEF ClaimWorker, Fresh, Claimable, Unfinished, GoWith, GoDeliver, Interrupted,
     OutOfTime, Go, Said
<1>3. ASSUME NEW w \in Worker, RenewWorker(w) PROVE Answered'
  BY <1>3 DEF RenewWorker, Said
<1>4. ASSUME NEW w \in Worker, Raise(w) PROVE Answered'
  BY <1>4 DEF Raise, Leave, Go, Said
<1>5. ASSUME NEW w \in Worker, Crash(w) PROVE Answered'
  BY <1>5 DEF Crash, Leave, Go, Said
<1>6. ASSUME LeaseExpires PROVE Answered'
  BY <1>6 DEF LeaseExpires, Said
<1>7. ASSUME Tick PROVE Answered'
  BY <1>7 DEF Tick, Said
<1>8. ASSUME PostSettles PROVE Answered'
  BY <1>8 DEF PostSettles, Said
<1>9. ASSUME NEW w \in Worker, BeginsLate(w) PROVE Answered'
  BY <1>9 DEF BeginsLate, GoWith, Go, Said
<1>10. ASSUME NEW w \in Worker, ClaimSession(w) PROVE Answered'
  BY <1>10 DEF ClaimSession, GoWith, Go, Said
<1>11. ASSUME NEW w \in Worker, Replay(w) PROVE Answered'
  BY <1>11 DEF Replay, GoWith, Go, Said
<1>12. ASSUME NEW w \in Worker, RetryRequired(w) PROVE Answered'
  BY <1>12 DEF RetryRequired, GoWith, Go, Said
<1>13. ASSUME NEW w \in Worker, SendCommit(w) PROVE Answered'
  BY <1>13 DEF SendCommit, GoWith, Go, Said
<1>14. ASSUME NEW w \in Worker, CommitAnswered(w) PROVE Answered'
  BY <1>14 DEF CommitAnswered, GoWith, Go, Said
<1>15. ASSUME NEW w \in Worker, TurnEnds(w) PROVE Answered'
  BY <1>15 DEF TurnEnds, CloseRequest, GoWith, Go, Said
<1>16. ASSUME NEW w \in Worker, TurnFails(w) PROVE Answered'
  BY <1>16 DEF TurnFails, CloseRequest, GoWith, Go, Said
<1>17. ASSUME NEW w \in Worker, TimesOut(w) PROVE Answered'
  BY <1>17 DEF TimesOut, TimeOutWith, CloseRequest, GoWith, Go, Said
<1>18. ASSUME NEW w \in Worker, ConfirmCommit(w) PROVE Answered'
  BY <1>18 DEF ConfirmCommit, GoWith, Go, Said
<1>19. ASSUME NEW w \in Worker, RecordOutcome(w) PROVE Answered'
  BY <1>19 DEF RecordOutcome, WriteOutcome, GoWith, Go, Said
<1>20. ASSUME NEW w \in Worker, LookUpAnswered(w) PROVE Answered'
  BY <1>20 DEF LookUpAnswered, GoWith, Go, Said
<1>21. ASSUME NEW w \in Worker, LookUpFails(w) PROVE Answered'
  BY <1>21 DEF LookUpFails, Go, Said
<1>22. ASSUME NEW w \in Worker, ResolveCommitUnknown(w) PROVE Answered'
  BY <1>22 DEF ResolveCommitUnknown, ReopenSettlement, GoWith, Go, Said, Views, Settling
<1>23. ASSUME NEW w \in Worker, ReadRow(w) PROVE Answered'
  BY <1>23 DEF ReadRow, GoDeliver, Interrupted, OutOfTime, Go, Said
<1>24. ASSUME NEW w \in Worker, ClaimDelivery(w) PROVE Answered'
  BY <1>24 DEF ClaimDelivery, Unclaimed, Go, Said
<1>25. ASSUME NEW w \in Worker, SendCallback(w) PROVE Answered'
  BY <1>25 DEF SendCallback, Go, Said
<1>26. ASSUME NEW w \in Worker, FinishDelivery(w) PROVE Answered'
  BY <1>26 DEF FinishDelivery, Leave, Go, Said
<1>27. ASSUME NEW w \in Worker, RereadRow(w) PROVE Answered'
  BY <1>27 DEF RereadRow, DeliverySettled, GoWith, Go, Said
<1>28. ASSUME NEW w \in Worker, PublishState(w) PROVE Answered'
  BY <1>28 DEF PublishState, WriteState, Go, Said
<1>29. ASSUME NEW w \in Worker, ReadDues(w) PROVE Answered'
  BY <1>29 DEF ReadDues, Refundable, Leave, Go, Said
<1>30. ASSUME NEW w \in Worker, UsageApplied(w) PROVE Answered'
  BY <1>30 DEF UsageApplied, Proceed, Leave, Go, Said
<1>31. ASSUME NEW w \in Worker, UsageCallFails(w) PROVE Answered'
  BY <1>31 DEF UsageCallFails, Proceed, Leave, Go, Said
<1>32. ASSUME NEW w \in Worker, MarkUsageReported(w) PROVE Answered'
  BY <1>32 DEF MarkUsageReported, Proceed, Leave, Go, Said
<1>33. ASSUME NEW w \in Worker, CompletionApplied(w) PROVE Answered'
  BY <1>33 DEF CompletionApplied, Leave, Go, Said
<1>34. ASSUME NEW w \in Worker, CompletionCallFails(w) PROVE Answered'
  BY <1>34 DEF CompletionCallFails, Leave, Go, Said
<1>35. ASSUME NEW w \in Worker, MarkCompleteNotified(w) PROVE Answered'
  BY <1>35 DEF MarkCompleteNotified, Leave, Go, Said
<1>36. ASSUME NEW w \in Worker, ReleaseWorker(w) PROVE Answered'
  BY <1>36 DEF ReleaseWorker, Leave, Go, Said
<1>37. CASE UNCHANGED vars
  BY <1>37 DEF vars
<1>38. QED
  BY <1>1, <1>2, <1>3, <1>4, <1>5, <1>6, <1>7, <1>8, <1>9, <1>10, <1>11, <1>12, <1>13,
     <1>14, <1>15, <1>16, <1>17, <1>18, <1>19, <1>20, <1>21, <1>22, <1>23, <1>24, <1>25,
     <1>26, <1>27, <1>28, <1>29, <1>30, <1>31, <1>32, <1>33, <1>34, <1>35, <1>36,
     <1>37 DEF Next, Advance

(* What a worker read stays true until it acts on it.                      *)
LEMMA ViewsStep == TypeOK /\ Inv /\ [Next]_vars => Views'
<1> SUFFICES ASSUME TypeOK, Inv, [Next]_vars PROVE Views'
  OBVIOUS
<1> USE WorkerAssumption
    DEF TypeOK, Outcome, Reply, Status, Open, WorkerPc, MaxSends, turn, lease, work, locals,
        main, messenger, Inv, Untouched, Views, Settling, Published, Refundable
<1>1. ASSUME Accept PROVE Views'
  BY <1>1 DEF Accept
<1>2. ASSUME NEW w \in Worker, ClaimWorker(w) PROVE Views'
  BY <1>2 DEF ClaimWorker, Fresh, Claimable, Unfinished, GoWith, GoDeliver, Interrupted,
     OutOfTime, Go
<1>3. ASSUME NEW w \in Worker, RenewWorker(w) PROVE Views'
  BY <1>3 DEF RenewWorker
<1>4. ASSUME NEW w \in Worker, Raise(w) PROVE Views'
  BY <1>4 DEF Raise, Leave, Go
<1>5. ASSUME NEW w \in Worker, Crash(w) PROVE Views'
  BY <1>5 DEF Crash, Leave, Go
<1>6. ASSUME LeaseExpires PROVE Views'
  BY <1>6 DEF LeaseExpires
<1>7. ASSUME Tick PROVE Views'
  BY <1>7 DEF Tick
<1>8. ASSUME PostSettles PROVE Views'
  BY <1>8 DEF PostSettles
<1>9. ASSUME NEW w \in Worker, BeginsLate(w) PROVE Views'
  BY <1>9 DEF BeginsLate, GoWith, Go
<1>10. ASSUME NEW w \in Worker, ClaimSession(w) PROVE Views'
  BY <1>10 DEF ClaimSession, GoWith, Go
<1>11. ASSUME NEW w \in Worker, Replay(w) PROVE Views'
  BY <1>11 DEF Replay, GoWith, Go
<1>12. ASSUME NEW w \in Worker, RetryRequired(w) PROVE Views'
  BY <1>12 DEF RetryRequired, GoWith, Go
<1>13. ASSUME NEW w \in Worker, SendCommit(w) PROVE Views'
  BY <1>13 DEF SendCommit, GoWith, Go
<1>14. ASSUME NEW w \in Worker, CommitAnswered(w) PROVE Views'
  BY <1>14 DEF CommitAnswered, GoWith, Go
<1>15. ASSUME NEW w \in Worker, TurnEnds(w) PROVE Views'
  BY <1>15 DEF TurnEnds, CloseRequest, GoWith, Go
<1>16. ASSUME NEW w \in Worker, TurnFails(w) PROVE Views'
  BY <1>16 DEF TurnFails, CloseRequest, GoWith, Go
<1>17. ASSUME NEW w \in Worker, TimesOut(w) PROVE Views'
  BY <1>17 DEF TimesOut, TimeOutWith, CloseRequest, GoWith, Go
<1>18. ASSUME NEW w \in Worker, ConfirmCommit(w) PROVE Views'
  BY <1>18 DEF ConfirmCommit, GoWith, Go
<1>19. ASSUME NEW w \in Worker, RecordOutcome(w) PROVE Views'
  BY <1>19 DEF RecordOutcome, WriteOutcome, GoWith, Go
<1>20. ASSUME NEW w \in Worker, LookUpAnswered(w) PROVE Views'
  BY <1>20 DEF LookUpAnswered, GoWith, Go
<1>21. ASSUME NEW w \in Worker, LookUpFails(w) PROVE Views'
  BY <1>21 DEF LookUpFails, Go
<1>22. ASSUME NEW w \in Worker, ResolveCommitUnknown(w) PROVE Views'
  BY <1>22 DEF ResolveCommitUnknown, ReopenSettlement, GoWith, Go
<1>23. ASSUME NEW w \in Worker, ReadRow(w) PROVE Views'
  BY <1>23 DEF ReadRow, GoDeliver, Interrupted, OutOfTime, Go
<1>24. ASSUME NEW w \in Worker, ClaimDelivery(w) PROVE Views'
  BY <1>24 DEF ClaimDelivery, Unclaimed, Go
<1>25. ASSUME NEW w \in Worker, SendCallback(w) PROVE Views'
  BY <1>25 DEF SendCallback, Go
<1>26. ASSUME NEW w \in Worker, FinishDelivery(w) PROVE Views'
  BY <1>26 DEF FinishDelivery, Leave, Go
<1>27. ASSUME NEW w \in Worker, RereadRow(w) PROVE Views'
  BY <1>27 DEF RereadRow, DeliverySettled, GoWith, Go
<1>28. ASSUME NEW w \in Worker, PublishState(w) PROVE Views'
  BY <1>28 DEF PublishState, WriteState, Go
<1>29. ASSUME NEW w \in Worker, ReadDues(w) PROVE Views'
  BY <1>29 DEF ReadDues, Refundable, Leave, Go
<1>30. ASSUME NEW w \in Worker, UsageApplied(w) PROVE Views'
  BY <1>30 DEF UsageApplied, Proceed, Leave, Go
<1>31. ASSUME NEW w \in Worker, UsageCallFails(w) PROVE Views'
  BY <1>31 DEF UsageCallFails, Proceed, Leave, Go
<1>32. ASSUME NEW w \in Worker, MarkUsageReported(w) PROVE Views'
  BY <1>32 DEF MarkUsageReported, Proceed, Leave, Go
<1>33. ASSUME NEW w \in Worker, CompletionApplied(w) PROVE Views'
  BY <1>33 DEF CompletionApplied, Leave, Go
<1>34. ASSUME NEW w \in Worker, CompletionCallFails(w) PROVE Views'
  BY <1>34 DEF CompletionCallFails, Leave, Go
<1>35. ASSUME NEW w \in Worker, MarkCompleteNotified(w) PROVE Views'
  BY <1>35 DEF MarkCompleteNotified, Leave, Go
<1>36. ASSUME NEW w \in Worker, ReleaseWorker(w) PROVE Views'
  BY <1>36 DEF ReleaseWorker, Leave, Go
<1>37. CASE UNCHANGED vars
  BY <1>37 DEF vars
<1>38. QED
  BY <1>1, <1>2, <1>3, <1>4, <1>5, <1>6, <1>7, <1>8, <1>9, <1>10, <1>11, <1>12, <1>13,
     <1>14, <1>15, <1>16, <1>17, <1>18, <1>19, <1>20, <1>21, <1>22, <1>23, <1>24, <1>25,
     <1>26, <1>27, <1>28, <1>29, <1>30, <1>31, <1>32, <1>33, <1>34, <1>35, <1>36,
     <1>37 DEF Next, Advance

(* A state is published after the callback was settled, and is the outcome. *)
LEMMA PublishedStep == TypeOK /\ Inv /\ [Next]_vars => Published'
<1> SUFFICES ASSUME TypeOK, Inv, [Next]_vars PROVE Published'
  OBVIOUS
<1> USE WorkerAssumption
    DEF TypeOK, Outcome, Reply, Status, Open, WorkerPc, MaxSends, turn, lease, work, locals,
        main, messenger, Inv, Untouched, Views, Settling, Published
<1>1. ASSUME Accept PROVE Published'
  BY <1>1 DEF Accept
<1>2. ASSUME NEW w \in Worker, ClaimWorker(w) PROVE Published'
  BY <1>2 DEF ClaimWorker, Fresh, Claimable, Unfinished, GoWith, GoDeliver, Interrupted,
     OutOfTime, Go
<1>3. ASSUME NEW w \in Worker, RenewWorker(w) PROVE Published'
  BY <1>3 DEF RenewWorker
<1>4. ASSUME NEW w \in Worker, Raise(w) PROVE Published'
  BY <1>4 DEF Raise, Leave, Go
<1>5. ASSUME NEW w \in Worker, Crash(w) PROVE Published'
  BY <1>5 DEF Crash, Leave, Go
<1>6. ASSUME LeaseExpires PROVE Published'
  BY <1>6 DEF LeaseExpires
<1>7. ASSUME Tick PROVE Published'
  BY <1>7 DEF Tick
<1>8. ASSUME PostSettles PROVE Published'
  BY <1>8 DEF PostSettles
<1>9. ASSUME NEW w \in Worker, BeginsLate(w) PROVE Published'
  BY <1>9 DEF BeginsLate, GoWith, Go
<1>10. ASSUME NEW w \in Worker, ClaimSession(w) PROVE Published'
  BY <1>10 DEF ClaimSession, GoWith, Go
<1>11. ASSUME NEW w \in Worker, Replay(w) PROVE Published'
  BY <1>11 DEF Replay, GoWith, Go
<1>12. ASSUME NEW w \in Worker, RetryRequired(w) PROVE Published'
  BY <1>12 DEF RetryRequired, GoWith, Go
<1>13. ASSUME NEW w \in Worker, SendCommit(w) PROVE Published'
  BY <1>13 DEF SendCommit, GoWith, Go
<1>14. ASSUME NEW w \in Worker, CommitAnswered(w) PROVE Published'
  BY <1>14 DEF CommitAnswered, GoWith, Go
<1>15. ASSUME NEW w \in Worker, TurnEnds(w) PROVE Published'
  BY <1>15 DEF TurnEnds, CloseRequest, GoWith, Go
<1>16. ASSUME NEW w \in Worker, TurnFails(w) PROVE Published'
  BY <1>16 DEF TurnFails, CloseRequest, GoWith, Go
<1>17. ASSUME NEW w \in Worker, TimesOut(w) PROVE Published'
  BY <1>17 DEF TimesOut, TimeOutWith, CloseRequest, GoWith, Go
<1>18. ASSUME NEW w \in Worker, ConfirmCommit(w) PROVE Published'
  BY <1>18 DEF ConfirmCommit, GoWith, Go
<1>19. ASSUME NEW w \in Worker, RecordOutcome(w) PROVE Published'
  BY <1>19 DEF RecordOutcome, WriteOutcome, GoWith, Go
<1>20. ASSUME NEW w \in Worker, LookUpAnswered(w) PROVE Published'
  BY <1>20 DEF LookUpAnswered, GoWith, Go
<1>21. ASSUME NEW w \in Worker, LookUpFails(w) PROVE Published'
  BY <1>21 DEF LookUpFails, Go
<1>22. ASSUME NEW w \in Worker, ResolveCommitUnknown(w) PROVE Published'
  BY <1>22 DEF ResolveCommitUnknown, ReopenSettlement, GoWith, Go
<1>23. ASSUME NEW w \in Worker, ReadRow(w) PROVE Published'
  BY <1>23 DEF ReadRow, GoDeliver, Interrupted, OutOfTime, Go
<1>24. ASSUME NEW w \in Worker, ClaimDelivery(w) PROVE Published'
  BY <1>24 DEF ClaimDelivery, Unclaimed, Go
<1>25. ASSUME NEW w \in Worker, SendCallback(w) PROVE Published'
  BY <1>25 DEF SendCallback, Go
<1>26. ASSUME NEW w \in Worker, FinishDelivery(w) PROVE Published'
  BY <1>26 DEF FinishDelivery, Leave, Go
<1>27. ASSUME NEW w \in Worker, RereadRow(w) PROVE Published'
  BY <1>27 DEF RereadRow, DeliverySettled, GoWith, Go
<1>28. ASSUME NEW w \in Worker, PublishState(w) PROVE Published'
  BY <1>28 DEF PublishState, WriteState, Go
<1>29. ASSUME NEW w \in Worker, ReadDues(w) PROVE Published'
  BY <1>29 DEF ReadDues, Refundable, Leave, Go
<1>30. ASSUME NEW w \in Worker, UsageApplied(w) PROVE Published'
  BY <1>30 DEF UsageApplied, Proceed, Leave, Go
<1>31. ASSUME NEW w \in Worker, UsageCallFails(w) PROVE Published'
  BY <1>31 DEF UsageCallFails, Proceed, Leave, Go
<1>32. ASSUME NEW w \in Worker, MarkUsageReported(w) PROVE Published'
  BY <1>32 DEF MarkUsageReported, Proceed, Leave, Go
<1>33. ASSUME NEW w \in Worker, CompletionApplied(w) PROVE Published'
  BY <1>33 DEF CompletionApplied, Leave, Go
<1>34. ASSUME NEW w \in Worker, CompletionCallFails(w) PROVE Published'
  BY <1>34 DEF CompletionCallFails, Leave, Go
<1>35. ASSUME NEW w \in Worker, MarkCompleteNotified(w) PROVE Published'
  BY <1>35 DEF MarkCompleteNotified, Leave, Go
<1>36. ASSUME NEW w \in Worker, ReleaseWorker(w) PROVE Published'
  BY <1>36 DEF ReleaseWorker, Leave, Go
<1>37. CASE UNCHANGED vars
  BY <1>37 DEF vars
<1>38. QED
  BY <1>1, <1>2, <1>3, <1>4, <1>5, <1>6, <1>7, <1>8, <1>9, <1>10, <1>11, <1>12, <1>13,
     <1>14, <1>15, <1>16, <1>17, <1>18, <1>19, <1>20, <1>21, <1>22, <1>23, <1>24, <1>25,
     <1>26, <1>27, <1>28, <1>29, <1>30, <1>31, <1>32, <1>33, <1>34, <1>35, <1>36,
     <1>37 DEF Next, Advance

(* delivery_claimed_at admits one sender.                                   *)
LEMMA SenderStep == TypeOK /\ Inv /\ [Next]_vars => Sender'
<1> SUFFICES ASSUME TypeOK, Inv, [Next]_vars PROVE Sender'
  OBVIOUS
<1> USE WorkerAssumption
    DEF TypeOK, Outcome, Reply, Status, Open, WorkerPc, MaxSends, turn, lease, work, locals,
        main, messenger, Inv, Untouched, Sender
<1>1. ASSUME Accept PROVE Sender'
  BY <1>1 DEF Accept
<1>2. ASSUME NEW w \in Worker, ClaimWorker(w) PROVE Sender'
  BY <1>2 DEF ClaimWorker, Fresh, Claimable, Unfinished, GoWith, GoDeliver, Interrupted,
     OutOfTime, Go
<1>3. ASSUME NEW w \in Worker, RenewWorker(w) PROVE Sender'
  BY <1>3 DEF RenewWorker
<1>4. ASSUME NEW w \in Worker, Raise(w) PROVE Sender'
  BY <1>4 DEF Raise, Leave, Go
<1>5. ASSUME NEW w \in Worker, Crash(w) PROVE Sender'
  BY <1>5 DEF Crash, Leave, Go
<1>6. ASSUME LeaseExpires PROVE Sender'
  BY <1>6 DEF LeaseExpires
<1>7. ASSUME Tick PROVE Sender'
  BY <1>7 DEF Tick
<1>8. ASSUME PostSettles PROVE Sender'
  BY <1>8 DEF PostSettles
<1>9. ASSUME NEW w \in Worker, BeginsLate(w) PROVE Sender'
  BY <1>9 DEF BeginsLate, GoWith, Go
<1>10. ASSUME NEW w \in Worker, ClaimSession(w) PROVE Sender'
  BY <1>10 DEF ClaimSession, GoWith, Go
<1>11. ASSUME NEW w \in Worker, Replay(w) PROVE Sender'
  BY <1>11 DEF Replay, GoWith, Go
<1>12. ASSUME NEW w \in Worker, RetryRequired(w) PROVE Sender'
  BY <1>12 DEF RetryRequired, GoWith, Go
<1>13. ASSUME NEW w \in Worker, SendCommit(w) PROVE Sender'
  BY <1>13 DEF SendCommit, GoWith, Go
<1>14. ASSUME NEW w \in Worker, CommitAnswered(w) PROVE Sender'
  BY <1>14 DEF CommitAnswered, GoWith, Go
<1>15. ASSUME NEW w \in Worker, TurnEnds(w) PROVE Sender'
  BY <1>15 DEF TurnEnds, CloseRequest, GoWith, Go
<1>16. ASSUME NEW w \in Worker, TurnFails(w) PROVE Sender'
  BY <1>16 DEF TurnFails, CloseRequest, GoWith, Go
<1>17. ASSUME NEW w \in Worker, TimesOut(w) PROVE Sender'
  BY <1>17 DEF TimesOut, TimeOutWith, CloseRequest, GoWith, Go
<1>18. ASSUME NEW w \in Worker, ConfirmCommit(w) PROVE Sender'
  BY <1>18 DEF ConfirmCommit, GoWith, Go
<1>19. ASSUME NEW w \in Worker, RecordOutcome(w) PROVE Sender'
  BY <1>19 DEF RecordOutcome, WriteOutcome, GoWith, Go
<1>20. ASSUME NEW w \in Worker, LookUpAnswered(w) PROVE Sender'
  BY <1>20 DEF LookUpAnswered, GoWith, Go
<1>21. ASSUME NEW w \in Worker, LookUpFails(w) PROVE Sender'
  BY <1>21 DEF LookUpFails, Go
<1>22. ASSUME NEW w \in Worker, ResolveCommitUnknown(w) PROVE Sender'
  BY <1>22 DEF ResolveCommitUnknown, ReopenSettlement, GoWith, Go
<1>23. ASSUME NEW w \in Worker, ReadRow(w) PROVE Sender'
  BY <1>23 DEF ReadRow, GoDeliver, Interrupted, OutOfTime, Go
<1>24. ASSUME NEW w \in Worker, ClaimDelivery(w) PROVE Sender'
  BY <1>24 DEF ClaimDelivery, Unclaimed, Go
<1>25. ASSUME NEW w \in Worker, SendCallback(w) PROVE Sender'
  BY <1>25 DEF SendCallback, Go
<1>26. ASSUME NEW w \in Worker, FinishDelivery(w) PROVE Sender'
  BY <1>26 DEF FinishDelivery, Leave, Go
<1>27. ASSUME NEW w \in Worker, RereadRow(w) PROVE Sender'
  BY <1>27 DEF RereadRow, DeliverySettled, GoWith, Go
<1>28. ASSUME NEW w \in Worker, PublishState(w) PROVE Sender'
  BY <1>28 DEF PublishState, WriteState, Go
<1>29. ASSUME NEW w \in Worker, ReadDues(w) PROVE Sender'
  BY <1>29 DEF ReadDues, Refundable, Leave, Go
<1>30. ASSUME NEW w \in Worker, UsageApplied(w) PROVE Sender'
  BY <1>30 DEF UsageApplied, Proceed, Leave, Go
<1>31. ASSUME NEW w \in Worker, UsageCallFails(w) PROVE Sender'
  BY <1>31 DEF UsageCallFails, Proceed, Leave, Go
<1>32. ASSUME NEW w \in Worker, MarkUsageReported(w) PROVE Sender'
  BY <1>32 DEF MarkUsageReported, Proceed, Leave, Go
<1>33. ASSUME NEW w \in Worker, CompletionApplied(w) PROVE Sender'
  BY <1>33 DEF CompletionApplied, Leave, Go
<1>34. ASSUME NEW w \in Worker, CompletionCallFails(w) PROVE Sender'
  BY <1>34 DEF CompletionCallFails, Leave, Go
<1>35. ASSUME NEW w \in Worker, MarkCompleteNotified(w) PROVE Sender'
  BY <1>35 DEF MarkCompleteNotified, Leave, Go
<1>36. ASSUME NEW w \in Worker, ReleaseWorker(w) PROVE Sender'
  BY <1>36 DEF ReleaseWorker, Leave, Go
<1>37. CASE UNCHANGED vars
  BY <1>37 DEF vars
<1>38. QED
  BY <1>1, <1>2, <1>3, <1>4, <1>5, <1>6, <1>7, <1>8, <1>9, <1>10, <1>11, <1>12, <1>13,
     <1>14, <1>15, <1>16, <1>17, <1>18, <1>19, <1>20, <1>21, <1>22, <1>23, <1>24, <1>25,
     <1>26, <1>27, <1>28, <1>29, <1>30, <1>31, <1>32, <1>33, <1>34, <1>35, <1>36,
     <1>37 DEF Next, Advance

(* A refund follows a failure that is final.                               *)
LEMMA RefundStep == TypeOK /\ Inv /\ [Next]_vars => RefundedFailed'
<1> SUFFICES ASSUME TypeOK, Inv, [Next]_vars PROVE RefundedFailed'
  OBVIOUS
<1> USE WorkerAssumption
    DEF TypeOK, Outcome, Reply, Status, Open, WorkerPc, MaxSends, turn, lease, work, locals,
        main, messenger, Inv, Views, Settling, Published, RefundedFailed
<1>1. ASSUME Accept PROVE RefundedFailed'
  BY <1>1 DEF Accept, Refundable
<1>2. ASSUME NEW w \in Worker, ClaimWorker(w) PROVE RefundedFailed'
  BY <1>2 DEF ClaimWorker, Fresh, Claimable, Unfinished, GoWith, GoDeliver, Interrupted,
     OutOfTime, Go, Refundable
<1>3. ASSUME NEW w \in Worker, RenewWorker(w) PROVE RefundedFailed'
  BY <1>3 DEF RenewWorker, Refundable
<1>4. ASSUME NEW w \in Worker, Raise(w) PROVE RefundedFailed'
  BY <1>4 DEF Raise, Leave, Go, Refundable
<1>5. ASSUME NEW w \in Worker, Crash(w) PROVE RefundedFailed'
  BY <1>5 DEF Crash, Leave, Go, Refundable
<1>6. ASSUME LeaseExpires PROVE RefundedFailed'
  BY <1>6 DEF LeaseExpires, Refundable
<1>7. ASSUME Tick PROVE RefundedFailed'
  BY <1>7 DEF Tick, Refundable
<1>8. ASSUME PostSettles PROVE RefundedFailed'
  BY <1>8 DEF PostSettles, Refundable
<1>9. ASSUME NEW w \in Worker, BeginsLate(w) PROVE RefundedFailed'
  BY <1>9 DEF BeginsLate, GoWith, Go, Refundable
<1>10. ASSUME NEW w \in Worker, ClaimSession(w) PROVE RefundedFailed'
  BY <1>10 DEF ClaimSession, GoWith, Go, Refundable
<1>11. ASSUME NEW w \in Worker, Replay(w) PROVE RefundedFailed'
  BY <1>11 DEF Replay, GoWith, Go, Refundable
<1>12. ASSUME NEW w \in Worker, RetryRequired(w) PROVE RefundedFailed'
  BY <1>12 DEF RetryRequired, GoWith, Go, Refundable
<1>13. ASSUME NEW w \in Worker, SendCommit(w) PROVE RefundedFailed'
  BY <1>13 DEF SendCommit, GoWith, Go, Refundable
<1>14. ASSUME NEW w \in Worker, CommitAnswered(w) PROVE RefundedFailed'
  BY <1>14 DEF CommitAnswered, GoWith, Go, Refundable
<1>15. ASSUME NEW w \in Worker, TurnEnds(w) PROVE RefundedFailed'
  BY <1>15 DEF TurnEnds, CloseRequest, GoWith, Go, Refundable
<1>16. ASSUME NEW w \in Worker, TurnFails(w) PROVE RefundedFailed'
  BY <1>16 DEF TurnFails, CloseRequest, GoWith, Go, Refundable
<1>17. ASSUME NEW w \in Worker, TimesOut(w) PROVE RefundedFailed'
  BY <1>17 DEF TimesOut, TimeOutWith, CloseRequest, GoWith, Go, Refundable
<1>18. ASSUME NEW w \in Worker, ConfirmCommit(w) PROVE RefundedFailed'
  BY <1>18 DEF ConfirmCommit, GoWith, Go, Refundable
<1>19. ASSUME NEW w \in Worker, RecordOutcome(w) PROVE RefundedFailed'
  BY <1>19 DEF RecordOutcome, WriteOutcome, GoWith, Go, Refundable
<1>20. ASSUME NEW w \in Worker, LookUpAnswered(w) PROVE RefundedFailed'
  BY <1>20 DEF LookUpAnswered, GoWith, Go, Refundable
<1>21. ASSUME NEW w \in Worker, LookUpFails(w) PROVE RefundedFailed'
  BY <1>21 DEF LookUpFails, Go, Refundable
<1>22. ASSUME NEW w \in Worker, ResolveCommitUnknown(w) PROVE RefundedFailed'
  BY <1>22 DEF ResolveCommitUnknown, ReopenSettlement, GoWith, Go, Refundable
<1>23. ASSUME NEW w \in Worker, ReadRow(w) PROVE RefundedFailed'
  BY <1>23 DEF ReadRow, GoDeliver, Interrupted, OutOfTime, Go, Refundable
<1>24. ASSUME NEW w \in Worker, ClaimDelivery(w) PROVE RefundedFailed'
  BY <1>24 DEF ClaimDelivery, Unclaimed, Go, Refundable
<1>25. ASSUME NEW w \in Worker, SendCallback(w) PROVE RefundedFailed'
  BY <1>25 DEF SendCallback, Go, Refundable
<1>26. ASSUME NEW w \in Worker, FinishDelivery(w) PROVE RefundedFailed'
  BY <1>26 DEF FinishDelivery, Leave, Go, Refundable
<1>27. ASSUME NEW w \in Worker, RereadRow(w) PROVE RefundedFailed'
  BY <1>27 DEF RereadRow, DeliverySettled, GoWith, Go, Refundable
<1>28. ASSUME NEW w \in Worker, PublishState(w) PROVE RefundedFailed'
  BY <1>28 DEF PublishState, WriteState, Go, Refundable
<1>29. ASSUME NEW w \in Worker, ReadDues(w) PROVE RefundedFailed'
  BY <1>29 DEF ReadDues, Refundable, Leave, Go, Refundable
<1>30. ASSUME NEW w \in Worker, UsageApplied(w) PROVE RefundedFailed'
  BY <1>30 DEF UsageApplied, Proceed, Leave, Go, Refundable
<1>31. ASSUME NEW w \in Worker, UsageCallFails(w) PROVE RefundedFailed'
  BY <1>31 DEF UsageCallFails, Proceed, Leave, Go, Refundable
<1>32. ASSUME NEW w \in Worker, MarkUsageReported(w) PROVE RefundedFailed'
  BY <1>32 DEF MarkUsageReported, Proceed, Leave, Go, Refundable
<1>33. ASSUME NEW w \in Worker, CompletionApplied(w) PROVE RefundedFailed'
  BY <1>33 DEF CompletionApplied, Leave, Go, Refundable
<1>34. ASSUME NEW w \in Worker, CompletionCallFails(w) PROVE RefundedFailed'
  BY <1>34 DEF CompletionCallFails, Leave, Go, Refundable
<1>35. ASSUME NEW w \in Worker, MarkCompleteNotified(w) PROVE RefundedFailed'
  BY <1>35 DEF MarkCompleteNotified, Leave, Go, Refundable
<1>36. ASSUME NEW w \in Worker, ReleaseWorker(w) PROVE RefundedFailed'
  BY <1>36 DEF ReleaseWorker, Leave, Go, Refundable
<1>37. CASE UNCHANGED vars
  BY <1>37 DEF vars
<1>38. QED
  BY <1>1, <1>2, <1>3, <1>4, <1>5, <1>6, <1>7, <1>8, <1>9, <1>10, <1>11, <1>12, <1>13,
     <1>14, <1>15, <1>16, <1>17, <1>18, <1>19, <1>20, <1>21, <1>22, <1>23, <1>24, <1>25,
     <1>26, <1>27, <1>28, <1>29, <1>30, <1>31, <1>32, <1>33, <1>34, <1>35, <1>36,
     <1>37 DEF Next, Advance

-----------------------------------------------------------------------------
LEMMA InitTypeOK == Init => TypeOK
<1> SUFFICES ASSUME Init PROVE TypeOK
  OBVIOUS
<1> USE DEF Init
<1>1. /\ url \in BOOLEAN /\ claimed \in BOOLEAN
      /\ usageReported \in BOOLEAN /\ completeNotified \in BOOLEAN
      /\ leaseLive \in BOOLEAN /\ committed \in BOOLEAN /\ refunded \in BOOLEAN
      /\ excused \in BOOLEAN
  OBVIOUS
<1>2. /\ pc \in [Worker -> WorkerPc]
      /\ view \in [Worker -> Outcome \cup {"none"}]
      /\ note \in [Worker -> Status]
  BY DEF WorkerPc, Outcome, Status
<1>3. done \in [Worker -> BOOLEAN]
  OBVIOUS
<1>4. told \in [outcome : Reply \cup {"none"}, delivery : Status]
  BY DEF Reply, Status
<1>5. sends \in 0..MaxSends
  BY DEF MaxSends
<1>6. QED
  BY <1>1, <1>2, <1>3, <1>4, <1>5 DEF TypeOK, Outcome, Reply, Status

LEMMA InitInv == Init => Inv
BY DEF Init, Inv, Untouched, Answered, Views, Settling, Published, Sender, RefundedFailed,
       Outcome

(* The inductive invariant holds in every state: nothing a stalled, dying or
   overtaken worker writes contradicts what was decided, told or published. *)
THEOREM Invariance == Spec => [](TypeOK /\ Inv)
<1>1. TypeOK /\ Inv /\ [Next]_vars => Inv'
  BY UntouchedStep, AnsweredStep, ViewsStep, PublishedStep, SenderStep, RefundStep DEF Inv
<1>2. QED
  BY <1>1, InitTypeOK, InitInv, TypeStep, PTL DEF Spec

(* Every variable of a turn keeps its type.                                *)
THEOREM TypeCorrect == Spec => []TypeOK
BY Invariance, PTL

(* The one-shot callback is sent at most once by any number of workers.    *)
THEOREM CallbackOnceHolds == Spec => []CallbackOnce
<1>1. Inv => CallbackOnce
  BY DEF Inv, Sender, CallbackOnce
<1>2. QED
  BY <1>1, Invariance, PTL

(* What the user was told never contradicts how the turn ended.            *)
THEOREM AnswerAgreesHolds == Spec => []AnswerAgrees
<1>1. Inv => AnswerAgrees
  BY DEF Inv, Answered, AnswerAgrees
<1>2. QED
  BY <1>1, Invariance, PTL

(* Only a turn that failed or expired, for good, is refunded.              *)
THEOREM RefundedFailedHolds == Spec => []RefundedFailed
<1>1. Inv => RefundedFailed
  BY DEF Inv
<1>2. QED
  BY <1>1, Invariance, PTL

(* A result is published only when nobody will use the callback any more.  *)
THEOREM PublishedAfterDeliveryHolds == Spec => []PublishedAfterDelivery
<1>1. Inv => PublishedAfterDelivery
  BY DEF Inv, Published, PublishedAfterDelivery
<1>2. QED
  BY <1>1, Invariance, PTL

-----------------------------------------------------------------------------
StaysFinal ==
  (state \in Outcome /\ state' # state) =>
    (state = "COMMIT_UNKNOWN" /\ state' \in {"SUCCEEDED", "FAILED"})

(* A published state is overwritten only when COMMIT_UNKNOWN is resolved.   *)
LEMMA FinalStep == TypeOK /\ Inv /\ [Next]_vars => StaysFinal
<1> SUFFICES ASSUME TypeOK, Inv, [Next]_vars PROVE StaysFinal
  OBVIOUS
<1> USE WorkerAssumption
    DEF StaysFinal, TypeOK, Outcome, Reply, Status, Open, WorkerPc, MaxSends, turn, lease, work,
        locals, main, messenger, Inv, Untouched, Views, Settling, Published
<1>1. ASSUME Accept PROVE StaysFinal
  BY <1>1 DEF Accept
<1>2. ASSUME NEW w \in Worker, ClaimWorker(w) PROVE StaysFinal
  BY <1>2 DEF ClaimWorker, Fresh, Claimable, Unfinished, GoWith, GoDeliver, Interrupted,
     OutOfTime, Go
<1>3. ASSUME NEW w \in Worker, RenewWorker(w) PROVE StaysFinal
  BY <1>3 DEF RenewWorker
<1>4. ASSUME NEW w \in Worker, Raise(w) PROVE StaysFinal
  BY <1>4 DEF Raise, Leave, Go
<1>5. ASSUME NEW w \in Worker, Crash(w) PROVE StaysFinal
  BY <1>5 DEF Crash, Leave, Go
<1>6. ASSUME LeaseExpires PROVE StaysFinal
  BY <1>6 DEF LeaseExpires
<1>7. ASSUME Tick PROVE StaysFinal
  BY <1>7 DEF Tick
<1>8. ASSUME PostSettles PROVE StaysFinal
  BY <1>8 DEF PostSettles
<1>9. ASSUME NEW w \in Worker, BeginsLate(w) PROVE StaysFinal
  BY <1>9 DEF BeginsLate, GoWith, Go
<1>10. ASSUME NEW w \in Worker, ClaimSession(w) PROVE StaysFinal
  BY <1>10 DEF ClaimSession, GoWith, Go
<1>11. ASSUME NEW w \in Worker, Replay(w) PROVE StaysFinal
  BY <1>11 DEF Replay, GoWith, Go
<1>12. ASSUME NEW w \in Worker, RetryRequired(w) PROVE StaysFinal
  BY <1>12 DEF RetryRequired, GoWith, Go
<1>13. ASSUME NEW w \in Worker, SendCommit(w) PROVE StaysFinal
  BY <1>13 DEF SendCommit, GoWith, Go
<1>14. ASSUME NEW w \in Worker, CommitAnswered(w) PROVE StaysFinal
  BY <1>14 DEF CommitAnswered, GoWith, Go
<1>15. ASSUME NEW w \in Worker, TurnEnds(w) PROVE StaysFinal
  BY <1>15 DEF TurnEnds, CloseRequest, GoWith, Go
<1>16. ASSUME NEW w \in Worker, TurnFails(w) PROVE StaysFinal
  BY <1>16 DEF TurnFails, CloseRequest, GoWith, Go
<1>17. ASSUME NEW w \in Worker, TimesOut(w) PROVE StaysFinal
  BY <1>17 DEF TimesOut, TimeOutWith, CloseRequest, GoWith, Go
<1>18. ASSUME NEW w \in Worker, ConfirmCommit(w) PROVE StaysFinal
  BY <1>18 DEF ConfirmCommit, GoWith, Go
<1>19. ASSUME NEW w \in Worker, RecordOutcome(w) PROVE StaysFinal
  BY <1>19 DEF RecordOutcome, WriteOutcome, GoWith, Go
<1>20. ASSUME NEW w \in Worker, LookUpAnswered(w) PROVE StaysFinal
  BY <1>20 DEF LookUpAnswered, GoWith, Go
<1>21. ASSUME NEW w \in Worker, LookUpFails(w) PROVE StaysFinal
  BY <1>21 DEF LookUpFails, Go
<1>22. ASSUME NEW w \in Worker, ResolveCommitUnknown(w) PROVE StaysFinal
  BY <1>22 DEF ResolveCommitUnknown, ReopenSettlement, GoWith, Go
<1>23. ASSUME NEW w \in Worker, ReadRow(w) PROVE StaysFinal
  BY <1>23 DEF ReadRow, GoDeliver, Interrupted, OutOfTime, Go
<1>24. ASSUME NEW w \in Worker, ClaimDelivery(w) PROVE StaysFinal
  BY <1>24 DEF ClaimDelivery, Unclaimed, Go
<1>25. ASSUME NEW w \in Worker, SendCallback(w) PROVE StaysFinal
  BY <1>25 DEF SendCallback, Go
<1>26. ASSUME NEW w \in Worker, FinishDelivery(w) PROVE StaysFinal
  BY <1>26 DEF FinishDelivery, Leave, Go
<1>27. ASSUME NEW w \in Worker, RereadRow(w) PROVE StaysFinal
  BY <1>27 DEF RereadRow, DeliverySettled, GoWith, Go
<1>28. ASSUME NEW w \in Worker, PublishState(w) PROVE StaysFinal
  BY <1>28 DEF PublishState, WriteState, Go
<1>29. ASSUME NEW w \in Worker, ReadDues(w) PROVE StaysFinal
  BY <1>29 DEF ReadDues, Refundable, Leave, Go
<1>30. ASSUME NEW w \in Worker, UsageApplied(w) PROVE StaysFinal
  BY <1>30 DEF UsageApplied, Proceed, Leave, Go
<1>31. ASSUME NEW w \in Worker, UsageCallFails(w) PROVE StaysFinal
  BY <1>31 DEF UsageCallFails, Proceed, Leave, Go
<1>32. ASSUME NEW w \in Worker, MarkUsageReported(w) PROVE StaysFinal
  BY <1>32 DEF MarkUsageReported, Proceed, Leave, Go
<1>33. ASSUME NEW w \in Worker, CompletionApplied(w) PROVE StaysFinal
  BY <1>33 DEF CompletionApplied, Leave, Go
<1>34. ASSUME NEW w \in Worker, CompletionCallFails(w) PROVE StaysFinal
  BY <1>34 DEF CompletionCallFails, Leave, Go
<1>35. ASSUME NEW w \in Worker, MarkCompleteNotified(w) PROVE StaysFinal
  BY <1>35 DEF MarkCompleteNotified, Leave, Go
<1>36. ASSUME NEW w \in Worker, ReleaseWorker(w) PROVE StaysFinal
  BY <1>36 DEF ReleaseWorker, Leave, Go
<1>37. CASE UNCHANGED vars
  BY <1>37 DEF vars
<1>38. QED
  BY <1>1, <1>2, <1>3, <1>4, <1>5, <1>6, <1>7, <1>8, <1>9, <1>10, <1>11, <1>12, <1>13,
     <1>14, <1>15, <1>16, <1>17, <1>18, <1>19, <1>20, <1>21, <1>22, <1>23, <1>24, <1>25,
     <1>26, <1>27, <1>28, <1>29, <1>30, <1>31, <1>32, <1>33, <1>34, <1>35, <1>36,
     <1>37 DEF Next, Advance

(* A published result is final, unless it said that the commit is unknown.  *)
THEOREM PublishedIsFinalHolds == Spec => PublishedIsFinal
<1>1. TypeOK /\ Inv /\ [Next]_vars => [StaysFinal]_vars
  BY FinalStep
<1>2. QED
  BY <1>1, Invariance, PTL DEF Spec, PublishedIsFinal, StaysFinal

-----------------------------------------------------------------------------
(***************************************************************************)
(* Proofs about KakaoTurn when leases lapse only after their holder died,  *)
(* what renewing a 60 s lease every 20 s is meant to ensure: then a worker *)
(* at work is alone with the row.                                          *)
(***************************************************************************)

(* A worker at work holds the row.                                         *)
Alone ==
  /\ leaseLive => token \in Worker
  /\ \A w \in Worker : pc[w] # "off" => token = w /\ leaseLive

(* Where the outcome is still to be found out.                             *)
Executing == {"execute", "running", "commit", "gap", "confirm", "record"}

(* Where the callback is settled.                                          *)
Answering == {"reread", "publish", "settle", "refund", "markUsage", "notify", "markNotified"}

(* What a worker's place in the code says of outcome and callback.          *)
Places ==
  /\ state # "none" => url \/ claimed
  /\ outcome # "none" => payload # "none"
  /\ sends > 0 /\ claimed /\ ~url => delivery # "NOT_ATTEMPTED"
  /\ GivenUpOnlyExpired
  /\ \A w \in Worker :
       /\ pc[w] \in Executing => outcome = "none"
       /\ pc[w] \in {"resolve", "resolved"} => outcome = "COMMIT_UNKNOWN"
       /\ pc[w] \in {"resolve", "resolved", "read", "deliver", "sending", "finish"} \cup Answering
            => outcome # "none"
       /\ pc[w] \in Answering => claimed /\ ~url
       /\ pc[w] = "deliver" => ~claimed
       /\ pc[w] \in {"deliver", "sending", "finish"} => url
       /\ pc[w] = "finish" /\ note[w] = "NOT_ATTEMPTED" => clock = "expired" /\ sends = 0

(* What the main server has been told.                                     *)
Told ==
  /\ ToldTheDelivery
  /\ told.outcome # "none" => claimed /\ ~url
  /\ completeNotified => told.outcome = Said(outcome) /\ outcome # "none"
  /\ \A w \in Worker :
       /\ pc[w] \in Settling => view[w] = outcome
       /\ pc[w] \in {"refund", "markUsage", "notify"} => note[w] = delivery
       /\ pc[w] = "markNotified" => told.outcome = Said(outcome)

(* Nothing is committed, and nothing is on its way.                        *)
Clean == ~committed /\ post = NoWorker

(* A failure was decided without a usable look-up, or is one.              *)
Justified ==
  /\ outcome \in {"FAILED", "EXPIRED"} => excused \/ Clean
  /\ \A w \in Worker :
       /\ pc[w] \in {"execute", "running", "resolve", "resolved"} => post # w
       /\ pc[w] = "gap" => committed
       /\ pc[w] = "confirm" /\ post = w => excused \/ committed
       /\ pc[w] = "record" /\ view[w] \in {"FAILED", "EXPIRED"} => excused \/ Clean
       /\ pc[w] = "resolved" /\ view[w] = "FAILED" => excused \/ Clean

-----------------------------------------------------------------------------
(* A lapsed lease has no living holder, so the next worker starts alone.    *)
LEMMA AloneStep ==
  ASSUME ~LeaseLapsesUnderLiveOwner
  PROVE  TypeOK /\ Alone /\ [Next]_vars => Alone'
<1> SUFFICES ASSUME TypeOK, Alone, [Next]_vars PROVE Alone'
  OBVIOUS
<1> USE WorkerAssumption
    DEF TypeOK, Outcome, Reply, Status, Open, WorkerPc, MaxSends, turn, lease, work, locals,
        main, messenger, Alone
<1>1. ASSUME Accept PROVE Alone'
  BY <1>1 DEF Accept
<1>2. ASSUME NEW w \in Worker, ClaimWorker(w) PROVE Alone'
  BY <1>2 DEF ClaimWorker, Fresh, Claimable, Unfinished, GoWith, GoDeliver, Interrupted,
     OutOfTime, Go
<1>3. ASSUME NEW w \in Worker, RenewWorker(w) PROVE Alone'
  BY <1>3 DEF RenewWorker
<1>4. ASSUME NEW w \in Worker, Raise(w) PROVE Alone'
  BY <1>4 DEF Raise, Leave, Go
<1>5. ASSUME NEW w \in Worker, Crash(w) PROVE Alone'
  BY <1>5 DEF Crash, Leave, Go
<1>6. ASSUME LeaseExpires PROVE Alone'
  BY <1>6 DEF LeaseExpires
<1>7. ASSUME Tick PROVE Alone'
  BY <1>7 DEF Tick
<1>8. ASSUME PostSettles PROVE Alone'
  BY <1>8 DEF PostSettles
<1>9. ASSUME NEW w \in Worker, BeginsLate(w) PROVE Alone'
  BY <1>9 DEF BeginsLate, GoWith, Go
<1>10. ASSUME NEW w \in Worker, ClaimSession(w) PROVE Alone'
  BY <1>10 DEF ClaimSession, GoWith, Go
<1>11. ASSUME NEW w \in Worker, Replay(w) PROVE Alone'
  BY <1>11 DEF Replay, GoWith, Go
<1>12. ASSUME NEW w \in Worker, RetryRequired(w) PROVE Alone'
  BY <1>12 DEF RetryRequired, GoWith, Go
<1>13. ASSUME NEW w \in Worker, SendCommit(w) PROVE Alone'
  BY <1>13 DEF SendCommit, GoWith, Go
<1>14. ASSUME NEW w \in Worker, CommitAnswered(w) PROVE Alone'
  BY <1>14 DEF CommitAnswered, GoWith, Go
<1>15. ASSUME NEW w \in Worker, TurnEnds(w) PROVE Alone'
  BY <1>15 DEF TurnEnds, CloseRequest, GoWith, Go
<1>16. ASSUME NEW w \in Worker, TurnFails(w) PROVE Alone'
  BY <1>16 DEF TurnFails, CloseRequest, GoWith, Go
<1>17. ASSUME NEW w \in Worker, TimesOut(w) PROVE Alone'
  BY <1>17 DEF TimesOut, TimeOutWith, CloseRequest, GoWith, Go
<1>18. ASSUME NEW w \in Worker, ConfirmCommit(w) PROVE Alone'
  BY <1>18 DEF ConfirmCommit, GoWith, Go
<1>19. ASSUME NEW w \in Worker, RecordOutcome(w) PROVE Alone'
  BY <1>19 DEF RecordOutcome, WriteOutcome, GoWith, Go
<1>20. ASSUME NEW w \in Worker, LookUpAnswered(w) PROVE Alone'
  BY <1>20 DEF LookUpAnswered, GoWith, Go
<1>21. ASSUME NEW w \in Worker, LookUpFails(w) PROVE Alone'
  BY <1>21 DEF LookUpFails, Go
<1>22. ASSUME NEW w \in Worker, ResolveCommitUnknown(w) PROVE Alone'
  BY <1>22 DEF ResolveCommitUnknown, ReopenSettlement, GoWith, Go
<1>23. ASSUME NEW w \in Worker, ReadRow(w) PROVE Alone'
  BY <1>23 DEF ReadRow, GoDeliver, Interrupted, OutOfTime, Go
<1>24. ASSUME NEW w \in Worker, ClaimDelivery(w) PROVE Alone'
  BY <1>24 DEF ClaimDelivery, Unclaimed, Go
<1>25. ASSUME NEW w \in Worker, SendCallback(w) PROVE Alone'
  BY <1>25 DEF SendCallback, Go
<1>26. ASSUME NEW w \in Worker, FinishDelivery(w) PROVE Alone'
  BY <1>26 DEF FinishDelivery, Leave, Go
<1>27. ASSUME NEW w \in Worker, RereadRow(w) PROVE Alone'
  BY <1>27 DEF RereadRow, DeliverySettled, GoWith, Go
<1>28. ASSUME NEW w \in Worker, PublishState(w) PROVE Alone'
  BY <1>28 DEF PublishState, WriteState, Go
<1>29. ASSUME NEW w \in Worker, ReadDues(w) PROVE Alone'
  BY <1>29 DEF ReadDues, Refundable, Leave, Go
<1>30. ASSUME NEW w \in Worker, UsageApplied(w) PROVE Alone'
  BY <1>30 DEF UsageApplied, Proceed, Leave, Go
<1>31. ASSUME NEW w \in Worker, UsageCallFails(w) PROVE Alone'
  BY <1>31 DEF UsageCallFails, Proceed, Leave, Go
<1>32. ASSUME NEW w \in Worker, MarkUsageReported(w) PROVE Alone'
  BY <1>32 DEF MarkUsageReported, Proceed, Leave, Go
<1>33. ASSUME NEW w \in Worker, CompletionApplied(w) PROVE Alone'
  BY <1>33 DEF CompletionApplied, Leave, Go
<1>34. ASSUME NEW w \in Worker, CompletionCallFails(w) PROVE Alone'
  BY <1>34 DEF CompletionCallFails, Leave, Go
<1>35. ASSUME NEW w \in Worker, MarkCompleteNotified(w) PROVE Alone'
  BY <1>35 DEF MarkCompleteNotified, Leave, Go
<1>36. ASSUME NEW w \in Worker, ReleaseWorker(w) PROVE Alone'
  BY <1>36 DEF ReleaseWorker, Leave, Go
<1>37. CASE UNCHANGED vars
  BY <1>37 DEF vars
<1>38. QED
  BY <1>1, <1>2, <1>3, <1>4, <1>5, <1>6, <1>7, <1>8, <1>9, <1>10, <1>11, <1>12, <1>13,
     <1>14, <1>15, <1>16, <1>17, <1>18, <1>19, <1>20, <1>21, <1>22, <1>23, <1>24, <1>25,
     <1>26, <1>27, <1>28, <1>29, <1>30, <1>31, <1>32, <1>33, <1>34, <1>35, <1>36,
     <1>37 DEF Next, Advance

(* The outcome is found by one worker, and the callback settled before anything else. *)
LEMMA PlacesStep ==
  ASSUME TRUE
  PROVE  TypeOK /\ Inv /\ Alone /\ Places /\ [Next]_vars => Places'
<1> SUFFICES ASSUME TypeOK, Inv, Alone, Places, [Next]_vars PROVE Places'
  OBVIOUS
<1> USE WorkerAssumption
    DEF TypeOK, Outcome, Reply, Status, Open, WorkerPc, MaxSends, turn, lease, work, locals,
        main, messenger, Alone, Places, Executing, Answering, Inv, Untouched, Sender,
        GivenUpOnlyExpired
<1>1. ASSUME Accept PROVE Places'
  BY <1>1 DEF Accept
<1>2. ASSUME NEW w \in Worker, ClaimWorker(w) PROVE Places'
  BY <1>2 DEF ClaimWorker, Fresh, Claimable, Unfinished, GoWith, GoDeliver, Interrupted,
     OutOfTime, Go
<1>3. ASSUME NEW w \in Worker, RenewWorker(w) PROVE Places'
  BY <1>3 DEF RenewWorker
<1>4. ASSUME NEW w \in Worker, Raise(w) PROVE Places'
  BY <1>4 DEF Raise, Leave, Go
<1>5. ASSUME NEW w \in Worker, Crash(w) PROVE Places'
  BY <1>5 DEF Crash, Leave, Go
<1>6. ASSUME LeaseExpires PROVE Places'
  BY <1>6 DEF LeaseExpires
<1>7. ASSUME Tick PROVE Places'
  BY <1>7 DEF Tick
<1>8. ASSUME PostSettles PROVE Places'
  BY <1>8 DEF PostSettles
<1>9. ASSUME NEW w \in Worker, BeginsLate(w) PROVE Places'
  BY <1>9 DEF BeginsLate, GoWith, Go
<1>10. ASSUME NEW w \in Worker, ClaimSession(w) PROVE Places'
  BY <1>10 DEF ClaimSession, GoWith, Go
<1>11. ASSUME NEW w \in Worker, Replay(w) PROVE Places'
  BY <1>11 DEF Replay, GoWith, Go
<1>12. ASSUME NEW w \in Worker, RetryRequired(w) PROVE Places'
  BY <1>12 DEF RetryRequired, GoWith, Go
<1>13. ASSUME NEW w \in Worker, SendCommit(w) PROVE Places'
  BY <1>13 DEF SendCommit, GoWith, Go
<1>14. ASSUME NEW w \in Worker, CommitAnswered(w) PROVE Places'
  BY <1>14 DEF CommitAnswered, GoWith, Go
<1>15. ASSUME NEW w \in Worker, TurnEnds(w) PROVE Places'
  BY <1>15 DEF TurnEnds, CloseRequest, GoWith, Go
<1>16. ASSUME NEW w \in Worker, TurnFails(w) PROVE Places'
  BY <1>16 DEF TurnFails, CloseRequest, GoWith, Go
<1>17. ASSUME NEW w \in Worker, TimesOut(w) PROVE Places'
  BY <1>17 DEF TimesOut, TimeOutWith, CloseRequest, GoWith, Go
<1>18. ASSUME NEW w \in Worker, ConfirmCommit(w) PROVE Places'
  BY <1>18 DEF ConfirmCommit, GoWith, Go
<1>19. ASSUME NEW w \in Worker, RecordOutcome(w) PROVE Places'
  BY <1>19 DEF RecordOutcome, WriteOutcome, GoWith, Go, Said, Views
<1>20. ASSUME NEW w \in Worker, LookUpAnswered(w) PROVE Places'
  BY <1>20 DEF LookUpAnswered, GoWith, Go
<1>21. ASSUME NEW w \in Worker, LookUpFails(w) PROVE Places'
  BY <1>21 DEF LookUpFails, Go
<1>22. ASSUME NEW w \in Worker, ResolveCommitUnknown(w) PROVE Places'
  BY <1>22 DEF ResolveCommitUnknown, ReopenSettlement, GoWith, Go, Views
<1>23. ASSUME NEW w \in Worker, ReadRow(w) PROVE Places'
  BY <1>23 DEF ReadRow, GoDeliver, Interrupted, OutOfTime, Go
<1>24. ASSUME NEW w \in Worker, ClaimDelivery(w) PROVE Places'
  BY <1>24 DEF ClaimDelivery, Unclaimed, Go
<1>25. ASSUME NEW w \in Worker, SendCallback(w) PROVE Places'
  BY <1>25 DEF SendCallback, Go
<1>26. ASSUME NEW w \in Worker, FinishDelivery(w) PROVE Places'
  BY <1>26 DEF FinishDelivery, Leave, Go
<1>27. ASSUME NEW w \in Worker, RereadRow(w) PROVE Places'
  BY <1>27 DEF RereadRow, DeliverySettled, GoWith, Go
<1>28. ASSUME NEW w \in Worker, PublishState(w) PROVE Places'
  BY <1>28 DEF PublishState, WriteState, Go
<1>29. ASSUME NEW w \in Worker, ReadDues(w) PROVE Places'
  BY <1>29 DEF ReadDues, Refundable, Leave, Go
<1>30. ASSUME NEW w \in Worker, UsageApplied(w) PROVE Places'
  BY <1>30 DEF UsageApplied, Proceed, Leave, Go
<1>31. ASSUME NEW w \in Worker, UsageCallFails(w) PROVE Places'
  BY <1>31 DEF UsageCallFails, Proceed, Leave, Go
<1>32. ASSUME NEW w \in Worker, MarkUsageReported(w) PROVE Places'
  BY <1>32 DEF MarkUsageReported, Proceed, Leave, Go
<1>33. ASSUME NEW w \in Worker, CompletionApplied(w) PROVE Places'
  BY <1>33 DEF CompletionApplied, Leave, Go
<1>34. ASSUME NEW w \in Worker, CompletionCallFails(w) PROVE Places'
  BY <1>34 DEF CompletionCallFails, Leave, Go
<1>35. ASSUME NEW w \in Worker, MarkCompleteNotified(w) PROVE Places'
  BY <1>35 DEF MarkCompleteNotified, Leave, Go
<1>36. ASSUME NEW w \in Worker, ReleaseWorker(w) PROVE Places'
  BY <1>36 DEF ReleaseWorker, Leave, Go
<1>37. CASE UNCHANGED vars
  BY <1>37 DEF vars
<1>38. QED
  BY <1>1, <1>2, <1>3, <1>4, <1>5, <1>6, <1>7, <1>8, <1>9, <1>10, <1>11, <1>12, <1>13,
     <1>14, <1>15, <1>16, <1>17, <1>18, <1>19, <1>20, <1>21, <1>22, <1>23, <1>24, <1>25,
     <1>26, <1>27, <1>28, <1>29, <1>30, <1>31, <1>32, <1>33, <1>34, <1>35, <1>36,
     <1>37 DEF Next, Advance

(* The main server is told what the row says, and again when that changes.  *)
LEMMA ToldStep ==
  ASSUME TRUE
  PROVE  TypeOK /\ Inv /\ Alone /\ Places /\ Told /\ [Next]_vars => Told'
<1> SUFFICES ASSUME TypeOK, Inv, Alone, Places, Told, [Next]_vars PROVE Told'
  OBVIOUS
<1> USE WorkerAssumption
    DEF TypeOK, Outcome, Reply, Status, Open, WorkerPc, MaxSends, turn, lease, work, locals,
        main, messenger, Alone, Places, Executing, Answering, Told, Settling,
        ToldTheDelivery
<1>1. ASSUME Accept PROVE Told'
  BY <1>1 DEF Accept, Said, Inv, Untouched
<1>2. ASSUME NEW w \in Worker, ClaimWorker(w) PROVE Told'
  BY <1>2 DEF ClaimWorker, Fresh, Claimable, Unfinished, GoWith, GoDeliver, Interrupted,
     OutOfTime, Go, Said
<1>3. ASSUME NEW w \in Worker, RenewWorker(w) PROVE Told'
  BY <1>3 DEF RenewWorker, Said
<1>4. ASSUME NEW w \in Worker, Raise(w) PROVE Told'
  BY <1>4 DEF Raise, Leave, Go, Said
<1>5. ASSUME NEW w \in Worker, Crash(w) PROVE Told'
  BY <1>5 DEF Crash, Leave, Go, Said
<1>6. ASSUME LeaseExpires PROVE Told'
  BY <1>6 DEF LeaseExpires, Said
<1>7. ASSUME Tick PROVE Told'
  BY <1>7 DEF Tick, Said
<1>8. ASSUME PostSettles PROVE Told'
  BY <1>8 DEF PostSettles, Said
<1>9. ASSUME NEW w \in Worker, BeginsLate(w) PROVE Told'
  BY <1>9 DEF BeginsLate, GoWith, Go, Said
<1>10. ASSUME NEW w \in Worker, ClaimSession(w) PROVE Told'
  BY <1>10 DEF ClaimSession, GoWith, Go, Said
<1>11. ASSUME NEW w \in Worker, Replay(w) PROVE Told'
  BY <1>11 DEF Replay, GoWith, Go, Said
<1>12. ASSUME NEW w \in Worker, RetryRequired(w) PROVE Told'
  BY <1>12 DEF RetryRequired, GoWith, Go, Said
<1>13. ASSUME NEW w \in Worker, SendCommit(w) PROVE Told'
  BY <1>13 DEF SendCommit, GoWith, Go, Said
<1>14. ASSUME NEW w \in Worker, CommitAnswered(w) PROVE Told'
  BY <1>14 DEF CommitAnswered, GoWith, Go, Said
<1>15. ASSUME NEW w \in Worker, TurnEnds(w) PROVE Told'
  BY <1>15 DEF TurnEnds, CloseRequest, GoWith, Go, Said
<1>16. ASSUME NEW w \in Worker, TurnFails(w) PROVE Told'
  BY <1>16 DEF TurnFails, CloseRequest, GoWith, Go, Said
<1>17. ASSUME NEW w \in Worker, TimesOut(w) PROVE Told'
  BY <1>17 DEF TimesOut, TimeOutWith, CloseRequest, GoWith, Go, Said
<1>18. ASSUME NEW w \in Worker, ConfirmCommit(w) PROVE Told'
  BY <1>18 DEF ConfirmCommit, GoWith, Go, Said
<1>19. ASSUME NEW w \in Worker, RecordOutcome(w) PROVE Told'
  BY <1>19 DEF RecordOutcome, WriteOutcome, GoWith, Go, Said
<1>20. ASSUME NEW w \in Worker, LookUpAnswered(w) PROVE Told'
  BY <1>20 DEF LookUpAnswered, GoWith, Go, Said
<1>21. ASSUME NEW w \in Worker, LookUpFails(w) PROVE Told'
  BY <1>21 DEF LookUpFails, Go, Said
<1>22. ASSUME NEW w \in Worker, ResolveCommitUnknown(w) PROVE Told'
  BY <1>22 DEF ResolveCommitUnknown, ReopenSettlement, GoWith, Go, Said, Inv, Published
<1>23. ASSUME NEW w \in Worker, ReadRow(w) PROVE Told'
  BY <1>23 DEF ReadRow, GoDeliver, Interrupted, OutOfTime, Go, Said
<1>24. ASSUME NEW w \in Worker, ClaimDelivery(w) PROVE Told'
  BY <1>24 DEF ClaimDelivery, Unclaimed, Go, Said
<1>25. ASSUME NEW w \in Worker, SendCallback(w) PROVE Told'
  BY <1>25 DEF SendCallback, Go, Said
<1>26. ASSUME NEW w \in Worker, FinishDelivery(w) PROVE Told'
  BY <1>26 DEF FinishDelivery, Leave, Go, Said
<1>27. ASSUME NEW w \in Worker, RereadRow(w) PROVE Told'
  BY <1>27 DEF RereadRow, DeliverySettled, GoWith, Go, Said
<1>28. ASSUME NEW w \in Worker, PublishState(w) PROVE Told'
  BY <1>28 DEF PublishState, WriteState, Go, Said
<1>29. ASSUME NEW w \in Worker, ReadDues(w) PROVE Told'
  BY <1>29 DEF ReadDues, Refundable, Leave, Go, Said
<1>30. ASSUME NEW w \in Worker, UsageApplied(w) PROVE Told'
  BY <1>30 DEF UsageApplied, Proceed, Leave, Go, Said
<1>31. ASSUME NEW w \in Worker, UsageCallFails(w) PROVE Told'
  BY <1>31 DEF UsageCallFails, Proceed, Leave, Go, Said
<1>32. ASSUME NEW w \in Worker, MarkUsageReported(w) PROVE Told'
  BY <1>32 DEF MarkUsageReported, Proceed, Leave, Go, Said
<1>33. ASSUME NEW w \in Worker, CompletionApplied(w) PROVE Told'
  BY <1>33 DEF CompletionApplied, Leave, Go, Said
<1>34. ASSUME NEW w \in Worker, CompletionCallFails(w) PROVE Told'
  BY <1>34 DEF CompletionCallFails, Leave, Go, Said
<1>35. ASSUME NEW w \in Worker, MarkCompleteNotified(w) PROVE Told'
  BY <1>35 DEF MarkCompleteNotified, Leave, Go, Said
<1>36. ASSUME NEW w \in Worker, ReleaseWorker(w) PROVE Told'
  BY <1>36 DEF ReleaseWorker, Leave, Go, Said
<1>37. CASE UNCHANGED vars
  BY <1>37 DEF vars
<1>38. QED
  BY <1>1, <1>2, <1>3, <1>4, <1>5, <1>6, <1>7, <1>8, <1>9, <1>10, <1>11, <1>12, <1>13,
     <1>14, <1>15, <1>16, <1>17, <1>18, <1>19, <1>20, <1>21, <1>22, <1>23, <1>24, <1>25,
     <1>26, <1>27, <1>28, <1>29, <1>30, <1>31, <1>32, <1>33, <1>34, <1>35, <1>36,
     <1>37 DEF Next, Advance

(* A look-up that does not race the POST is right.                         *)
LEMMA JustifiedStep ==
  ASSUME ~SlowPost
  PROVE  TypeOK /\ Inv /\ Alone /\ Places /\ Justified /\ [Next]_vars => Justified'
<1> SUFFICES ASSUME TypeOK, Inv, Alone, Places, Justified, [Next]_vars PROVE Justified'
  OBVIOUS
<1> USE WorkerAssumption
    DEF TypeOK, Outcome, Reply, Status, Open, WorkerPc, MaxSends, turn, lease, work, locals,
        main, messenger, Alone, Places, Executing, Answering, Justified, Clean
<1>1. ASSUME Accept PROVE Justified'
  BY <1>1 DEF Accept
<1>2. ASSUME NEW w \in Worker, ClaimWorker(w) PROVE Justified'
  BY <1>2 DEF ClaimWorker, Fresh, Claimable, Unfinished, GoWith, GoDeliver, Interrupted,
     OutOfTime, Go
<1>3. ASSUME NEW w \in Worker, RenewWorker(w) PROVE Justified'
  BY <1>3 DEF RenewWorker
<1>4. ASSUME NEW w \in Worker, Raise(w) PROVE Justified'
  BY <1>4 DEF Raise, Leave, Go
<1>5. ASSUME NEW w \in Worker, Crash(w) PROVE Justified'
  BY <1>5 DEF Crash, Leave, Go
<1>6. ASSUME LeaseExpires PROVE Justified'
  BY <1>6 DEF LeaseExpires
<1>7. ASSUME Tick PROVE Justified'
  BY <1>7 DEF Tick
<1>8. ASSUME PostSettles PROVE Justified'
  BY <1>8 DEF PostSettles
<1>9. ASSUME NEW w \in Worker, BeginsLate(w) PROVE Justified'
  BY <1>9 DEF BeginsLate, GoWith, Go
<1>10. ASSUME NEW w \in Worker, ClaimSession(w) PROVE Justified'
  BY <1>10 DEF ClaimSession, GoWith, Go
<1>11. ASSUME NEW w \in Worker, Replay(w) PROVE Justified'
  BY <1>11 DEF Replay, GoWith, Go
<1>12. ASSUME NEW w \in Worker, RetryRequired(w) PROVE Justified'
  BY <1>12 DEF RetryRequired, GoWith, Go
<1>13. ASSUME NEW w \in Worker, SendCommit(w) PROVE Justified'
  BY <1>13 DEF SendCommit, GoWith, Go
<1>14. ASSUME NEW w \in Worker, CommitAnswered(w) PROVE Justified'
  BY <1>14 DEF CommitAnswered, GoWith, Go
<1>15. ASSUME NEW w \in Worker, TurnEnds(w) PROVE Justified'
  BY <1>15 DEF TurnEnds, CloseRequest, GoWith, Go
<1>16. ASSUME NEW w \in Worker, TurnFails(w) PROVE Justified'
  BY <1>16 DEF TurnFails, CloseRequest, GoWith, Go
<1>17. ASSUME NEW w \in Worker, TimesOut(w) PROVE Justified'
  BY <1>17 DEF TimesOut, TimeOutWith, CloseRequest, GoWith, Go
<1>18. ASSUME NEW w \in Worker, ConfirmCommit(w) PROVE Justified'
  BY <1>18 DEF ConfirmCommit, GoWith, Go, MayAsk
<1>19. ASSUME NEW w \in Worker, RecordOutcome(w) PROVE Justified'
  BY <1>19 DEF RecordOutcome, WriteOutcome, GoWith, Go
<1>20. ASSUME NEW w \in Worker, LookUpAnswered(w) PROVE Justified'
  BY <1>20 DEF LookUpAnswered, GoWith, Go, MayAsk
<1>21. ASSUME NEW w \in Worker, LookUpFails(w) PROVE Justified'
  BY <1>21 DEF LookUpFails, Go
<1>22. ASSUME NEW w \in Worker, ResolveCommitUnknown(w) PROVE Justified'
  BY <1>22 DEF ResolveCommitUnknown, ReopenSettlement, GoWith, Go, Inv, Views
<1>23. ASSUME NEW w \in Worker, ReadRow(w) PROVE Justified'
  BY <1>23 DEF ReadRow, GoDeliver, Interrupted, OutOfTime, Go
<1>24. ASSUME NEW w \in Worker, ClaimDelivery(w) PROVE Justified'
  BY <1>24 DEF ClaimDelivery, Unclaimed, Go
<1>25. ASSUME NEW w \in Worker, SendCallback(w) PROVE Justified'
  BY <1>25 DEF SendCallback, Go
<1>26. ASSUME NEW w \in Worker, FinishDelivery(w) PROVE Justified'
  BY <1>26 DEF FinishDelivery, Leave, Go
<1>27. ASSUME NEW w \in Worker, RereadRow(w) PROVE Justified'
  BY <1>27 DEF RereadRow, DeliverySettled, GoWith, Go
<1>28. ASSUME NEW w \in Worker, PublishState(w) PROVE Justified'
  BY <1>28 DEF PublishState, WriteState, Go
<1>29. ASSUME NEW w \in Worker, ReadDues(w) PROVE Justified'
  BY <1>29 DEF ReadDues, Refundable, Leave, Go
<1>30. ASSUME NEW w \in Worker, UsageApplied(w) PROVE Justified'
  BY <1>30 DEF UsageApplied, Proceed, Leave, Go
<1>31. ASSUME NEW w \in Worker, UsageCallFails(w) PROVE Justified'
  BY <1>31 DEF UsageCallFails, Proceed, Leave, Go
<1>32. ASSUME NEW w \in Worker, MarkUsageReported(w) PROVE Justified'
  BY <1>32 DEF MarkUsageReported, Proceed, Leave, Go
<1>33. ASSUME NEW w \in Worker, CompletionApplied(w) PROVE Justified'
  BY <1>33 DEF CompletionApplied, Leave, Go
<1>34. ASSUME NEW w \in Worker, CompletionCallFails(w) PROVE Justified'
  BY <1>34 DEF CompletionCallFails, Leave, Go
<1>35. ASSUME NEW w \in Worker, MarkCompleteNotified(w) PROVE Justified'
  BY <1>35 DEF MarkCompleteNotified, Leave, Go
<1>36. ASSUME NEW w \in Worker, ReleaseWorker(w) PROVE Justified'
  BY <1>36 DEF ReleaseWorker, Leave, Go
<1>37. CASE UNCHANGED vars
  BY <1>37 DEF vars
<1>38. QED
  BY <1>1, <1>2, <1>3, <1>4, <1>5, <1>6, <1>7, <1>8, <1>9, <1>10, <1>11, <1>12, <1>13,
     <1>14, <1>15, <1>16, <1>17, <1>18, <1>19, <1>20, <1>21, <1>22, <1>23, <1>24, <1>25,
     <1>26, <1>27, <1>28, <1>29, <1>30, <1>31, <1>32, <1>33, <1>34, <1>35, <1>36,
     <1>37 DEF Next, Advance

-----------------------------------------------------------------------------
LEMMA InitTimely == Init => Alone /\ Places /\ Told /\ Justified
<1> SUFFICES ASSUME Init PROVE Alone /\ Places /\ Told /\ Justified
  OBVIOUS
<1> USE DEF Init
<1>1. Alone
  BY DEF Alone
<1>2. Places
  BY DEF Places, Executing, Answering, GivenUpOnlyExpired
<1>3. Told
  BY DEF Told, Settling, ToldTheDelivery
<1>4. Justified
  BY DEF Justified, Clean
<1>5. QED
  BY <1>1, <1>2, <1>3, <1>4

(* With timely leases, a worker at work is alone, and its place in the code
   agrees with the row and with what the main server knows.                *)
THEOREM TimelyInvariance ==
  ASSUME ~LeaseLapsesUnderLiveOwner
  PROVE  Spec => [](TypeOK /\ Inv /\ Alone /\ Places /\ Told)
<1>1. Alone /\ TypeOK /\ [Next]_vars => Alone'
  BY AloneStep
<1>2. TypeOK /\ Inv /\ Alone /\ Places /\ [Next]_vars => Places'
  BY PlacesStep
<1>3. TypeOK /\ Inv /\ Alone /\ Places /\ Told /\ [Next]_vars => Told'
  BY ToldStep
<1>4. QED
  BY <1>1, <1>2, <1>3, InitTimely, Invariance, PTL DEF Spec

(* With timely leases, a turn that is finished and notified was notified with
   the outcome it has in the end.                                          *)
THEOREM ToldIsFinalHolds ==
  ASSUME ~LeaseLapsesUnderLiveOwner
  PROVE  Spec => []ToldIsFinal
<1>1. Told => ToldIsFinal
  BY DEF Told, ToldIsFinal
<1>2. QED
  BY <1>1, TimelyInvariance, PTL

(* With timely leases, the main server knows what became of the callback.   *)
THEOREM ToldTheDeliveryHolds ==
  ASSUME ~LeaseLapsesUnderLiveOwner
  PROVE  Spec => []ToldTheDelivery
<1>1. Told => ToldTheDelivery
  BY DEF Told
<1>2. QED
  BY <1>1, TimelyInvariance, PTL

(* With timely leases, no callback is given up before expires_at.           *)
THEOREM GivenUpOnlyExpiredHolds ==
  ASSUME ~LeaseLapsesUnderLiveOwner
  PROVE  Spec => []GivenUpOnlyExpired
<1>1. Places => GivenUpOnlyExpired
  BY DEF Places
<1>2. QED
  BY <1>1, TimelyInvariance, PTL

(* With timely leases and look-ups that do not race a POST, a committed turn is
   refunded only after prepare_chat refused its failed request or an error
   interrupted its POST.                                                   *)
THEOREM RefundsUncommittedHolds ==
  ASSUME ~LeaseLapsesUnderLiveOwner, ~SlowPost
  PROVE  Spec => []RefundsUncommitted
<1>1. TypeOK /\ Inv /\ Alone /\ Places /\ Justified /\ [Next]_vars => Justified'
  BY JustifiedStep
<1>2. Inv /\ Justified => RefundsUncommitted
  BY DEF Inv, RefundedFailed, Justified, Clean, RefundsUncommitted
<1>3. QED
  BY <1>1, <1>2, InitTimely, TimelyInvariance, PTL DEF Spec

=============================================================================
