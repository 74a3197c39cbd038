----------------------- MODULE ExperienceRequest_proofs -----------------------
(***************************************************************************)
(* Proofs about ExperienceRequest, for any sets of requests, sessions and  *)
(* runs.  Inv is the inductive invariant; each of its conjuncts says what  *)
(* one part of the code relies on without testing it.                      *)
(***************************************************************************)
EXTENDS ExperienceRequest, TLAPS

(* A run that has been started works on a request.                         *)
Engaged == \A x \in Run : pc[x] # "off" => req[x] \in Request

(* The unique index: a session runs one request.                           *)
OneRunningPerSession ==
  \A r, q \in Request :
    /\ status[r] = "running"
    /\ status[q] = "running"
    /\ SessionOf[r] = SessionOf[q]
    => r = q

(* Graph state and checkpoints never leave their session.                  *)
Links ==
  /\ \A x \in Run : subject[x] # NoRequest =>
        /\ pc[x] # "off"
        /\ SessionOf[subject[x]] = SessionOf[req[x]]
  /\ \A s \in Session : thread[s] # NoRequest => SessionOf[thread[s]] = s

(* What a run takes for committed is committed.                            *)
Evidence ==
  \A x \in Run :
    /\ Renewing(x) => subject[x] # NoRequest
    /\ pc[x] = "commit" /\ posted[x] # NoRequest => posted[x] = subject[x]
    /\ answer[x] = "applied" => pc[x] = "commit" /\ committed[subject[x]]
    /\ pc[x] \in {"gap", "save"} /\ subject[x] # NoRequest => committed[subject[x]]
    /\ pc[x] = "settle" /\ verdict[x] = "committed" => committed[req[x]]

(* Columns that only make sense with a status.                             *)
Columns ==
  \A r \in Request :
    /\ retryable[r] => status[r] = "failed"
    /\ shown[r] # NoRequest => status[r] = "completed"

(* Nobody mentions a request that was not inserted.                        *)
Known ==
  /\ \A x \in Run :
       /\ pc[x] # "off" => status[req[x]] # "absent"
       /\ subject[x] # NoRequest => status[subject[x]] # "absent"
       /\ posted[x] # NoRequest => status[posted[x]] # "absent"
  /\ \A s \in Session :
       /\ thread[s] # NoRequest => status[thread[s]] # "absent"
       /\ latest[s] # NoRequest => status[latest[s]] # "absent"

(* Only a failed row is reported, and only a retry leads away from it.     *)
Reported ==
  \A x \in Run : pc[x] = "report" => status[req[x]] = "failed" \/ retried[req[x]]

Inv ==
  /\ Ownership
  /\ OneRunningPerSession
  /\ Links
  /\ Evidence
  /\ ShownIsCommitted
  /\ Columns
  /\ Known
  /\ Reported
  /\ RefundNeedsFailure

-----------------------------------------------------------------------------
(* Types *)

(* A run that ends leaves well-typed locals.                              *)
LEMMA EndTyped ==
  ASSUME RunsTyped, Engaged, NEW x \in Run, End(x)
  PROVE  RunsTyped' /\ Engaged'
BY DEF RunsTyped, Engaged, RunPc, Verdict, End

(* A run that fails keeps well-typed locals.                              *)
LEMMA FailTyped ==
  ASSUME RunsTyped, Engaged, NEW x \in Run, NEW v \in Verdict, pc[x] # "off", Fail(x, v)
  PROVE  RunsTyped' /\ Engaged'
BY DEF RunsTyped, Engaged, RunPc, Verdict, Fail, Go

(* A run whose commit is settled keeps well-typed locals.                 *)
LEMMA SettledTyped ==
  ASSUME RunsTyped, Engaged, NEW x \in Run, NEW to \in RunPc, NEW r \in Request \cup {NoRequest},
         pc[x] # "off", Settled(x, to, r)
  PROVE  RunsTyped' /\ Engaged'
BY DEF RunsTyped, Engaged, RunPc, Verdict, Settled, Go

(* A closing UPDATE writes values of the columns' types.                  *)
LEMMA CloseRowTyped ==
  ASSUME RowsTyped, NEW r, NEW final \in {"completed", "failed"}, NEW again \in BOOLEAN,
         CloseRow(r, final, again), shown' \in [Request -> Request \cup {NoRequest}]
  PROVE  RowsTyped'
BY DEF RowsTyped, CloseRow, CloseLease

(* The checkpoint holds a request of the right type.                      *)
LEMMA SaveTyped ==
  ASSUME CheckpointsTyped, NEW x, NEW r \in Request \cup {NoRequest},
         NEW end \in {"no", "fallback", "items"}, Save(x, r, end)
  PROVE  CheckpointsTyped'
BY DEF CheckpointsTyped, Save

(* Every step of every actor keeps the types, and a run without a request
   idle.                                                                   *)
LEMMA TypeStep == TypeOK /\ Engaged /\ [Next]_vars => TypeOK' /\ Engaged'
<1> SUFFICES ASSUME TypeOK, Engaged, [Next]_vars PROVE TypeOK' /\ Engaged'
  OBVIOUS
<1> USE SessionAssumption
    DEF TypeOK, RowsTyped, CheckpointsTyped, RunsTyped, MainTyped, RunPc, Verdict, Engaged,
        row, checkpoint, runs, main, history
<1>1. ASSUME NEW x \in Run, NEW r \in Request, ClaimRequest(x, r) PROVE TypeOK' /\ Engaged'
  BY <1>1 DEF ClaimRequest, Fresh, TakeRow, Begin, Go
<1>2. ASSUME NEW x \in Run, NEW r \in Request, CheckLatest(x, r) PROVE TypeOK' /\ Engaged'
  BY <1>2 DEF CheckLatest, Fresh, Begin, Go
<1>3. ASSUME NEW x \in Run, NEW r \in Request, ClaimExpired(x, r) PROVE TypeOK' /\ Engaged'
  BY <1>3 DEF ClaimExpired, ClaimForRecovery, Fresh, TakeRow, Begin, Go
<1>4. ASSUME NEW x \in Run, DisablePreviousRetries(x) PROVE TypeOK' /\ Engaged'
  BY <1>4 DEF DisablePreviousRetries, DisableRetries, Go
<1>5. ASSUME NEW x \in Run, RetryRequest(x) PROVE TypeOK' /\ Engaged'
  BY <1>5 DEF RetryRequest, RetryAllowed, Retryable, TakeRow, Go
<1>6. ASSUME NEW x \in Run, RetryRefused(x) PROVE TypeOK' /\ Engaged'
  BY <1>6, EndTyped DEF RetryRefused
<1>7. ASSUME NEW x \in Run, BuildState(x) PROVE TypeOK' /\ Engaged'
  BY <1>7, SaveTyped DEF BuildState, Go
<1>8. ASSUME NEW x \in Run, ResumeThread(x) PROVE TypeOK' /\ Engaged'
  BY <1>8, SettledTyped DEF ResumeThread
<1>9. ASSUME NEW x \in Run, ResumeNothing(x) PROVE TypeOK' /\ Engaged'
  BY <1>9, FailTyped DEF ResumeNothing
<1>10. ASSUME NEW x \in Run, GraphFallsBack(x) PROVE TypeOK' /\ Engaged'
  BY <1>10, SaveTyped, SettledTyped DEF GraphFallsBack
<1>11. ASSUME NEW x \in Run, GraphEnds(x) PROVE TypeOK' /\ Engaged'
  BY <1>11, SaveTyped DEF GraphEnds, Go
<1>12. ASSUME NEW x \in Run, GraphFails(x) PROVE TypeOK' /\ Engaged'
  BY <1>12, FailTyped DEF GraphFails
<1>13. ASSUME NEW x \in Run, SendCommit(x) PROVE TypeOK' /\ Engaged'
  BY <1>13 DEF SendCommit, Go
<1>14. ASSUME NEW x \in Run, CommitSucceeds(x) PROVE TypeOK' /\ Engaged'
  BY <1>14, SettledTyped DEF CommitSucceeds
<1>15. ASSUME NEW x \in Run, CommitConflict(x) PROVE TypeOK' /\ Engaged'
  BY <1>15 DEF CommitConflict, Rebuild, Go
<1>16. ASSUME NEW x \in Run, CommitRefused(x) PROVE TypeOK' /\ Engaged'
  BY <1>16, FailTyped DEF CommitRefused
<1>17. ASSUME NEW x \in Run, CommitTimesOut(x) PROVE TypeOK' /\ Engaged'
  BY <1>17, SettledTyped DEF CommitTimesOut
<1>18. ASSUME NEW x \in Run, LookUpCommit(x) PROVE TypeOK' /\ Engaged'
  BY <1>18, SettledTyped DEF LookUpCommit, AcceptLookUp
<1>19. ASSUME NEW x \in Run, LookUpFails(x) PROVE TypeOK' /\ Engaged'
  BY <1>19, FailTyped DEF LookUpFails
<1>20. ASSUME NEW x \in Run, FinishTurn(x) PROVE TypeOK' /\ Engaged'
  BY <1>20 DEF FinishTurn, Go
<1>21. ASSUME NEW x \in Run, SuggestionRaises(x) PROVE TypeOK' /\ Engaged'
  BY <1>21, FailTyped DEF SuggestionRaises
<1>22. ASSUME NEW x \in Run, MarkCompleted(x) PROVE TypeOK' /\ Engaged'
  BY <1>22, CloseRowTyped, EndTyped DEF MarkCompleted, Owns
<1>23. ASSUME NEW x \in Run, MarkFailed(x) PROVE TypeOK' /\ Engaged'
  BY <1>23, CloseRowTyped DEF MarkFailed, FailRow, Owns, Go
<1>24. ASSUME NEW x \in Run, WriteRefused(x) PROVE TypeOK' /\ Engaged'
  BY <1>24, EndTyped DEF WriteRefused
<1>25. ASSUME NEW x \in Run, ReportFailedUsage(x) PROVE TypeOK' /\ Engaged'
  BY <1>25, EndTyped DEF ReportFailedUsage
<1>26. ASSUME NEW x \in Run, ProbeCommit(x) PROVE TypeOK' /\ Engaged'
  BY <1>26 DEF ProbeCommit, Go
<1>27. ASSUME NEW x \in Run, SettleCompleted(x) PROVE TypeOK' /\ Engaged'
  BY <1>27, CloseRowTyped, EndTyped DEF SettleCompleted, Owns
<1>28. ASSUME NEW x \in Run, SettleRaises(x) PROVE TypeOK' /\ Engaged'
  BY <1>28 DEF SettleRaises
<1>29. ASSUME NEW x \in Run, SettleFailed(x) PROVE TypeOK' /\ Engaged'
  BY <1>29, CloseRowTyped, EndTyped DEF SettleFailed, Owns
<1>30. ASSUME NEW x \in Run, RenewSeesCancel(x) PROVE TypeOK' /\ Engaged'
  BY <1>30, FailTyped DEF RenewSeesCancel, Renewing, Owns
<1>31. ASSUME NEW x \in Run, NodeEnds(x) PROVE TypeOK' /\ Engaged'
  BY <1>31, SaveTyped DEF NodeEnds
<1>32. ASSUME NEW x \in Run, RenewLease(x) PROVE TypeOK' /\ Engaged'
  BY <1>32 DEF RenewLease, Renewing, Owns
<1>33. ASSUME NEW x \in Run, Crash(x) PROVE TypeOK' /\ Engaged'
  BY <1>33, EndTyped DEF Crash
<1>34. ASSUME NEW x \in Run, BuildStateRaises(x) PROVE TypeOK' /\ Engaged'
  BY <1>34, EndTyped DEF BuildStateRaises
<1>35. ASSUME NEW x \in Run, LoseLease(x) PROVE TypeOK' /\ Engaged'
  BY <1>35, EndTyped DEF LoseLease, Renewing
<1>36. ASSUME NEW x \in Run, ServerCommits(x) PROVE TypeOK' /\ Engaged'
  BY <1>36 DEF ServerCommits, Reply
<1>37. ASSUME NEW x \in Run, ServerRefuses(x) PROVE TypeOK' /\ Engaged'
  BY <1>37 DEF ServerRefuses, Reply
<1>38. ASSUME NEW x \in Run, PostIsLost(x) PROVE TypeOK' /\ Engaged'
  BY <1>38 DEF PostIsLost, Reply
<1>39. ASSUME NEW r \in Request, RequestCancellation(r) PROVE TypeOK' /\ Engaged'
  BY <1>39 DEF RequestCancellation
<1>40. ASSUME NEW r \in Request, LeaseExpires(r) PROVE TypeOK' /\ Engaged'
  BY <1>40 DEF LeaseExpires, Orphan
<1>41. ASSUME NEW r \in Request, RetryWindowCloses(r) PROVE TypeOK' /\ Engaged'
  BY <1>41 DEF RetryWindowCloses
<1>42. CASE UNCHANGED vars
  BY <1>42 DEF vars
<1> QED
  BY <1>1, <1>2, <1>3, <1>4, <1>5, <1>6, <1>7, <1>8, <1>9, <1>10, <1>11, <1>12, <1>13,
     <1>14, <1>15, <1>16, <1>17, <1>18, <1>19, <1>20, <1>21, <1>22, <1>23, <1>24, <1>25,
     <1>26, <1>27, <1>28, <1>29, <1>30, <1>31, <1>32, <1>33, <1>34, <1>35, <1>36, <1>37,
     <1>38, <1>39, <1>40, <1>41, <1>42
  DEF Next, Advance, Client, Server, Faults

(* The types hold in every reachable state, for every value of the constants:
   no run rebuilds more than one conflict.                                 *)
THEOREM TypeCorrect == Spec => []TypeOK
<1>1. Init => TypeOK /\ Engaged
  BY DEF Init, TypeOK, RowsTyped, CheckpointsTyped, RunsTyped, MainTyped, RunPc, Verdict, Engaged
<1>2. QED
  BY <1>1, TypeStep, PTL DEF Spec

-----------------------------------------------------------------------------
(* The inductive invariant *)

(* Every step of every actor keeps the invariant.                          *)
LEMMA InvStep == TypeOK /\ Engaged /\ Inv /\ [Next]_vars => Inv'
<1> SUFFICES ASSUME TypeOK, Engaged, Inv, [Next]_vars PROVE Inv'
  OBVIOUS
<1> USE SessionAssumption, RunAssumption, RequestAssumption
    DEF TypeOK, RowsTyped, CheckpointsTyped, RunsTyped, MainTyped, RunPc, Verdict, Engaged,
        Inv, Ownership, OneRunningPerSession, NoneRunning, Links, Evidence, Renewing,
        ShownIsCommitted, Columns, Known, Reported, RefundNeedsFailure,
        row, checkpoint, runs, main, history
<1>1. ASSUME NEW x \in Run, NEW r \in Request, ClaimRequest(x, r) PROVE Inv'
  BY <1>1 DEF ClaimRequest, Fresh, TakeRow, Begin, Go
<1>2. ASSUME NEW x \in Run, NEW r \in Request, CheckLatest(x, r) PROVE Inv'
  BY <1>2 DEF CheckLatest, Fresh, Begin, Go
<1>3. ASSUME NEW x \in Run, NEW r \in Request, ClaimExpired(x, r) PROVE Inv'
  BY <1>3 DEF ClaimExpired, ClaimForRecovery, Fresh, TakeRow, Begin, Go
<1>4. ASSUME NEW x \in Run, DisablePreviousRetries(x) PROVE Inv'
  BY <1>4 DEF DisablePreviousRetries, DisableRetries, Go
<1>5. ASSUME NEW x \in Run, RetryRequest(x) PROVE Inv'
  BY <1>5 DEF RetryRequest, RetryAllowed, Retryable, TakeRow, Go
<1>6. ASSUME NEW x \in Run, RetryRefused(x) PROVE Inv'
  BY <1>6 DEF RetryRefused, End
<1>7. ASSUME NEW x \in Run, BuildState(x) PROVE Inv'
  BY <1>7 DEF BuildState, Save, Go
<1>8. ASSUME NEW x \in Run, ResumeThread(x) PROVE Inv'
  <2> DEFINE held == thread[SessionOf[req[x]]]
  <2>1. /\ pc[x] = "resuming"
        /\ req[x] \in Request /\ SessionOf[req[x]] \in Session
        /\ held \in Request
    BY <1>8 DEF ResumeThread
  <2>2. held \in Request /\ SessionOf[held] = SessionOf[req[x]] /\ status[held] # "absent"
    BY <2>1
  <2>3. PICK to \in {"graph", "coordinate", "save"}, r \in {held, NoRequest} :
          Settled(x, to, r) /\ (r = NoRequest <=> to = "save")
    BY <1>8, <2>1 DEF ResumeThread
  <2>4. UNCHANGED <<row, checkpoint, main, history>>
    BY <1>8 DEF ResumeThread
  <2> HIDE DEF held
  <2>5. Links' /\ Known'
    BY <2>1, <2>2, <2>3, <2>4 DEF Settled, Go
  <2>6. Evidence'
    BY <2>1, <2>2, <2>3, <2>4 DEF Settled, Go
  <2>7. Ownership' /\ OneRunningPerSession' /\ Reported'
    BY <2>1, <2>3, <2>4 DEF Settled, Go
  <2>8. ShownIsCommitted' /\ Columns' /\ RefundNeedsFailure'
    BY <2>4
  <2> QED
    BY <2>5, <2>6, <2>7, <2>8
<1>9. ASSUME NEW x \in Run, ResumeNothing(x) PROVE Inv'
  BY <1>9 DEF ResumeNothing, Fail, Go
<1>10. ASSUME NEW x \in Run, GraphFallsBack(x) PROVE Inv'
  BY <1>10 DEF GraphFallsBack, Save, Settled, Go
<1>11. ASSUME NEW x \in Run, GraphEnds(x) PROVE Inv'
  BY <1>11 DEF GraphEnds, Save, Go
<1>12. ASSUME NEW x \in Run, GraphFails(x) PROVE Inv'
  BY <1>12 DEF GraphFails, Fail, Go
<1>13. ASSUME NEW x \in Run, SendCommit(x) PROVE Inv'
  BY <1>13 DEF SendCommit, Go
<1>14. ASSUME NEW x \in Run, CommitSucceeds(x) PROVE Inv'
  BY <1>14 DEF CommitSucceeds, Settled, Go
<1>15. ASSUME NEW x \in Run, CommitConflict(x) PROVE Inv'
  BY <1>15 DEF CommitConflict, Rebuild, Go
<1>16. ASSUME NEW x \in Run, CommitRefused(x) PROVE Inv'
  BY <1>16 DEF CommitRefused, Fail, Go
<1>17. ASSUME NEW x \in Run, CommitTimesOut(x) PROVE Inv'
  BY <1>17 DEF CommitTimesOut, Settled, Go
<1>18. ASSUME NEW x \in Run, LookUpCommit(x) PROVE Inv'
  BY <1>18 DEF LookUpCommit, AcceptLookUp, Settled, Go
<1>19. ASSUME NEW x \in Run, LookUpFails(x) PROVE Inv'
  BY <1>19 DEF LookUpFails, Fail, Go
<1>20. ASSUME NEW x \in Run, FinishTurn(x) PROVE Inv'
  BY <1>20 DEF FinishTurn, Go
<1>21. ASSUME NEW x \in Run, SuggestionRaises(x) PROVE Inv'
  BY <1>21 DEF SuggestionRaises, Fail, Go
<1>22. ASSUME NEW x \in Run, MarkCompleted(x) PROVE Inv'
  BY <1>22 DEF MarkCompleted, Owns, CloseRow, CloseLease, End
<1>23. ASSUME NEW x \in Run, MarkFailed(x) PROVE Inv'
  BY <1>23 DEF MarkFailed, FailRow, Owns, CloseRow, CloseLease, Go
<1>24. ASSUME NEW x \in Run, WriteRefused(x) PROVE Inv'
  BY <1>24 DEF WriteRefused, End
<1>25. ASSUME NEW x \in Run, ReportFailedUsage(x) PROVE Inv'
  BY <1>25 DEF ReportFailedUsage, End
<1>26. ASSUME NEW x \in Run, ProbeCommit(x) PROVE Inv'
  BY <1>26 DEF ProbeCommit, Go
<1>27. ASSUME NEW x \in Run, SettleCompleted(x) PROVE Inv'
  BY <1>27 DEF SettleCompleted, Owns, CloseRow, CloseLease, End
<1>28. ASSUME NEW x \in Run, SettleRaises(x) PROVE Inv'
  BY <1>28 DEF SettleRaises
<1>29. ASSUME NEW x \in Run, SettleFailed(x) PROVE Inv'
  BY <1>29 DEF SettleFailed, Owns, CloseRow, CloseLease, End
<1>30. ASSUME NEW x \in Run, RenewSeesCancel(x) PROVE Inv'
  BY <1>30 DEF RenewSeesCancel, Renewing, Owns, Fail, Go
<1>31. ASSUME NEW x \in Run, NodeEnds(x) PROVE Inv'
  BY <1>31 DEF NodeEnds, Save
<1>32. ASSUME NEW x \in Run, RenewLease(x) PROVE Inv'
  BY <1>32 DEF RenewLease, Renewing, Owns
<1>33. ASSUME NEW x \in Run, Crash(x) PROVE Inv'
  BY <1>33 DEF Crash, End
<1>34. ASSUME NEW x \in Run, BuildStateRaises(x) PROVE Inv'
  BY <1>34 DEF BuildStateRaises, End
<1>35. ASSUME NEW x \in Run, LoseLease(x) PROVE Inv'
  BY <1>35 DEF LoseLease, Renewing, End
<1>36. ASSUME NEW x \in Run, ServerCommits(x) PROVE Inv'
  BY <1>36 DEF ServerCommits, Reply
<1>37. ASSUME NEW x \in Run, ServerRefuses(x) PROVE Inv'
  BY <1>37 DEF ServerRefuses, Reply
<1>38. ASSUME NEW x \in Run, PostIsLost(x) PROVE Inv'
  BY <1>38 DEF PostIsLost, Reply
<1>39. ASSUME NEW r \in Request, RequestCancellation(r) PROVE Inv'
  BY <1>39 DEF RequestCancellation
<1>40. ASSUME NEW r \in Request, LeaseExpires(r) PROVE Inv'
  BY <1>40 DEF LeaseExpires, Orphan
<1>41. ASSUME NEW r \in Request, RetryWindowCloses(r) PROVE Inv'
  BY <1>41 DEF RetryWindowCloses
<1>42. CASE UNCHANGED vars
  BY <1>42 DEF vars
<1> QED
  BY <1>1, <1>2, <1>3, <1>4, <1>5, <1>6, <1>7, <1>8, <1>9, <1>10, <1>11, <1>12, <1>13,
     <1>14, <1>15, <1>16, <1>17, <1>18, <1>19, <1>20, <1>21, <1>22, <1>23, <1>24, <1>25,
     <1>26, <1>27, <1>28, <1>29, <1>30, <1>31, <1>32, <1>33, <1>34, <1>35, <1>36, <1>37,
     <1>38, <1>39, <1>40, <1>41, <1>42
  DEF Next, Advance, Client, Server, Faults

(* Inv, with the types, holds in every reachable state.                    *)
THEOREM Invariance == Spec => [](TypeOK /\ Engaged /\ Inv)
<1>1. Init => TypeOK /\ Engaged /\ Inv
  BY RequestAssumption
  DEF Init, TypeOK, RowsTyped, CheckpointsTyped, RunsTyped, MainTyped, RunPc, Verdict, Engaged,
      Inv, Ownership, OneRunningPerSession, Links, Evidence, Renewing, ShownIsCommitted, Columns,
      Known, Reported, RefundNeedsFailure
<1>2. QED
  BY <1>1, TypeStep, InvStep, PTL DEF Spec

(* Rows and runs agree on who executes what.                               *)
THEOREM OwnershipHolds == Spec => []Ownership
  BY Invariance, PTL DEF Inv

(* A result that shows changes shows changes the main server holds.        *)
THEOREM ShownIsCommittedHolds == Spec => []ShownIsCommitted
  BY Invariance, PTL DEF Inv

(* A turn is given back only for a request that failed.                    *)
THEOREM RefundNeedsFailureHolds == Spec => []RefundNeedsFailure
  BY Invariance, PTL DEF Inv

(* At most one row per session is running.                                 *)
THEOREM SessionsRunOneRequest == Spec => []OneRunningPerSession
  BY Invariance, PTL DEF Inv

-----------------------------------------------------------------------------
(* Fencing *)

(* A row leaves `running' only by a step of the run that holds its token.  *)
LEMMA FenceStep ==
  TypeOK /\ Engaged /\ Inv /\ [Next]_vars =>
    \A r \in Request :
      status[r] = "running" /\ status'[r] # "running" => pc'[owner[r]] # pc[owner[r]]
<1> SUFFICES ASSUME TypeOK, Engaged, Inv, [Next]_vars,
                    NEW q \in Request, status[q] = "running", status'[q] # "running"
             PROVE  pc'[owner[q]] # pc[owner[q]]
  OBVIOUS
<1> USE DEF TypeOK, RowsTyped, RunsTyped, RunPc, Engaged, row, checkpoint, runs, main, history
<1>1. ASSUME NEW x \in Run, NEW r \in Request, ClaimRequest(x, r) PROVE pc'[owner[q]] # pc[owner[q]]
  BY <1>1 DEF ClaimRequest, Fresh, TakeRow, Begin, Go
<1>2. ASSUME NEW x \in Run, NEW r \in Request, CheckLatest(x, r) PROVE pc'[owner[q]] # pc[owner[q]]
  BY <1>2 DEF CheckLatest, Fresh, Begin, Go
<1>3. ASSUME NEW x \in Run, NEW r \in Request, ClaimExpired(x, r) PROVE pc'[owner[q]] # pc[owner[q]]
  BY <1>3 DEF ClaimExpired, ClaimForRecovery, Fresh, TakeRow, Begin, Go
<1>4. ASSUME NEW x \in Run, DisablePreviousRetries(x) PROVE pc'[owner[q]] # pc[owner[q]]
  BY <1>4 DEF DisablePreviousRetries, DisableRetries, Go
<1>5. ASSUME NEW x \in Run, RetryRequest(x) PROVE pc'[owner[q]] # pc[owner[q]]
  BY <1>5 DEF RetryRequest, RetryAllowed, Retryable, TakeRow, Go
<1>6. ASSUME NEW x \in Run, RetryRefused(x) PROVE pc'[owner[q]] # pc[owner[q]]
  BY <1>6 DEF RetryRefused, End
<1>7. ASSUME NEW x \in Run, BuildState(x) PROVE pc'[owner[q]] # pc[owner[q]]
  BY <1>7 DEF BuildState, Save, Go
<1>8. ASSUME NEW x \in Run, ResumeThread(x) PROVE pc'[owner[q]] # pc[owner[q]]
  BY <1>8 DEF ResumeThread, Settled, Go
<1>9. ASSUME NEW x \in Run, ResumeNothing(x) PROVE pc'[owner[q]] # pc[owner[q]]
  BY <1>9 DEF ResumeNothing, Fail, Go
<1>10. ASSUME NEW x \in Run, GraphFallsBack(x) PROVE pc'[owner[q]] # pc[owner[q]]
  BY <1>10 DEF GraphFallsBack, Save, Settled, Go
<1>11. ASSUME NEW x \in Run, GraphEnds(x) PROVE pc'[owner[q]] # pc[owner[q]]
  BY <1>11 DEF GraphEnds, Save, Go
<1>12. ASSUME NEW x \in Run, GraphFails(x) PROVE pc'[owner[q]] # pc[owner[q]]
  BY <1>12 DEF GraphFails, Fail, Go
<1>13. ASSUME NEW x \in Run, SendCommit(x) PROVE pc'[owner[q]] # pc[owner[q]]
  BY <1>13 DEF SendCommit, Go
<1>14. ASSUME NEW x \in Run, CommitSucceeds(x) PROVE pc'[owner[q]] # pc[owner[q]]
  BY <1>14 DEF CommitSucceeds, Settled, Go
<1>15. ASSUME NEW x \in Run, CommitConflict(x) PROVE pc'[owner[q]] # pc[owner[q]]
  BY <1>15 DEF CommitConflict, Rebuild, Go
<1>16. ASSUME NEW x \in Run, CommitRefused(x) PROVE pc'[owner[q]] # pc[owner[q]]
  BY <1>16 DEF CommitRefused, Fail, Go
<1>17. ASSUME NEW x \in Run, CommitTimesOut(x) PROVE pc'[owner[q]] # pc[owner[q]]
  BY <1>17 DEF CommitTimesOut, Settled, Go
<1>18. ASSUME NEW x \in Run, LookUpCommit(x) PROVE pc'[owner[q]] # pc[owner[q]]
  BY <1>18 DEF LookUpCommit, AcceptLookUp, Settled, Go
<1>19. ASSUME NEW x \in Run, LookUpFails(x) PROVE pc'[owner[q]] # pc[owner[q]]
  BY <1>19 DEF LookUpFails, Fail, Go
<1>20. ASSUME NEW x \in Run, FinishTurn(x) PROVE pc'[owner[q]] # pc[owner[q]]
  BY <1>20 DEF FinishTurn, Go
<1>21. ASSUME NEW x \in Run, SuggestionRaises(x) PROVE pc'[owner[q]] # pc[owner[q]]
  BY <1>21 DEF SuggestionRaises, Fail, Go
<1>22. ASSUME NEW x \in Run, MarkCompleted(x) PROVE pc'[owner[q]] # pc[owner[q]]
  BY <1>22 DEF MarkCompleted, Owns, CloseRow, CloseLease, End
<1>23. ASSUME NEW x \in Run, MarkFailed(x) PROVE pc'[owner[q]] # pc[owner[q]]
  BY <1>23 DEF MarkFailed, FailRow, Owns, CloseRow, CloseLease, Go
<1>24. ASSUME NEW x \in Run, WriteRefused(x) PROVE pc'[owner[q]] # pc[owner[q]]
  BY <1>24 DEF WriteRefused, End
<1>25. ASSUME NEW x \in Run, ReportFailedUsage(x) PROVE pc'[owner[q]] # pc[owner[q]]
  BY <1>25 DEF ReportFailedUsage, End
<1>26. ASSUME NEW x \in Run, ProbeCommit(x) PROVE pc'[owner[q]] # pc[owner[q]]
  BY <1>26 DEF ProbeCommit, Go
<1>27. ASSUME NEW x \in Run, SettleCompleted(x) PROVE pc'[owner[q]] # pc[owner[q]]
  BY <1>27 DEF SettleCompleted, Owns, CloseRow, CloseLease, End
<1>28. ASSUME NEW x \in Run, SettleRaises(x) PROVE pc'[owner[q]] # pc[owner[q]]
  BY <1>28 DEF SettleRaises
<1>29. ASSUME NEW x \in Run, SettleFailed(x) PROVE pc'[owner[q]] # pc[owner[q]]
  BY <1>29 DEF SettleFailed, Owns, CloseRow, CloseLease, End
<1>30. ASSUME NEW x \in Run, RenewSeesCancel(x) PROVE pc'[owner[q]] # pc[owner[q]]
  BY <1>30 DEF RenewSeesCancel, Renewing, Owns, Fail, Go
<1>31. ASSUME NEW x \in Run, NodeEnds(x) PROVE pc'[owner[q]] # pc[owner[q]]
  BY <1>31 DEF NodeEnds, Save
<1>32. ASSUME NEW x \in Run, RenewLease(x) PROVE pc'[owner[q]] # pc[owner[q]]
  BY <1>32 DEF RenewLease, Renewing, Owns
<1>33. ASSUME NEW x \in Run, Crash(x) PROVE pc'[owner[q]] # pc[owner[q]]
  BY <1>33 DEF Crash, End
<1>34. ASSUME NEW x \in Run, BuildStateRaises(x) PROVE pc'[owner[q]] # pc[owner[q]]
  BY <1>34 DEF BuildStateRaises, End
<1>35. ASSUME NEW x \in Run, LoseLease(x) PROVE pc'[owner[q]] # pc[owner[q]]
  BY <1>35 DEF LoseLease, Renewing, End
<1>36. ASSUME NEW x \in Run, ServerCommits(x) PROVE pc'[owner[q]] # pc[owner[q]]
  BY <1>36 DEF ServerCommits, Reply
<1>37. ASSUME NEW x \in Run, ServerRefuses(x) PROVE pc'[owner[q]] # pc[owner[q]]
  BY <1>37 DEF ServerRefuses, Reply
<1>38. ASSUME NEW x \in Run, PostIsLost(x) PROVE pc'[owner[q]] # pc[owner[q]]
  BY <1>38 DEF PostIsLost, Reply
<1>39. ASSUME NEW r \in Request, RequestCancellation(r) PROVE pc'[owner[q]] # pc[owner[q]]
  BY <1>39 DEF RequestCancellation
<1>40. ASSUME NEW r \in Request, LeaseExpires(r) PROVE pc'[owner[q]] # pc[owner[q]]
  BY <1>40 DEF LeaseExpires, Orphan
<1>41. ASSUME NEW r \in Request, RetryWindowCloses(r) PROVE pc'[owner[q]] # pc[owner[q]]
  BY <1>41 DEF RetryWindowCloses
<1>42. CASE UNCHANGED vars
  BY <1>42 DEF vars
<1> QED
  BY <1>1, <1>2, <1>3, <1>4, <1>5, <1>6, <1>7, <1>8, <1>9, <1>10, <1>11, <1>12, <1>13,
     <1>14, <1>15, <1>16, <1>17, <1>18, <1>19, <1>20, <1>21, <1>22, <1>23, <1>24, <1>25,
     <1>26, <1>27, <1>28, <1>29, <1>30, <1>31, <1>32, <1>33, <1>34, <1>35, <1>36, <1>37,
     <1>38, <1>39, <1>40, <1>41, <1>42
  DEF Next, Advance, Client, Server, Faults

(* No worker closes a request that a successor holds.                      *)
THEOREM FencedWritesHolds == Spec => FencedWrites
<1>1. TypeOK /\ Engaged /\ Inv /\ [Next]_vars =>
        [\A r \in Request :
           status[r] = "running" /\ status'[r] # "running" => pc'[owner[r]] # pc[owner[r]]]_vars
  BY FenceStep
<1>2. QED
  BY <1>1, Invariance, PTL DEF Spec, FencedWrites

-----------------------------------------------------------------------------
(* Refinement of RequestLedger *)

(* Every step is a step of the ledger, or leaves it alone.                 *)
LEMMA LedgerStep ==
  TypeOK /\ Engaged /\ Inv /\ [Next]_vars => [Ledger!Next]_(Ledger!vars)
<1> SUFFICES ASSUME TypeOK, Engaged, Inv, [Next]_vars PROVE [Ledger!Next]_(Ledger!vars)
  OBVIOUS
<1> USE SessionAssumption, RequestAssumption
    DEF TypeOK, RowsTyped, CheckpointsTyped, RunsTyped, MainTyped, RunPc, Verdict, Engaged,
        Inv, Ownership, NoneRunning, Links, Evidence, ShownIsCommitted, Columns, Known,
        row, checkpoint, runs, main, history, Ledger!vars
<1>1. ASSUME NEW x \in Run, NEW r \in Request, ClaimRequest(x, r) PROVE [Ledger!Next]_(Ledger!vars)
  <2>1. Ledger!Start(r)
    BY <1>1 DEF ClaimRequest, Fresh, TakeRow, Begin, Go, Ledger!Start, Ledger!Idle
  <2>2. QED
    BY <1>1, <2>1 DEF Ledger!Next, ClaimRequest
<1>2. ASSUME NEW x \in Run, NEW r \in Request, CheckLatest(x, r) PROVE [Ledger!Next]_(Ledger!vars)
  BY <1>2 DEF CheckLatest, Fresh, Begin, Go
<1>3. ASSUME NEW x \in Run, NEW r \in Request, ClaimExpired(x, r) PROVE [Ledger!Next]_(Ledger!vars)
  BY <1>3 DEF ClaimExpired, ClaimForRecovery, Fresh, TakeRow, Begin, Go
<1>4. ASSUME NEW x \in Run, DisablePreviousRetries(x) PROVE [Ledger!Next]_(Ledger!vars)
  <2>1. Ledger!Forfeit(req[x])
    <3>1. retryable' = [r \in Request |->
            IF SessionOf[r] = SessionOf[req[x]] /\ r # req[x] /\ status[r] = "failed"
            THEN FALSE ELSE retryable[r]]
      BY ONLY <1>4 DEF DisablePreviousRetries, DisableRetries
    <3>2. UNCHANGED <<status, shown, committed>>
      BY <1>4 DEF DisablePreviousRetries, DisableRetries
    <3> QED
      BY ONLY <3>1, <3>2 DEF Ledger!Forfeit
  <2>2. QED
    BY <1>4, <2>1 DEF Ledger!Next, DisablePreviousRetries, DisableRetries
<1>5. ASSUME NEW x \in Run, RetryRequest(x) PROVE [Ledger!Next]_(Ledger!vars)
  <2>1. Ledger!Retry(req[x])
    BY <1>5 DEF RetryRequest, RetryAllowed, Retryable, TakeRow, Go, Ledger!Retry,
     Ledger!Idle
  <2>2. QED
    BY <1>5, <2>1 DEF Ledger!Next, RetryRequest
<1>6. ASSUME NEW x \in Run, RetryRefused(x) PROVE [Ledger!Next]_(Ledger!vars)
  BY <1>6 DEF RetryRefused, End
<1>7. ASSUME NEW x \in Run, BuildState(x) PROVE [Ledger!Next]_(Ledger!vars)
  BY <1>7 DEF BuildState, Save, Go
<1>8. ASSUME NEW x \in Run, ResumeThread(x) PROVE [Ledger!Next]_(Ledger!vars)
  BY <1>8 DEF ResumeThread, Settled, Go
<1>9. ASSUME NEW x \in Run, ResumeNothing(x) PROVE [Ledger!Next]_(Ledger!vars)
  BY <1>9 DEF ResumeNothing, Fail, Go
<1>10. ASSUME NEW x \in Run, GraphFallsBack(x) PROVE [Ledger!Next]_(Ledger!vars)
  BY <1>10 DEF GraphFallsBack, Save, Settled, Go
<1>11. ASSUME NEW x \in Run, GraphEnds(x) PROVE [Ledger!Next]_(Ledger!vars)
  BY <1>11 DEF GraphEnds, Save, Go
<1>12. ASSUME NEW x \in Run, GraphFails(x) PROVE [Ledger!Next]_(Ledger!vars)
  BY <1>12 DEF GraphFails, Fail, Go
<1>13. ASSUME NEW x \in Run, SendCommit(x) PROVE [Ledger!Next]_(Ledger!vars)
  BY <1>13 DEF SendCommit, Go
<1>14. ASSUME NEW x \in Run, CommitSucceeds(x) PROVE [Ledger!Next]_(Ledger!vars)
  BY <1>14 DEF CommitSucceeds, Settled, Go
<1>15. ASSUME NEW x \in Run, CommitConflict(x) PROVE [Ledger!Next]_(Ledger!vars)
  BY <1>15 DEF CommitConflict, Rebuild, Go
<1>16. ASSUME NEW x \in Run, CommitRefused(x) PROVE [Ledger!Next]_(Ledger!vars)
  BY <1>16 DEF CommitRefused, Fail, Go
<1>17. ASSUME NEW x \in Run, CommitTimesOut(x) PROVE [Ledger!Next]_(Ledger!vars)
  BY <1>17 DEF CommitTimesOut, Settled, Go
<1>18. ASSUME NEW x \in Run, LookUpCommit(x) PROVE [Ledger!Next]_(Ledger!vars)
  BY <1>18 DEF LookUpCommit, AcceptLookUp, Settled, Go
<1>19. ASSUME NEW x \in Run, LookUpFails(x) PROVE [Ledger!Next]_(Ledger!vars)
  BY <1>19 DEF LookUpFails, Fail, Go
<1>20. ASSUME NEW x \in Run, FinishTurn(x) PROVE [Ledger!Next]_(Ledger!vars)
  BY <1>20 DEF FinishTurn, Go
<1>21. ASSUME NEW x \in Run, SuggestionRaises(x) PROVE [Ledger!Next]_(Ledger!vars)
  BY <1>21 DEF SuggestionRaises, Fail, Go
<1>22. ASSUME NEW x \in Run, MarkCompleted(x) PROVE [Ledger!Next]_(Ledger!vars)
  <2>1. Ledger!Complete(req[x], subject[x])
    <3>1. req[x] \in Request /\ status[req[x]] = "running" /\ shown[req[x]] = NoRequest
      BY <1>22 DEF MarkCompleted, Owns
    <3>2. subject[x] # NoRequest => committed[subject[x]] /\ SessionOf[subject[x]] = SessionOf[req[x]]
      BY <1>22 DEF MarkCompleted
    <3>3. shown' = [shown EXCEPT ![req[x]] = subject[x]]
      BY <1>22, <3>1 DEF MarkCompleted
    <3>4. /\ status' = [status EXCEPT ![req[x]] = "completed"]
          /\ retryable' = [retryable EXCEPT ![req[x]] = FALSE]
          /\ UNCHANGED committed
      BY <1>22 DEF MarkCompleted, CloseRow, CloseLease
    <3>5. UNCHANGED retryable
      BY <3>1, <3>4
    <3> QED
      BY <3>1, <3>2, <3>3, <3>4, <3>5 DEF Ledger!Complete
  <2>2. QED
    BY <1>22, <2>1 DEF Ledger!Next, MarkCompleted, Owns
<1>23. ASSUME NEW x \in Run, MarkFailed(x) PROVE [Ledger!Next]_(Ledger!vars)
  <2>1. Ledger!Fail(req[x], verdict[x] = "retryable")
    BY <1>23 DEF MarkFailed, FailRow, Owns, CloseRow, CloseLease, Go, Ledger!Fail
  <2>2. QED
    BY <1>23, <2>1 DEF Ledger!Next, MarkFailed, FailRow, Owns
<1>24. ASSUME NEW x \in Run, WriteRefused(x) PROVE [Ledger!Next]_(Ledger!vars)
  BY <1>24 DEF WriteRefused, End
<1>25. ASSUME NEW x \in Run, ReportFailedUsage(x) PROVE [Ledger!Next]_(Ledger!vars)
  BY <1>25 DEF ReportFailedUsage, End
<1>26. ASSUME NEW x \in Run, ProbeCommit(x) PROVE [Ledger!Next]_(Ledger!vars)
  BY <1>26 DEF ProbeCommit, Go
<1>27. ASSUME NEW x \in Run, SettleCompleted(x) PROVE [Ledger!Next]_(Ledger!vars)
  <2>1. Ledger!Complete(req[x], req[x])
    BY <1>27 DEF SettleCompleted, Owns, CloseRow, CloseLease, End, Ledger!Complete
  <2>2. QED
    BY <1>27, <2>1 DEF Ledger!Next, SettleCompleted, Owns
<1>28. ASSUME NEW x \in Run, SettleRaises(x) PROVE [Ledger!Next]_(Ledger!vars)
  BY <1>28 DEF SettleRaises
<1>29. ASSUME NEW x \in Run, SettleFailed(x) PROVE [Ledger!Next]_(Ledger!vars)
  <2>1. Ledger!Fail(req[x], TRUE)
    BY <1>29 DEF SettleFailed, Owns, CloseRow, CloseLease, End, Ledger!Fail
  <2>2. QED
    BY <1>29, <2>1 DEF Ledger!Next, SettleFailed, Owns
<1>30. ASSUME NEW x \in Run, RenewSeesCancel(x) PROVE [Ledger!Next]_(Ledger!vars)
  BY <1>30 DEF RenewSeesCancel, Renewing, Owns, Fail, Go
<1>31. ASSUME NEW x \in Run, NodeEnds(x) PROVE [Ledger!Next]_(Ledger!vars)
  BY <1>31 DEF NodeEnds, Save
<1>32. ASSUME NEW x \in Run, RenewLease(x) PROVE [Ledger!Next]_(Ledger!vars)
  BY <1>32 DEF RenewLease, Renewing, Owns
<1>33. ASSUME NEW x \in Run, Crash(x) PROVE [Ledger!Next]_(Ledger!vars)
  BY <1>33 DEF Crash, End
<1>34. ASSUME NEW x \in Run, BuildStateRaises(x) PROVE [Ledger!Next]_(Ledger!vars)
  BY <1>34 DEF BuildStateRaises, End
<1>35. ASSUME NEW x \in Run, LoseLease(x) PROVE [Ledger!Next]_(Ledger!vars)
  BY <1>35 DEF LoseLease, Renewing, End
<1>36. ASSUME NEW x \in Run, ServerCommits(x) PROVE [Ledger!Next]_(Ledger!vars)
  <2>1. Ledger!Commit(posted[x])
    BY <1>36 DEF ServerCommits, Reply, Ledger!Commit
  <2>2. QED
    BY <1>36, <2>1 DEF Ledger!Next, ServerCommits, Reply
<1>37. ASSUME NEW x \in Run, ServerRefuses(x) PROVE [Ledger!Next]_(Ledger!vars)
  BY <1>37 DEF ServerRefuses, Reply
<1>38. ASSUME NEW x \in Run, PostIsLost(x) PROVE [Ledger!Next]_(Ledger!vars)
  BY <1>38 DEF PostIsLost, Reply
<1>39. ASSUME NEW r \in Request, RequestCancellation(r) PROVE [Ledger!Next]_(Ledger!vars)
  BY <1>39 DEF RequestCancellation
<1>40. ASSUME NEW r \in Request, LeaseExpires(r) PROVE [Ledger!Next]_(Ledger!vars)
  BY <1>40 DEF LeaseExpires, Orphan
<1>41. ASSUME NEW r \in Request, RetryWindowCloses(r) PROVE [Ledger!Next]_(Ledger!vars)
  <2>1. Ledger!Expire(r)
    BY <1>41 DEF RetryWindowCloses, Ledger!Expire
  <2>2. QED
    BY <1>41, <2>1 DEF Ledger!Next, RetryWindowCloses
<1>42. CASE UNCHANGED vars
  BY <1>42 DEF vars
<1> QED
  BY <1>1, <1>2, <1>3, <1>4, <1>5, <1>6, <1>7, <1>8, <1>9, <1>10, <1>11, <1>12, <1>13,
     <1>14, <1>15, <1>16, <1>17, <1>18, <1>19, <1>20, <1>21, <1>22, <1>23, <1>24, <1>25,
     <1>26, <1>27, <1>28, <1>29, <1>30, <1>31, <1>32, <1>33, <1>34, <1>35, <1>36, <1>37,
     <1>38, <1>39, <1>40, <1>41, <1>42
  DEF Next, Advance, Client, Server, Faults

(* The rows, seen without leases, tokens and workers, behave as the ledger:
   one running request per session, completed for ever, showing only changes
   that were committed in the session.                                     *)
THEOREM Refinement == Spec => KeepsTheLedger
<1>1. Init => Ledger!Init
  BY DEF Init, Ledger!Init
<1>2. QED
  BY <1>1, LedgerStep, Invariance, PTL DEF Spec, KeepsTheLedger, Ledger!Spec

-----------------------------------------------------------------------------
(***************************************************************************)
(* Proofs about ExperienceRequest when leases lapse only after their holder*)
(* died, the situation that renewing a 300 s lease every 30 s is meant to  *)
(* ensure: then a run that works on a request holds its row to the end.    *)
(***************************************************************************)

(* Where a run works on a row it claimed and has not closed yet.           *)
Working == {"claimed", "building", "resuming", "graph", "coordinate", "commit", "rebuild",
            "lookup", "gap", "save", "fail", "probe", "settle"}

(* A working run holds its row, and a lapsed lease has no living holder.   *)
Held ==
  /\ \A x \in Run : pc[x] \in Working => Owns(x)
  /\ \A r \in Request : status[r] = "running" /\ ~leaseLive[r] => Orphan(r)

(* Behind a latest request that has swept, nothing runs or may run again.  *)
Behind ==
  \A r \in Request :
    swept[SessionOf[r]] /\ latest[SessionOf[r]] # r => ~retryable[r] /\ status[r] # "running"

-----------------------------------------------------------------------------
(* A run loses its row only by closing it, ending or dying.                *)
LEMMA HeldStep ==
  ASSUME ~LeaseLapsesUnderLiveOwner
  PROVE  TypeOK /\ Engaged /\ Inv /\ Held /\ [Next]_vars => Held'
<1> SUFFICES ASSUME TypeOK, Engaged, Inv, Held, [Next]_vars PROVE Held'
  OBVIOUS
<1> USE RunAssumption
    DEF TypeOK, RowsTyped, RunsTyped, RunPc, Engaged, Inv, Ownership, OneRunningPerSession,
        NoneRunning, Held, Working, Owns, Orphan, Renewing, row, checkpoint, runs, main, history
<1>1. ASSUME NEW x \in Run, NEW r \in Request, ClaimRequest(x, r) PROVE Held'
  BY <1>1 DEF ClaimRequest, Fresh, TakeRow, Begin, Go
<1>2. ASSUME NEW x \in Run, NEW r \in Request, CheckLatest(x, r) PROVE Held'
  BY <1>2 DEF CheckLatest, Fresh, Begin, Go
<1>3. ASSUME NEW x \in Run, NEW r \in Request, ClaimExpired(x, r) PROVE Held'
  BY <1>3 DEF ClaimExpired, ClaimForRecovery, Fresh, TakeRow, Begin, Go
<1>4. ASSUME NEW x \in Run, DisablePreviousRetries(x) PROVE Held'
  BY <1>4 DEF DisablePreviousRetries, DisableRetries, Go
<1>5. ASSUME NEW x \in Run, RetryRequest(x) PROVE Held'
  BY <1>5 DEF RetryRequest, RetryAllowed, Retryable, TakeRow, Go
<1>6. ASSUME NEW x \in Run, RetryRefused(x) PROVE Held'
  BY <1>6 DEF RetryRefused, End
<1>7. ASSUME NEW x \in Run, BuildState(x) PROVE Held'
  BY <1>7 DEF BuildState, Save, Go
<1>8. ASSUME NEW x \in Run, ResumeThread(x) PROVE Held'
  BY <1>8 DEF ResumeThread, Settled, Go
<1>9. ASSUME NEW x \in Run, ResumeNothing(x) PROVE Held'
  BY <1>9 DEF ResumeNothing, Fail, Go
<1>10. ASSUME NEW x \in Run, GraphFallsBack(x) PROVE Held'
  BY <1>10 DEF GraphFallsBack, Save, Settled, Go
<1>11. ASSUME NEW x \in Run, GraphEnds(x) PROVE Held'
  BY <1>11 DEF GraphEnds, Save, Go
<1>12. ASSUME NEW x \in Run, GraphFails(x) PROVE Held'
  BY <1>12 DEF GraphFails, Fail, Go
<1>13. ASSUME NEW x \in Run, SendCommit(x) PROVE Held'
  BY <1>13 DEF SendCommit, Go
<1>14. ASSUME NEW x \in Run, CommitSucceeds(x) PROVE Held'
  BY <1>14 DEF CommitSucceeds, Settled, Go
<1>15. ASSUME NEW x \in Run, CommitConflict(x) PROVE Held'
  BY <1>15 DEF CommitConflict, Rebuild, Go
<1>16. ASSUME NEW x \in Run, CommitRefused(x) PROVE Held'
  BY <1>16 DEF CommitRefused, Fail, Go
<1>17. ASSUME NEW x \in Run, CommitTimesOut(x) PROVE Held'
  BY <1>17 DEF CommitTimesOut, Settled, Go
<1>18. ASSUME NEW x \in Run, LookUpCommit(x) PROVE Held'
  BY <1>18 DEF LookUpCommit, AcceptLookUp, Settled, Go
<1>19. ASSUME NEW x \in Run, LookUpFails(x) PROVE Held'
  BY <1>19 DEF LookUpFails, Fail, Go
<1>20. ASSUME NEW x \in Run, FinishTurn(x) PROVE Held'
  BY <1>20 DEF FinishTurn, Go
<1>21. ASSUME NEW x \in Run, SuggestionRaises(x) PROVE Held'
  BY <1>21 DEF SuggestionRaises, Fail, Go
<1>22. ASSUME NEW x \in Run, MarkCompleted(x) PROVE Held'
  BY <1>22 DEF MarkCompleted, Owns, CloseRow, CloseLease, End
<1>23. ASSUME NEW x \in Run, MarkFailed(x) PROVE Held'
  BY <1>23 DEF MarkFailed, FailRow, Owns, CloseRow, CloseLease, Go
<1>24. ASSUME NEW x \in Run, WriteRefused(x) PROVE Held'
  BY <1>24 DEF WriteRefused, End
<1>25. ASSUME NEW x \in Run, ReportFailedUsage(x) PROVE Held'
  BY <1>25 DEF ReportFailedUsage, End
<1>26. ASSUME NEW x \in Run, ProbeCommit(x) PROVE Held'
  BY <1>26 DEF ProbeCommit, Go
<1>27. ASSUME NEW x \in Run, SettleCompleted(x) PROVE Held'
  BY <1>27 DEF SettleCompleted, Owns, CloseRow, CloseLease, End
<1>28. ASSUME NEW x \in Run, SettleRaises(x) PROVE Held'
  BY <1>28 DEF SettleRaises
<1>29. ASSUME NEW x \in Run, SettleFailed(x) PROVE Held'
  BY <1>29 DEF SettleFailed, Owns, CloseRow, CloseLease, End
<1>30. ASSUME NEW x \in Run, RenewSeesCancel(x) PROVE Held'
  BY <1>30 DEF RenewSeesCancel, Renewing, Owns, Fail, Go
<1>31. ASSUME NEW x \in Run, NodeEnds(x) PROVE Held'
  BY <1>31 DEF NodeEnds, Save
<1>32. ASSUME NEW x \in Run, RenewLease(x) PROVE Held'
  BY <1>32 DEF RenewLease, Renewing, Owns
<1>33. ASSUME NEW x \in Run, Crash(x) PROVE Held'
  BY <1>33 DEF Crash, End
<1>34. ASSUME NEW x \in Run, BuildStateRaises(x) PROVE Held'
  BY <1>34 DEF BuildStateRaises, End
<1>35. ASSUME NEW x \in Run, LoseLease(x) PROVE Held'
  BY <1>35 DEF LoseLease, Renewing, End
<1>36. ASSUME NEW x \in Run, ServerCommits(x) PROVE Held'
  BY <1>36 DEF ServerCommits, Reply
<1>37. ASSUME NEW x \in Run, ServerRefuses(x) PROVE Held'
  BY <1>37 DEF ServerRefuses, Reply
<1>38. ASSUME NEW x \in Run, PostIsLost(x) PROVE Held'
  BY <1>38 DEF PostIsLost, Reply
<1>39. ASSUME NEW r \in Request, RequestCancellation(r) PROVE Held'
  BY <1>39 DEF RequestCancellation
<1>40. ASSUME NEW r \in Request, LeaseExpires(r) PROVE Held'
  BY <1>40 DEF LeaseExpires, Orphan
<1>41. ASSUME NEW r \in Request, RetryWindowCloses(r) PROVE Held'
  BY <1>41 DEF RetryWindowCloses
<1>42. CASE UNCHANGED vars
  BY <1>42 DEF vars
<1> QED
  BY <1>1, <1>2, <1>3, <1>4, <1>5, <1>6, <1>7, <1>8, <1>9, <1>10, <1>11, <1>12, <1>13, <1>14, <1>15, <1>16, <1>17, <1>18, <1>19, <1>20, <1>21, <1>22, <1>23, <1>24, <1>25, <1>26, <1>27, <1>28, <1>29, <1>30, <1>31, <1>32, <1>33, <1>34, <1>35, <1>36, <1>37, <1>38, <1>39, <1>40, <1>41, <1>42
  DEF Next, Advance, Client, Server, Faults

(* The latest request's claim sweeps while it still holds its row, and a
   request behind it never gets its retry back.                            *)
LEMMA BehindStep ==
  TypeOK /\ Engaged /\ Inv /\ Held /\ Behind /\ [Next]_vars => Behind'
<1> SUFFICES ASSUME TypeOK, Engaged, Inv, Held, Behind, [Next]_vars PROVE Behind'
  OBVIOUS
<1> USE SessionAssumption
    DEF TypeOK, RowsTyped, MainTyped, RunsTyped, RunPc, Engaged, Inv, Ownership,
        OneRunningPerSession, Columns, Held, Working, Owns, Behind,
        row, checkpoint, runs, main, history
<1>1. ASSUME NEW x \in Run, NEW r \in Request, ClaimRequest(x, r) PROVE Behind'
  BY <1>1 DEF ClaimRequest, Fresh, TakeRow, Begin, Go
<1>2. ASSUME NEW x \in Run, NEW r \in Request, CheckLatest(x, r) PROVE Behind'
  BY <1>2 DEF CheckLatest, Fresh, Begin, Go
<1>3. ASSUME NEW x \in Run, NEW r \in Request, ClaimExpired(x, r) PROVE Behind'
  BY <1>3 DEF ClaimExpired, ClaimForRecovery, Fresh, TakeRow, Begin, Go
<1>4. ASSUME NEW x \in Run, DisablePreviousRetries(x) PROVE Behind'
  BY <1>4 DEF DisablePreviousRetries, DisableRetries, Go
<1>5. ASSUME NEW x \in Run, RetryRequest(x) PROVE Behind'
  BY <1>5 DEF RetryRequest, RetryAllowed, Retryable, TakeRow, Go
<1>6. ASSUME NEW x \in Run, RetryRefused(x) PROVE Behind'
  BY <1>6 DEF RetryRefused, End
<1>7. ASSUME NEW x \in Run, BuildState(x) PROVE Behind'
  BY <1>7 DEF BuildState, Save, Go
<1>8. ASSUME NEW x \in Run, ResumeThread(x) PROVE Behind'
  BY <1>8 DEF ResumeThread, Settled, Go
<1>9. ASSUME NEW x \in Run, ResumeNothing(x) PROVE Behind'
  BY <1>9 DEF ResumeNothing, Fail, Go
<1>10. ASSUME NEW x \in Run, GraphFallsBack(x) PROVE Behind'
  BY <1>10 DEF GraphFallsBack, Save, Settled, Go
<1>11. ASSUME NEW x \in Run, GraphEnds(x) PROVE Behind'
  BY <1>11 DEF GraphEnds, Save, Go
<1>12. ASSUME NEW x \in Run, GraphFails(x) PROVE Behind'
  BY <1>12 DEF GraphFails, Fail, Go
<1>13. ASSUME NEW x \in Run, SendCommit(x) PROVE Behind'
  BY <1>13 DEF SendCommit, Go
<1>14. ASSUME NEW x \in Run, CommitSucceeds(x) PROVE Behind'
  BY <1>14 DEF CommitSucceeds, Settled, Go
<1>15. ASSUME NEW x \in Run, CommitConflict(x) PROVE Behind'
  BY <1>15 DEF CommitConflict, Rebuild, Go
<1>16. ASSUME NEW x \in Run, CommitRefused(x) PROVE Behind'
  BY <1>16 DEF CommitRefused, Fail, Go
<1>17. ASSUME NEW x \in Run, CommitTimesOut(x) PROVE Behind'
  BY <1>17 DEF CommitTimesOut, Settled, Go
<1>18. ASSUME NEW x \in Run, LookUpCommit(x) PROVE Behind'
  BY <1>18 DEF LookUpCommit, AcceptLookUp, Settled, Go
<1>19. ASSUME NEW x \in Run, LookUpFails(x) PROVE Behind'
  BY <1>19 DEF LookUpFails, Fail, Go
<1>20. ASSUME NEW x \in Run, FinishTurn(x) PROVE Behind'
  BY <1>20 DEF FinishTurn, Go
<1>21. ASSUME NEW x \in Run, SuggestionRaises(x) PROVE Behind'
  BY <1>21 DEF SuggestionRaises, Fail, Go
<1>22. ASSUME NEW x \in Run, MarkCompleted(x) PROVE Behind'
  BY <1>22 DEF MarkCompleted, Owns, CloseRow, CloseLease, End
<1>23. ASSUME NEW x \in Run, MarkFailed(x) PROVE Behind'
  BY <1>23 DEF MarkFailed, FailRow, Owns, CloseRow, CloseLease, Go
<1>24. ASSUME NEW x \in Run, WriteRefused(x) PROVE Behind'
  BY <1>24 DEF WriteRefused, End
<1>25. ASSUME NEW x \in Run, ReportFailedUsage(x) PROVE Behind'
  BY <1>25 DEF ReportFailedUsage, End
<1>26. ASSUME NEW x \in Run, ProbeCommit(x) PROVE Behind'
  BY <1>26 DEF ProbeCommit, Go
<1>27. ASSUME NEW x \in Run, SettleCompleted(x) PROVE Behind'
  BY <1>27 DEF SettleCompleted, Owns, CloseRow, CloseLease, End
<1>28. ASSUME NEW x \in Run, SettleRaises(x) PROVE Behind'
  BY <1>28 DEF SettleRaises
<1>29. ASSUME NEW x \in Run, SettleFailed(x) PROVE Behind'
  BY <1>29 DEF SettleFailed, Owns, CloseRow, CloseLease, End
<1>30. ASSUME NEW x \in Run, RenewSeesCancel(x) PROVE Behind'
  BY <1>30 DEF RenewSeesCancel, Renewing, Owns, Fail, Go
<1>31. ASSUME NEW x \in Run, NodeEnds(x) PROVE Behind'
  BY <1>31 DEF NodeEnds, Save
<1>32. ASSUME NEW x \in Run, RenewLease(x) PROVE Behind'
  BY <1>32 DEF RenewLease, Renewing, Owns
<1>33. ASSUME NEW x \in Run, Crash(x) PROVE Behind'
  BY <1>33 DEF Crash, End
<1>34. ASSUME NEW x \in Run, BuildStateRaises(x) PROVE Behind'
  BY <1>34 DEF BuildStateRaises, End
<1>35. ASSUME NEW x \in Run, LoseLease(x) PROVE Behind'
  BY <1>35 DEF LoseLease, Renewing, End
<1>36. ASSUME NEW x \in Run, ServerCommits(x) PROVE Behind'
  BY <1>36 DEF ServerCommits, Reply
<1>37. ASSUME NEW x \in Run, ServerRefuses(x) PROVE Behind'
  BY <1>37 DEF ServerRefuses, Reply
<1>38. ASSUME NEW x \in Run, PostIsLost(x) PROVE Behind'
  BY <1>38 DEF PostIsLost, Reply
<1>39. ASSUME NEW r \in Request, RequestCancellation(r) PROVE Behind'
  BY <1>39 DEF RequestCancellation
<1>40. ASSUME NEW r \in Request, LeaseExpires(r) PROVE Behind'
  BY <1>40 DEF LeaseExpires, Orphan
<1>41. ASSUME NEW r \in Request, RetryWindowCloses(r) PROVE Behind'
  BY <1>41 DEF RetryWindowCloses
<1>42. CASE UNCHANGED vars
  BY <1>42 DEF vars
<1> QED
  BY <1>1, <1>2, <1>3, <1>4, <1>5, <1>6, <1>7, <1>8, <1>9, <1>10, <1>11, <1>12, <1>13, <1>14, <1>15, <1>16, <1>17, <1>18, <1>19, <1>20, <1>21, <1>22, <1>23, <1>24, <1>25, <1>26, <1>27, <1>28, <1>29, <1>30, <1>31, <1>32, <1>33, <1>34, <1>35, <1>36, <1>37, <1>38, <1>39, <1>40, <1>41, <1>42
  DEF Next, Advance, Client, Server, Faults

(* Both hold in every reachable state.                                     *)
THEOREM TimelyInvariance ==
  ASSUME ~LeaseLapsesUnderLiveOwner
  PROVE  Spec => [](Held /\ Behind)
<1>1. Init => Held /\ Behind
  BY DEF Init, Held, Working, Behind
<1>2. TypeOK /\ Engaged /\ Inv /\ Held /\ Behind /\ [Next]_vars => Held' /\ Behind'
  BY HeldStep, BehindStep
<1>3. QED
  BY <1>1, <1>2, Invariance, PTL DEF Spec

(* As long as leases lapse only under dead holders, two runs never drive the
   same session's graph, commit and checkpoint at a time.                  *)
THEOREM OneDriverPerSessionHolds ==
  ASSUME ~LeaseLapsesUnderLiveOwner
  PROVE  Spec => []OneDriverPerSession
<1>1. TypeOK /\ Engaged /\ Inv /\ Held => OneDriverPerSession
  BY DEF Engaged, Inv, OneRunningPerSession, Held, Working, Owns, OneDriverPerSession, Driving,
         Renewing
<1>2. QED
  BY <1>1, Invariance, TimelyInvariance, PTL

(* Once the latest request has swept, no older one can be retried.         *)
THEOREM NoRetryBehindLatestHolds ==
  ASSUME ~LeaseLapsesUnderLiveOwner
  PROVE  Spec => []NoRetryBehindLatest
<1>1. Behind => NoRetryBehindLatest
  BY DEF Behind, NoRetryBehindLatest
<1>2. QED
  BY <1>1, TimelyInvariance, PTL

==============================================================================
