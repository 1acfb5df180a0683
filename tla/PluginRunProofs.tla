--------------------------- MODULE PluginRunProofs ---------------------------
(***************************************************************************)
(* Proofs about PluginRun, for every set of runs, workers and faults, with *)
(* or without a sweeper.                                                   *)
(***************************************************************************)
EXTENDS PluginRun, TLAPS

-----------------------------------------------------------------------------
(* Type correctness                                                         *)

\* What a process may be, and what RunOf makes of a typed state.
LEMMA RunOfTyped ==
  ASSUME TypeOK, NEW p \in Procs, Active(p)
  PROVE  RunOf(p) \in Runs
  BY ConstantsOK DEF TypeOK, Procs, RunOf, Active

\* A step to another label, by a process that stays on its run.
LEMMA GotoTyped ==
  ASSUME TypeOK, NEW p \in Procs, NEW label \in PCs \ {"idle"},
         p \in Runs \/ pc[p] # "idle", Goto(p, label), UNCHANGED on
  PROVE  /\ pc' \in [Procs -> PCs]
         /\ on' \in [Workers -> Runs \cup {NoRun}]
         /\ (\A w \in Workers : on[w] = NoRun <=> pc[w] = "idle")'
  BY ConstantsOK DEF TypeOK, Procs, Goto

\* Return frees the slot of a worker and ends the life of a request.
LEMMA ReturnTyped ==
  ASSUME TypeOK, NEW p \in Procs, Active(p), Return(p)
  PROVE  /\ pc' \in [Procs -> PCs]
         /\ on' \in [Workers -> Runs \cup {NoRun}]
         /\ (\A w \in Workers : on[w] = NoRun <=> pc[w] = "idle")'
         /\ job' \in [Runs -> {"none", "stored", "done"}]
         /\ lease' \in [Runs -> BOOLEAN]
<1>1. CASE p \in Runs
  BY <1>1, ConstantsOK DEF TypeOK, Procs, Return, Goto, PCs
<1>2. CASE p \notin Runs
  <2>1. p \in Workers /\ on[p] \in Runs
    BY <1>2, ConstantsOK DEF TypeOK, Procs, Active
  <2>2. pc' = [pc EXCEPT ![p] = "idle"] /\ on' = [on EXCEPT ![p] = NoRun]
    BY <1>2 DEF Return, Goto
  <2>3. pc' \in [Procs -> PCs] /\ on' \in [Workers -> Runs \cup {NoRun}]
    BY <2>1, <2>2 DEF TypeOK, PCs
  <2>4. (\A w \in Workers : on[w] = NoRun <=> pc[w] = "idle")'
    BY <2>1, <2>2 DEF TypeOK, Procs
  <2>5. job' \in [Runs -> {"none", "stored", "done"}] /\ lease' \in [Runs -> BOOLEAN]
    BY <1>2, <2>1 DEF TypeOK, Return
  <2> QED
    BY <2>3, <2>4, <2>5
<1> QED
  BY <1>1, <1>2

\* Every write of a row by the code leaves a row.
LEMMA StatusTyped ==
  ASSUME TypeOK, NEW r \in Runs, NEW s \in Statuses
  PROVE  [row EXCEPT ![r].status = s] \in [Runs -> Row]
<1>1. [row[r] EXCEPT !.status = s] \in Row
  BY DEF TypeOK, Row
<1> QED
  BY <1>1 DEF TypeOK

LEMMA RowTyped ==
  ASSUME TypeOK, NEW r \in Runs, NEW s \in Statuses, NEW e \in Errors
  PROVE  /\ [row EXCEPT ![r].status = s, ![r].error = e] \in [Runs -> Row]
         /\ [row EXCEPT ![r].status = s, ![r].finished = TRUE, ![r].error = e] \in [Runs -> Row]
         /\ [row EXCEPT ![r].status = s, ![r].finished = TRUE, ![r].counted = TRUE]
              \in [Runs -> Row]
<1>1. row[r] \in Row
  BY DEF TypeOK
<1>2. [row[r] EXCEPT !.status = s, !.error = e] \in Row
  BY <1>1 DEF Row
<1>3. [row[r] EXCEPT !.status = s, !.finished = TRUE, !.error = e] \in Row
  BY <1>1 DEF Row
<1>4. [row[r] EXCEPT !.status = s, !.finished = TRUE, !.counted = TRUE] \in Row
  BY <1>1 DEF Row
<1>5. [row EXCEPT ![r].status = s, ![r].error = e] \in [Runs -> Row]
  BY <1>2 DEF TypeOK
<1>6. [row EXCEPT ![r].status = s, ![r].finished = TRUE, ![r].error = e] \in [Runs -> Row]
  BY <1>3 DEF TypeOK
<1>7. [row EXCEPT ![r].status = s, ![r].finished = TRUE, ![r].counted = TRUE] \in [Runs -> Row]
  BY <1>4 DEF TypeOK
<1> QED
  BY <1>5, <1>6, <1>7

(***************************************************************************)
(* Every variable keeps its type, and a worker has a run exactly while its *)
(* slot is taken.                                                          *)
(***************************************************************************)
THEOREM TypeCorrect == Spec => []TypeOK
<1>1. Init => TypeOK
  BY ConstantsOK DEF Init, TypeOK, Procs, PCs, NoRow, Row, Statuses, Errors
<1>2. TypeOK /\ [Next]_vars => TypeOK'
  <2> SUFFICES ASSUME TypeOK, [Next]_vars PROVE TypeOK'
    OBVIOUS
  <2> USE DEF PCs
  <2>1. ASSUME NEW r \in Runs, RequestStep(r) PROVE TypeOK'
    <3>1. r \in Procs
      BY DEF Procs
    <3>2. CASE DispatchAsync(r)
      BY <3>1, <3>2, GotoTyped, StatusTyped DEF DispatchAsync, TypeOK, Statuses
    <3>3. CASE Enqueue(r)
      BY <3>1, <3>3, GotoTyped DEF Enqueue, TypeOK
    <3>4. CASE EnqueueFails(r)
      BY <3>1, <3>4, GotoTyped DEF EnqueueFails, TypeOK
    <3>5. CASE RefuseRun(r)
      BY <3>1, <3>5, GotoTyped, RowTyped DEF RefuseRun, TypeOK, Statuses, Errors
    <3>6. CASE DispatchSync(r)
      <4>1. row' \in [Runs -> Row]
        BY <3>6, StatusTyped DEF DispatchSync, Statuses
      <4>2. executions' \in [Runs -> Nat]
        BY <3>6 DEF DispatchSync, TypeOK
      <4> QED
        BY <3>1, <3>6, <4>1, <4>2, GotoTyped DEF DispatchSync, TypeOK
    <3> QED
      BY <2>1, <3>2, <3>3, <3>4, <3>5, <3>6 DEF RequestStep
  <2>2. ASSUME NEW r \in Runs, LeaseExpires(r) \/ DropJob(r) PROVE TypeOK'
    BY <2>2 DEF LeaseExpires, DropJob, TypeOK
  <2>3. ASSUME NEW r \in Runs, NEW w \in Workers, Deliver(w, r) PROVE TypeOK'
    <3>1. /\ pc' \in [Procs -> PCs]
          /\ on' \in [Workers -> Runs \cup {NoRun}]
          /\ (\A v \in Workers : on[v] = NoRun <=> pc[v] = "idle")'
      BY <2>3, ConstantsOK DEF Deliver, Goto, TypeOK, Procs
    <3>2. tries' \in [Runs -> 0..MaxTries]
      BY <2>3, ConstantsOK DEF Deliver, TypeOK
    <3> QED
      BY <2>3, <3>1, <3>2 DEF Deliver, TypeOK
  <2>4. ASSUME NEW r \in Runs, Age(r) PROVE TypeOK'
    BY <2>4 DEF Age, TypeOK
  <2>5. ASSUME NEW w \in Workers, TaskStep(w) PROVE TypeOK'
    <3>1. w \in Procs
      BY DEF Procs
    <3>2. CASE ReadRun(w)
      BY <3>1, <3>2, GotoTyped, ReturnTyped DEF ReadRun, Active, TypeOK
    <3>3. CASE MarkMissing(w)
      <4>1. on[w] \in Runs
        BY <3>3, ConstantsOK DEF MarkMissing, TypeOK
      <4> QED
        BY <3>1, <3>3, <4>1, ReturnTyped, RowTyped
        DEF MarkMissing, Active, TypeOK, Statuses, Errors
    <3>4. CASE FlipToRunning(w)
      <4>1. on[w] \in Runs
        BY <3>4, ConstantsOK DEF FlipToRunning, TypeOK
      <4> QED
        BY <3>1, <3>4, <4>1, GotoTyped, StatusTyped DEF FlipToRunning, TypeOK, Statuses
    <3>5. CASE Validate(w)
      <4>1. on[w] \in Runs
        BY <3>5, ConstantsOK DEF Validate, TypeOK
      <4> QED
        BY <3>1, <3>5, <4>1, GotoTyped, ReturnTyped DEF Validate, Active, TypeOK
    <3> QED
      BY <2>5, <3>2, <3>3, <3>4, <3>5 DEF TaskStep
  <2>6. ASSUME NEW w \in Workers, Timeout(w) PROVE TypeOK'
    BY <2>6, ReturnTyped DEF Timeout, TypeOK, Procs
  <2>7. ASSUME NEW p \in Procs, RunnerStep(p) PROVE TypeOK'
    <3>1. p \in Runs \/ (pc[p] # "idle" /\ Active(p) /\ RunOf(p) \in Runs)
      BY <2>7, RunOfTyped DEF RunnerStep, Query, Persist, Finish, FinishFails, RecordFailure, Active
    <3>2. CASE Query(p)
      BY <3>1, <3>2, GotoTyped DEF Query, TypeOK
    <3>3. CASE Persist(p)
      BY <3>1, <3>3, GotoTyped, RunOfTyped DEF Persist, TypeOK
    <3>6. CASE FinishFails(p)
      BY <3>6, GotoTyped DEF FinishFails, TypeOK, PCs
    <3>4. CASE Finish(p)
      <4>1. Active(p) /\ RunOf(p) \in Runs
        BY <3>4, RunOfTyped DEF Finish, Active
      <4> QED
        BY <3>4, <4>1, ReturnTyped, RowTyped DEF Finish, TypeOK, Statuses, Errors
    <3>5. CASE RecordFailure(p)
      <4>1. Active(p) /\ RunOf(p) \in Runs
        BY <3>5, RunOfTyped DEF RecordFailure, Active
      <4> QED
        BY <3>5, <4>1, ReturnTyped, RowTyped DEF RecordFailure, TypeOK, Statuses, Errors
    <3> QED
      BY <2>7, <3>2, <3>3, <3>4, <3>5, <3>6 DEF RunnerStep
  <2>8. ASSUME NEW p \in Procs, Crash(p) PROVE TypeOK'
    BY <2>8, GotoTyped, ConstantsOK DEF Crash, Active, Goto, TypeOK, Procs
  <2>9. ASSUME NEW p \in Procs, SessionLost(p) PROVE TypeOK'
    BY <2>9, ReturnTyped DEF SessionLost, TypeOK
  <2>10. CASE SweepStuckRuns
    <3>1. ASSUME NEW r \in Runs
          PROVE  row[r] \in Row
      BY DEF TypeOK
    <3>2. ASSUME NEW r \in Runs
          PROVE  [row[r] EXCEPT !.status = "failed", !.finished = TRUE, !.error = "swept"] \in Row
      BY <3>1 DEF Row, Statuses, Errors
    <3>3. row' \in [Runs -> Row]
      BY <2>10, <3>1, <3>2 DEF SweepStuckRuns
    <3> QED
      BY <2>10, <3>3 DEF SweepStuckRuns, TypeOK
  <2>11. CASE UNCHANGED vars
    BY <2>11 DEF vars, TypeOK
  <2> QED
    BY <2>1, <2>2, <2>3, <2>4, <2>5, <2>6, <2>7, <2>8, <2>9, <2>10, <2>11
    DEF Next, QueueStep
<1> QED
  BY <1>1, <1>2, PTL DEF Spec

-----------------------------------------------------------------------------
(* Success is backed by committed results                                   *)

\* Return and Goto move one process, and move nobody to "finish" unasked.
LEMMA ReturnFrame ==
  ASSUME TypeOK, NEW p \in Procs, Active(p), Return(p)
  PROVE  /\ pc'[p] \in {"idle", "done"}
         /\ \A q \in Procs \ {p} : pc'[q] = pc[q] /\ RunOf(q)' = RunOf(q)
<1>1. pc'[p] \in {"idle", "done"} /\ \A q \in Procs \ {p} : pc'[q] = pc[q]
  BY DEF TypeOK, Return, Goto
<1>2. \A q \in Procs \ {p} : RunOf(q)' = RunOf(q)
  BY DEF TypeOK, Return, RunOf, Procs
<1> QED
  BY <1>1, <1>2

LEMMA GotoFrame ==
  ASSUME TypeOK, NEW p \in Procs, NEW label, Goto(p, label), UNCHANGED on
  PROVE  /\ pc'[p] = label
         /\ \A q \in Procs : RunOf(q)' = RunOf(q)
         /\ \A q \in Procs \ {p} : pc'[q] = pc[q]
  BY DEF TypeOK, Goto, RunOf

BackedInv == SucceededIsBacked /\ FinishIsBacked

\* A step that grants nobody success and takes nobody's results away.
LEMMA BackedFrame ==
  ASSUME TypeOK, BackedInv,
         \A r \in Runs : /\ row'[r].counted => row[r].counted
                         /\ row'[r].status = "succeeded" => row'[r] = row[r]
                         /\ results[r] = "full" => results'[r] = "full",
         \A q \in Procs : pc'[q] = "finish" => pc[q] = "finish" /\ RunOf(q)' = RunOf(q)
  PROVE  BackedInv'
<1>1. SucceededIsBacked'
  BY DEF BackedInv, SucceededIsBacked
<1>2. \A q \in Procs : pc[q] = "finish" => RunOf(q) \in Runs
  BY RunOfTyped DEF Active
<1>3. FinishIsBacked'
  BY <1>2 DEF BackedInv, FinishIsBacked, Procs
<1> QED
  BY <1>1, <1>3 DEF BackedInv

(***************************************************************************)
(* A run that reads succeeded is finished and counted, and a counted run   *)
(* has all of its results committed: for any number of overlapping         *)
(* executions, redeliveries, crashes and sweeps.                           *)
(***************************************************************************)
THEOREM SuccessBacked == Spec => []SucceededIsBacked
<1>1. Init => BackedInv
  BY DEF Init, NoRow, BackedInv, SucceededIsBacked, FinishIsBacked
<1>2. TypeOK /\ BackedInv /\ [Next]_vars => BackedInv'
  <2> SUFFICES ASSUME TypeOK, BackedInv, [Next]_vars PROVE BackedInv'
    OBVIOUS
  <2>0. \A r \in Runs : r \in Procs
    BY DEF Procs
  <2>1. ASSUME NEW r \in Runs, RequestStep(r) PROVE BackedInv'
    <3>1. \A q \in Procs : pc'[q] = "finish" => pc[q] = "finish" /\ RunOf(q)' = RunOf(q)
      BY <2>0, <2>1, GotoFrame
      DEF RequestStep, DispatchAsync, Enqueue, EnqueueFails, RefuseRun, DispatchSync
    <3>2. \A s \in Runs : /\ row'[s].counted => row[s].counted
                          /\ row'[s].status = "succeeded" => row'[s] = row[s]
      BY <2>1 DEF RequestStep, DispatchAsync, Enqueue, EnqueueFails, RefuseRun,
                  DispatchSync, TypeOK, Row
    <3> QED
      BY <2>1, <3>1, <3>2, BackedFrame
      DEF RequestStep, DispatchAsync, Enqueue, EnqueueFails, RefuseRun, DispatchSync
  <2>2. ASSUME NEW r \in Runs, QueueStep(r) PROVE BackedInv'
    <3>1. \A q \in Procs : pc'[q] = "finish" => pc[q] = "finish" /\ RunOf(q)' = RunOf(q)
      BY <2>2 DEF QueueStep, LeaseExpires, DropJob, Deliver, Goto, RunOf, TypeOK, Procs
    <3> QED
      BY <2>2, <3>1, BackedFrame DEF QueueStep, LeaseExpires, DropJob, Deliver
  <2>3. ASSUME NEW r \in Runs, Age(r) PROVE BackedInv'
    BY <2>3, BackedFrame DEF Age, RunOf
  <2>4. ASSUME NEW w \in Workers, TaskStep(w) PROVE BackedInv'
    <3>1. w \in Procs /\ Active(w) /\ on[w] \in Runs
      BY <2>4, ConstantsOK
      DEF TaskStep, ReadRun, MarkMissing, FlipToRunning, Validate, Active, TypeOK, Procs
    <3>2. \A q \in Procs : pc'[q] = "finish" => pc[q] = "finish" /\ RunOf(q)' = RunOf(q)
      BY <2>4, <3>1, GotoFrame, ReturnFrame
      DEF TaskStep, ReadRun, MarkMissing, FlipToRunning, Validate
    <3>3. \A s \in Runs : /\ row'[s].counted => row[s].counted
                          /\ row'[s].status = "succeeded" => row'[s] = row[s]
      BY <2>4, <3>1 DEF TaskStep, ReadRun, MarkMissing, FlipToRunning, Validate, TypeOK, Row
    <3> QED
      BY <2>4, <3>2, <3>3, BackedFrame
      DEF TaskStep, ReadRun, MarkMissing, FlipToRunning, Validate
  <2>5. ASSUME NEW p \in Procs, Query(p) PROVE BackedInv'
    BY <2>5, GotoFrame, BackedFrame DEF Query
  <2>6. ASSUME NEW p \in Procs, Persist(p) PROVE BackedInv'
    <3>1. Active(p) /\ RunOf(p) \in Runs
      BY <2>6, RunOfTyped DEF Persist, Active
    <3>2. CASE Goto(p, "finish") /\ results' = [results EXCEPT ![RunOf(p)] = "full"]
      <4>1. \A s \in Runs : results[s] = "full" => results'[s] = "full"
        BY <3>2 DEF TypeOK
      <4>2. results'[RunOf(p)] = "full"
        BY <3>1, <3>2 DEF TypeOK
      <4>3. \A q \in Procs : /\ RunOf(q)' = RunOf(q)
                             /\ q # p => pc'[q] = pc[q]
        BY <2>6, <3>2, GotoFrame DEF Persist
      <4>4. \A q \in Procs : pc'[q] = "finish" => results'[RunOf(q)'] = "full"
        BY <4>1, <4>2, <4>3, RunOfTyped DEF BackedInv, FinishIsBacked, Active
      <4>5. SucceededIsBacked'
        BY <2>6, <4>1 DEF Persist, BackedInv, SucceededIsBacked
      <4> QED
        BY <4>4, <4>5 DEF BackedInv, FinishIsBacked, Procs
    <3>3. CASE (Goto(p, "record") \/ Goto(p, "dirty")) /\ UNCHANGED results
      BY <2>6, <3>3, GotoFrame, BackedFrame DEF Persist
    <3> QED
      BY <2>6, <3>2, <3>3 DEF Persist
  <2>7. ASSUME NEW p \in Procs, Finish(p) PROVE BackedInv'
    <3>1. Active(p) /\ RunOf(p) \in Runs /\ results[RunOf(p)] = "full"
      BY <2>7, RunOfTyped DEF Finish, Active, BackedInv, FinishIsBacked
    <3>2. \A q \in Procs : pc'[q] = "finish" => pc[q] = "finish" /\ RunOf(q)' = RunOf(q)
      BY <2>7, <3>1, ReturnFrame DEF Finish
    <3>3. row'[RunOf(p)].finished /\ row'[RunOf(p)].counted
      BY <2>7, <3>1 DEF Finish, TypeOK, Row
    <3>4. \A s \in Runs \ {RunOf(p)} : row'[s] = row[s]
      BY <2>7, <3>1 DEF Finish, TypeOK
    <3>5. SucceededIsBacked'
      BY <2>7, <3>1, <3>3, <3>4 DEF Finish, BackedInv, SucceededIsBacked
    <3>6. \A q \in Procs : pc'[q] = "finish" => results'[RunOf(q)'] = "full"
      BY <2>7, <3>2 DEF Finish, BackedInv, FinishIsBacked
    <3> QED
      BY <3>5, <3>6 DEF BackedInv, FinishIsBacked, Procs
  <2>14. ASSUME NEW p \in Procs, FinishFails(p) PROVE BackedInv'
    BY <2>14, GotoFrame, BackedFrame DEF FinishFails
  <2>8. ASSUME NEW p \in Procs, RecordFailure(p) PROVE BackedInv'
    <3>1. Active(p) /\ RunOf(p) \in Runs
      BY <2>8, RunOfTyped DEF RecordFailure, Active
    <3>2. \A q \in Procs : pc'[q] = "finish" => pc[q] = "finish" /\ RunOf(q)' = RunOf(q)
      BY <2>8, <3>1, ReturnFrame DEF RecordFailure
    <3>3. \A s \in Runs : /\ row'[s].counted => row[s].counted
                          /\ row'[s].status = "succeeded" => row'[s] = row[s]
      BY <2>8, <3>1 DEF RecordFailure, TypeOK, Row
    <3>4. \A s \in Runs : results[s] = "full" => results'[s] = "full"
      BY <2>8, <3>1 DEF RecordFailure, TypeOK
    <3> QED
      BY <3>2, <3>3, <3>4, BackedFrame
  <2>9. ASSUME NEW p \in Procs, Crash(p) PROVE BackedInv'
    <3>1. \A q \in Procs : pc'[q] = "finish" => pc[q] = "finish" /\ RunOf(q)' = RunOf(q)
      BY <2>9 DEF Crash, Goto, RunOf, TypeOK, Procs
    <3> QED
      BY <2>9, <3>1, BackedFrame DEF Crash
  <2>10. ASSUME NEW p \in Procs, SessionLost(p) PROVE BackedInv'
    BY <2>10, ReturnFrame, BackedFrame DEF SessionLost
  <2>13. ASSUME NEW w \in Workers, Timeout(w) PROVE BackedInv'
    BY <2>13, ReturnFrame, BackedFrame DEF Timeout, Procs
  <2>11. CASE SweepStuckRuns
    <3>1. ASSUME NEW s \in Runs
          PROVE  /\ row'[s].counted => row[s].counted
                 /\ row'[s].status = "succeeded" => row'[s] = row[s]
      <4>1. row[s] \in Row
        BY DEF TypeOK
      <4>2. \/ row'[s] = row[s]
            \/ row'[s] = [row[s] EXCEPT !.status = "failed", !.finished = TRUE, !.error = "swept"]
        BY <2>11 DEF SweepStuckRuns
      <4> QED
        BY <4>1, <4>2 DEF Row
    <3> QED
      BY <2>11, <3>1, BackedFrame DEF SweepStuckRuns, RunOf
  <2>12. CASE UNCHANGED vars
    BY <2>12, BackedFrame DEF vars, RunOf
  <2> QED
    BY <2>1, <2>2, <2>3, <2>4, <2>5, <2>6, <2>7, <2>8, <2>9, <2>10, <2>11, <2>12, <2>13,
       <2>14
    DEF Next, RunnerStep
<1>3. BackedInv => SucceededIsBacked
  BY DEF BackedInv
<1> QED
  BY <1>1, <1>2, <1>3, TypeCorrect, PTL DEF Spec

-----------------------------------------------------------------------------
(* Nothing happens for a queued run                                         *)

Waiting == {"absent", "queued"}
EarlyPCs == {"enqueue", "refuse", "read", "missing", "flip"}

\* A step that creates no row, loses no job and puts nobody on a jobless run.
LEMMA JobHasRowFrame ==
  ASSUME TypeOK, JobHasRow,
         \A r \in Runs :
           /\ pc'[r] = "idle" <=> pc[r] = "idle"
           /\ row'[r].status = "absent" <=> row[r].status = "absent"
           /\ job[r] # "none" => job'[r] # "none"
           /\ job'[r] # "none" => job[r] # "none" \/ pc[r] # "idle"
           /\ \A w \in Workers : on'[w] = r => on[w] = r \/ job[r] # "none"
  PROVE  JobHasRow'
  BY DEF JobHasRow

\* A step that starts nothing for a run that still waits after it.
LEMMA QueuedFrame ==
  ASSUME QueuedIsUntouched,
         \A r \in Runs : row'[r].status \in Waiting =>
           /\ row[r].status \in Waiting
           /\ results'[r] = results[r] /\ executions'[r] = executions[r]
           /\ row'[r].finished = row[r].finished
           /\ \A p \in Procs : RunOf(p)' = r /\ Active(p)' =>
                 pc'[p] \in EarlyPCs \/ (pc'[p] = pc[p] /\ RunOf(p) = r)
  PROVE  QueuedIsUntouched'
  BY DEF QueuedIsUntouched, Waiting, EarlyPCs, Active

\* A process past the flip works on a run that no longer waits.
LEMMA LateIsNotWaiting ==
  ASSUME TypeOK, QueuedIsUntouched, NEW p \in Procs, Active(p), pc[p] \notin EarlyPCs
  PROVE  RunOf(p) \in Runs /\ row[RunOf(p)].status \notin Waiting
  BY RunOfTyped DEF QueuedIsUntouched, Waiting, EarlyPCs

\* A worker that has not returned works on a run whose row exists.
LEMMA WorkedOnHasRow ==
  ASSUME TypeOK, JobHasRow, NEW w \in Workers, pc[w] # "idle"
  PROVE  on[w] \in Runs /\ job[on[w]] # "none" /\ row[on[w]].status # "absent"
  BY DEF TypeOK, JobHasRow

LEMMA JobHasRowStep == TypeOK /\ QueuedIsUntouched /\ JobHasRow /\ [Next]_vars => JobHasRow'
<1> SUFFICES ASSUME TypeOK, QueuedIsUntouched, JobHasRow, [Next]_vars PROVE JobHasRow'
  OBVIOUS
<1>0. /\ \A r \in Runs : r \in Procs /\ r \notin Workers
      /\ \A p \in Procs : p \in Runs \/ p \in Workers
  BY ConstantsOK DEF Procs
<1>1. ASSUME NEW r \in Runs, RequestStep(r) PROVE JobHasRow'
  <2>1. CASE DispatchAsync(r) \/ DispatchSync(r)
    BY <2>1 DEF DispatchAsync, DispatchSync, Goto, JobHasRow, TypeOK, Row, Procs
  <2>2. CASE Enqueue(r) \/ EnqueueFails(r)
    BY <2>2, JobHasRowFrame DEF Enqueue, EnqueueFails, Goto, TypeOK, Procs
  <2>3. CASE RefuseRun(r)
    <3>1. row[r].status # "absent"
      BY <2>3 DEF RefuseRun, JobHasRow
    <3>2. \A s \in Runs : row'[s].status = "absent" <=> row[s].status = "absent"
      BY <2>3, <3>1 DEF RefuseRun, TypeOK, Row
    <3> QED
      BY <2>3, <3>2, JobHasRowFrame DEF RefuseRun, Goto, TypeOK, Procs
  <2> QED
    BY <1>1, <2>1, <2>2, <2>3 DEF RequestStep
<1>2. ASSUME NEW r \in Runs, LeaseExpires(r) \/ DropJob(r) \/ Age(r) PROVE JobHasRow'
  BY <1>2, JobHasRowFrame DEF LeaseExpires, DropJob, Age, TypeOK
<1>3. ASSUME NEW r \in Runs, NEW w \in Workers, Deliver(w, r) PROVE JobHasRow'
  <2>1. \A s \in Runs : pc'[s] = pc[s]
    BY <1>0, <1>3 DEF Deliver, Goto, TypeOK
  <2>2. \A s \in Runs, v \in Workers : on'[v] = s => on[v] = s \/ job[s] # "none"
    BY <1>3 DEF Deliver, TypeOK
  <2> QED
    BY <1>3, <2>1, <2>2, JobHasRowFrame DEF Deliver
<1>4. ASSUME NEW p \in Procs, Active(p), Return(p),
             \A r \in Runs : row'[r].status = "absent" <=> row[r].status = "absent"
      PROVE  JobHasRow'
  <2>1. \A r \in Runs : pc'[r] = "idle" <=> pc[r] = "idle"
    BY <1>0, <1>4 DEF Return, Goto, TypeOK, Active
  <2>2. CASE p \in Runs
    BY <1>4, <2>1, <2>2, JobHasRowFrame DEF Return
  <2>3. CASE p \notin Runs
    <3>1. p \in Workers /\ on[p] \in Runs /\ job[on[p]] # "none"
      BY <1>0, <1>4, <2>3, WorkedOnHasRow DEF Active
    <3>2. \A r \in Runs : job'[r] # "none" <=> job[r] # "none"
      BY <1>4, <2>3, <3>1 DEF Return, TypeOK
    <3>3. \A r \in Runs, w \in Workers : on'[w] = r => on[w] = r
      BY <1>4, <2>3, <3>1, ConstantsOK DEF Return, TypeOK
    <3> QED
      BY <1>4, <2>1, <3>2, <3>3, JobHasRowFrame
  <2> QED
    BY <2>2, <2>3
<1>5. ASSUME NEW p \in Procs, NEW label \in PCs \ {"idle"}, Active(p), Goto(p, label),
             UNCHANGED <<job, on>>,
             \A r \in Runs : row'[r].status = "absent" <=> row[r].status = "absent"
      PROVE  JobHasRow'
  <2>1. \A r \in Runs : pc'[r] = "idle" <=> pc[r] = "idle"
    BY <1>0, <1>5 DEF Goto, TypeOK, Active
  <2> QED
    BY <1>5, <2>1, JobHasRowFrame
<1>6. ASSUME NEW w \in Workers, TaskStep(w) PROVE JobHasRow'
  <2>1. w \in Procs /\ Active(w) /\ on[w] \in Runs /\ row[on[w]].status # "absent"
    BY <1>6, WorkedOnHasRow
    DEF TaskStep, ReadRun, MarkMissing, FlipToRunning, Validate, Active, Procs
  <2>2. \A r \in Runs : row'[r].status = "absent" <=> row[r].status = "absent"
    BY <1>6, <2>1
    DEF TaskStep, ReadRun, MarkMissing, FlipToRunning, Validate, TypeOK, Row
  <2> QED
    BY <1>4, <1>5, <1>6, <2>1, <2>2
    DEF TaskStep, ReadRun, MarkMissing, FlipToRunning, Validate, PCs
<1>7. ASSUME NEW p \in Procs, RunnerStep(p) PROVE JobHasRow'
  <2>1. Active(p) /\ RunOf(p) \in Runs /\ row[RunOf(p)].status # "absent"
    BY <1>7, LateIsNotWaiting
    DEF RunnerStep, Query, Persist, Finish, FinishFails, RecordFailure, Active, EarlyPCs, Waiting
  <2>2. \A r \in Runs : row'[r].status = "absent" <=> row[r].status = "absent"
    BY <1>7, <2>1 DEF RunnerStep, Query, Persist, Finish, FinishFails, RecordFailure, TypeOK, Row
  <2> QED
    BY <1>4, <1>5, <1>7, <2>1, <2>2
    DEF RunnerStep, Query, Persist, Finish, FinishFails, RecordFailure, PCs
<1>8. ASSUME NEW p \in Procs, Crash(p) PROVE JobHasRow'
  <2>1. CASE p \in Runs
    BY <1>5, <1>8, <2>1 DEF Crash, PCs
  <2>2. CASE p \notin Runs
    BY <1>0, <1>8, <2>2, ConstantsOK, JobHasRowFrame DEF Crash, Goto, TypeOK
  <2> QED
    BY <2>1, <2>2
<1>9. ASSUME NEW p \in Procs, SessionLost(p) PROVE JobHasRow'
  BY <1>4, <1>9 DEF SessionLost
<1>10. ASSUME NEW w \in Workers, Timeout(w) PROVE JobHasRow'
  BY <1>4, <1>10 DEF Timeout, Procs
<1>11. CASE SweepStuckRuns
  <2>1. \A r \in Runs : row'[r].status = "absent" <=> row[r].status = "absent"
    <3> TAKE r \in Runs
    <3>1. row[r] \in Row
      BY DEF TypeOK
    <3>2. CASE Stuck(r)
      BY <1>11, <3>1, <3>2 DEF SweepStuckRuns, Stuck, Row
    <3>3. CASE ~Stuck(r)
      BY <1>11, <3>3 DEF SweepStuckRuns
    <3> QED
      BY <3>2, <3>3
  <2> QED
    BY <1>11, <2>1, JobHasRowFrame DEF SweepStuckRuns
<1>12. CASE UNCHANGED vars
  BY <1>12, JobHasRowFrame DEF vars
<1> QED
  BY <1>1, <1>2, <1>3, <1>6, <1>7, <1>8, <1>9, <1>10, <1>11, <1>12 DEF Next, QueueStep

LEMMA QueuedStep ==
  TypeOK /\ QueuedIsUntouched /\ JobHasRow /\ [Next]_vars => QueuedIsUntouched'
<1> SUFFICES ASSUME TypeOK, QueuedIsUntouched, JobHasRow, [Next]_vars
             PROVE  QueuedIsUntouched'
  OBVIOUS
<1>0. /\ \A r \in Runs : r \in Procs /\ r \notin Workers
      /\ \A p \in Procs : p \in Runs \/ p \in Workers
  BY ConstantsOK DEF Procs
<1> DEFINE Early(q) == pc'[q] \in EarlyPCs \cup {"idle", "done"}
           Same(q)  == pc'[q] = pc[q] /\ RunOf(q)' = RunOf(q)
           Kept(r)  == row'[r].status \in Waiting =>
                         /\ row[r].status \in Waiting /\ row'[r].finished = row[r].finished
                         /\ results'[r] = results[r] /\ executions'[r] = executions[r]
<1>1. ASSUME \A q \in Procs : Early(q) \/ Same(q), \A r \in Runs : Kept(r)
      PROVE  QueuedIsUntouched'
  BY <1>1, QueuedFrame DEF Active, EarlyPCs
<1>2. ASSUME NEW r \in Runs, RequestStep(r) PROVE QueuedIsUntouched'
  <2>1. CASE DispatchAsync(r)
    <3>1. \A q \in Procs : Early(q) \/ Same(q)
      BY <1>0, <2>1, GotoFrame DEF DispatchAsync, EarlyPCs
    <3>2. \A s \in Runs : Kept(s)
      BY <2>1 DEF DispatchAsync, JobHasRow, TypeOK, Row, Waiting
    <3> QED
      BY <1>1, <3>1, <3>2
  <2>2. CASE Enqueue(r) \/ EnqueueFails(r)
    <3>1. \A q \in Procs : Early(q) \/ Same(q)
      BY <1>0, <2>2, GotoFrame DEF Enqueue, EnqueueFails, EarlyPCs
    <3> QED
      BY <1>1, <2>2, <3>1 DEF Enqueue, EnqueueFails
  <2>3. CASE RefuseRun(r)
    <3>1. \A q \in Procs : Early(q) \/ Same(q)
      BY <1>0, <2>3, GotoFrame DEF RefuseRun
    <3>2. \A s \in Runs : Kept(s)
      BY <2>3 DEF RefuseRun, TypeOK, Row, Waiting
    <3> QED
      BY <1>1, <3>1, <3>2
  <2>4. CASE DispatchSync(r)
    <3>1. row'[r].status = "running"
      BY <2>4 DEF DispatchSync, TypeOK, Row
    <3>2. \A s \in Runs \ {r} : row'[s] = row[s] /\ executions'[s] = executions[s]
      BY <2>4 DEF DispatchSync, TypeOK
    <3>3. \A q \in Procs : RunOf(q)' = RunOf(q) /\ (q # r => pc'[q] = pc[q])
      BY <1>0, <2>4, GotoFrame DEF DispatchSync
    <3>4. RunOf(r) = r
      BY DEF RunOf
    <3> QED
      BY <2>4, <3>1, <3>2, <3>3, <3>4, QueuedFrame DEF DispatchSync, Active, Waiting
  <2> QED
    BY <1>2, <2>1, <2>2, <2>3, <2>4 DEF RequestStep
<1>3. ASSUME NEW r \in Runs, LeaseExpires(r) \/ DropJob(r) \/ Age(r) PROVE QueuedIsUntouched'
  BY <1>1, <1>3 DEF LeaseExpires, DropJob, Age, RunOf
<1>4. ASSUME NEW r \in Runs, NEW w \in Workers, Deliver(w, r) PROVE QueuedIsUntouched'
  <2>1. \A q \in Procs : Early(q) \/ Same(q)
    BY <1>0, <1>4 DEF Deliver, Goto, RunOf, TypeOK, EarlyPCs
  <2> QED
    BY <1>1, <1>4, <2>1 DEF Deliver
<1>5. ASSUME NEW p \in Procs, Active(p), Return(p), \A r \in Runs : Kept(r)
      PROVE  QueuedIsUntouched'
  BY <1>1, <1>5, ReturnFrame
<1>6. ASSUME NEW w \in Workers, TaskStep(w) PROVE QueuedIsUntouched'
  <2>1. /\ w \in Procs /\ Active(w) /\ RunOf(w) = on[w] /\ on[w] \in Runs
    BY <1>0, <1>6, RunOfTyped
    DEF TaskStep, ReadRun, MarkMissing, FlipToRunning, Validate, Active, RunOf, Procs
  <2>2. CASE ReadRun(w)
    <3>1. \A r \in Runs : Kept(r)
      BY <2>2 DEF ReadRun
    <3>2. CASE Return(w)
      BY <1>5, <2>1, <3>1, <3>2
    <3>3. CASE (Goto(w, "flip") \/ Goto(w, "missing")) /\ UNCHANGED on
      BY <1>1, <2>1, <3>1, <3>3, GotoFrame DEF EarlyPCs
    <3> QED
      BY <2>2, <3>2, <3>3 DEF ReadRun
  <2>3. CASE MarkMissing(w)
    <3>1. \A r \in Runs : Kept(r)
      BY <2>1, <2>3 DEF MarkMissing, TypeOK, Row, Waiting
    <3> QED
      BY <1>5, <2>1, <2>3, <3>1 DEF MarkMissing
  <2>4. CASE FlipToRunning(w)
    <3>1. row'[on[w]].status = "running" /\ \A r \in Runs \ {on[w]} : row'[r] = row[r]
      BY <2>1, <2>4 DEF FlipToRunning, TypeOK, Row
    <3>2. \A q \in Procs : RunOf(q)' = RunOf(q) /\ (q # w => pc'[q] = pc[q])
      BY <2>1, <2>4, GotoFrame DEF FlipToRunning
    <3> QED
      BY <2>1, <2>4, <3>1, <3>2, QueuedFrame DEF FlipToRunning, Active, Waiting
  <2>5. CASE Validate(w)
    <3>1. row[on[w]].status \notin Waiting
      BY <2>1, <2>5, LateIsNotWaiting DEF Validate, EarlyPCs
    <3>2. \A r \in Runs : Kept(r)
      BY <2>1, <2>5, <3>1 DEF Validate, TypeOK
    <3>3. CASE Return(w)
      BY <1>5, <2>1, <3>2, <3>3
    <3>4. CASE Goto(w, "query") /\ UNCHANGED on
      <4>1. \A q \in Procs : RunOf(q)' = RunOf(q) /\ (q # w => pc'[q] = pc[q])
        BY <2>1, <3>4, GotoFrame
      <4> QED
        BY <2>1, <2>5, <3>1, <3>2, <4>1, QueuedFrame DEF Validate, Active
    <3> QED
      BY <2>5, <3>3, <3>4 DEF Validate
  <2> QED
    BY <1>6, <2>2, <2>3, <2>4, <2>5 DEF TaskStep
<1>7. ASSUME NEW p \in Procs, RunnerStep(p) PROVE QueuedIsUntouched'
  <2>1. /\ Active(p) /\ RunOf(p) \in Runs /\ row[RunOf(p)].status \notin Waiting
    BY <1>7, LateIsNotWaiting
    DEF RunnerStep, Query, Persist, Finish, FinishFails, RecordFailure, Active, EarlyPCs
  <2>2. \A r \in Runs \ {RunOf(p)} : /\ row'[r] = row[r] /\ results'[r] = results[r]
                                      /\ executions'[r] = executions[r]
    BY <1>7, <2>1
    DEF RunnerStep, Query, Persist, Finish, FinishFails, RecordFailure, TypeOK
  <2>3. row'[RunOf(p)].status \notin Waiting
    BY <1>7, <2>1
    DEF RunnerStep, Query, Persist, Finish, FinishFails, RecordFailure, TypeOK, Row, Waiting
  <2>4. CASE Return(p)
    BY <1>5, <2>1, <2>2, <2>3, <2>4
  <2>5. CASE \E label \in PCs : Goto(p, label) /\ UNCHANGED on
    <3>1. \A q \in Procs : RunOf(q)' = RunOf(q) /\ (q # p => pc'[q] = pc[q])
      BY <2>5, GotoFrame
    <3> QED
      BY <2>1, <2>2, <2>3, <3>1, QueuedFrame DEF Active
  <2> QED
    BY <1>7, <2>4, <2>5
    DEF RunnerStep, Query, Persist, Finish, FinishFails, RecordFailure, PCs
<1>8. ASSUME NEW p \in Procs, Crash(p) PROVE QueuedIsUntouched'
  <2>1. \A q \in Procs : Early(q) \/ Same(q)
    BY <1>0, <1>8 DEF Crash, Goto, RunOf, TypeOK
  <2> QED
    BY <1>1, <1>8, <2>1 DEF Crash
<1>9. ASSUME NEW p \in Procs, SessionLost(p) PROVE QueuedIsUntouched'
  BY <1>5, <1>9 DEF SessionLost
<1>10. ASSUME NEW w \in Workers, Timeout(w) PROVE QueuedIsUntouched'
  BY <1>0, <1>5, <1>10 DEF Timeout, Procs
<1>11. CASE SweepStuckRuns
  <2>1. ASSUME NEW r \in Runs PROVE Kept(r)
    <3>1. row[r] \in Row
      BY DEF TypeOK
    <3>2. CASE Stuck(r)
      BY <1>11, <3>1, <3>2 DEF SweepStuckRuns, Row, Waiting
    <3>3. CASE ~Stuck(r)
      BY <1>11, <3>3 DEF SweepStuckRuns
    <3> QED
      BY <3>2, <3>3
  <2> QED
    BY <1>1, <1>11, <2>1 DEF SweepStuckRuns, RunOf
<1>12. CASE UNCHANGED vars
  BY <1>1, <1>12 DEF vars, RunOf
<1> QED
  BY <1>2, <1>3, <1>4, <1>6, <1>7, <1>8, <1>9, <1>10, <1>11, <1>12 DEF Next, QueueStep

(***************************************************************************)
(* A run that reads queued (or has no row yet) has had nothing done for    *)
(* it: the flip to running is committed before the runner is called        *)
(* (tasks.py), and nothing brings a run back to queued.                    *)
(***************************************************************************)
THEOREM QueuedUntouched == Spec => []QueuedIsUntouched
<1>1. Init => QueuedIsUntouched /\ JobHasRow
  BY ConstantsOK DEF Init, NoRow, QueuedIsUntouched, JobHasRow, Active, Procs
<1> QED
  BY <1>1, JobHasRowStep, QueuedStep, TypeCorrect, PTL DEF Spec

-----------------------------------------------------------------------------
(* A run that is over stays over                                            *)

\* What SettledStays asks of one step and one run.
Stays(r) ==
  Settled(r) =>
    /\ Settled(r)'
    /\ <<row[r], results[r], executions[r]>>' = <<row[r], results[r], executions[r]>>

\* A step that leaves the run's data alone and takes nobody past reading it.
LEMMA StaysFrame ==
  ASSUME NEW r \in Runs,
         Settled(r) =>
           /\ row'[r] = row[r] /\ results'[r] = results[r] /\ executions'[r] = executions[r]
           /\ \A q \in Procs : RunOf(q)' = r /\ Active(q)' =>
                 pc'[q] = "read" \/ (pc'[q] = pc[q] /\ RunOf(q) = r)
  PROVE  Stays(r)
  BY DEF Stays, Settled, Active

LEMMA StaysStep == TypeOK /\ JobHasRow /\ [Next]_vars => \A r \in Runs : Stays(r)
<1> SUFFICES ASSUME TypeOK, JobHasRow, [Next]_vars, NEW r \in Runs PROVE Stays(r)
  OBVIOUS
<1>0. /\ \A s \in Runs : s \in Procs /\ s \notin Workers /\ RunOf(s) = s
      /\ \A p \in Procs : p \in Runs \/ p \in Workers
  BY ConstantsOK DEF Procs, RunOf
<1> DEFINE Kept == /\ row'[r] = row[r] /\ results'[r] = results[r]
                   /\ executions'[r] = executions[r]
\* A process that moves on its own run, to any label or out of it.
<1>1. ASSUME NEW p \in Procs, UNCHANGED on, NEW label, Goto(p, label),
             Settled(r) => Kept /\ RunOf(p) # r
      PROVE  Stays(r)
  BY <1>1, GotoFrame, StaysFrame
<1>2. ASSUME NEW p \in Procs, Active(p), Return(p), Settled(r) => Kept
      PROVE  Stays(r)
  BY <1>2, ReturnFrame, StaysFrame DEF Active
<1>3. ASSUME NEW p \in Procs, Active(p), pc[p] # "read", Settled(r)
      PROVE  RunOf(p) # r
  BY <1>3 DEF Settled
<1>4. ASSUME NEW s \in Runs, RequestStep(s) PROVE Stays(r)
  <2>1. Settled(r) => s # r
    BY <1>0, <1>4
    DEF RequestStep, DispatchAsync, Enqueue, EnqueueFails, RefuseRun, DispatchSync,
        JobHasRow, Settled, Terminal, Active
  <2>2. Settled(r) => Kept
    BY <1>4, <2>1
    DEF RequestStep, DispatchAsync, Enqueue, EnqueueFails, RefuseRun, DispatchSync, TypeOK
  <2>3. PICK label \in PCs : Goto(s, label) /\ UNCHANGED on
    BY <1>4
    DEF RequestStep, DispatchAsync, Enqueue, EnqueueFails, RefuseRun, DispatchSync, PCs
  <2> QED
    BY <1>0, <1>1, <2>1, <2>2, <2>3
<1>5. ASSUME NEW s \in Runs, LeaseExpires(s) \/ DropJob(s) \/ Age(s) PROVE Stays(r)
  BY <1>5, StaysFrame DEF LeaseExpires, DropJob, Age, RunOf
<1>6. ASSUME NEW s \in Runs, NEW w \in Workers, Deliver(w, s) PROVE Stays(r)
  <2>1. \A q \in Procs : pc'[q] = "read" \/ (pc'[q] = pc[q] /\ RunOf(q)' = RunOf(q))
    BY <1>0, <1>6 DEF Deliver, Goto, RunOf, TypeOK
  <2> QED
    BY <1>6, <2>1, StaysFrame DEF Deliver
<1>7. ASSUME NEW w \in Workers, TaskStep(w) PROVE Stays(r)
  <2>1. w \in Procs /\ Active(w) /\ RunOf(w) = on[w] /\ on[w] \in Runs
    BY <1>0, <1>7, RunOfTyped
    DEF TaskStep, ReadRun, MarkMissing, FlipToRunning, Validate, Active, RunOf, Procs
  <2>2. CASE ReadRun(w)
    <3>1. CASE Return(w)
      BY <1>2, <2>1, <2>2, <3>1 DEF ReadRun
    <3>2. CASE row[on[w]].status = "queued" /\ UNCHANGED on
      <4>1. Settled(r) => on[w] # r
        BY <3>2 DEF Settled, Terminal
      <4> QED
        BY <1>1, <2>1, <2>2, <3>2, <4>1 DEF ReadRun, Return
    <3> QED
      BY <2>2, <3>1, <3>2 DEF ReadRun
  <2>3. CASE MarkMissing(w) \/ FlipToRunning(w) \/ Validate(w)
    <3>1. Settled(r) => on[w] # r
      BY <1>3, <2>1, <2>3 DEF MarkMissing, FlipToRunning, Validate
    <3>2. Settled(r) => Kept
      BY <2>1, <2>3, <3>1 DEF MarkMissing, FlipToRunning, Validate, TypeOK
    <3>3. Return(w) \/ \E label \in PCs : Goto(w, label) /\ UNCHANGED on
      BY <2>3 DEF MarkMissing, FlipToRunning, Validate, PCs
    <3> QED
      BY <1>1, <1>2, <2>1, <3>1, <3>2, <3>3
  <2> QED
    BY <1>7, <2>2, <2>3 DEF TaskStep
<1>8. ASSUME NEW p \in Procs, RunnerStep(p) PROVE Stays(r)
  <2>1. Active(p) /\ pc[p] # "read" /\ RunOf(p) \in Runs
    BY <1>8, RunOfTyped
    DEF RunnerStep, Query, Persist, Finish, FinishFails, RecordFailure, Active
  <2>2. Settled(r) => RunOf(p) # r
    BY <1>3, <2>1
  <2>3. Settled(r) => Kept
    BY <1>8, <2>1, <2>2
    DEF RunnerStep, Query, Persist, Finish, FinishFails, RecordFailure, TypeOK
  <2>4. Return(p) \/ \E label \in PCs : Goto(p, label) /\ UNCHANGED on
    BY <1>8 DEF RunnerStep, Query, Persist, Finish, FinishFails, RecordFailure, PCs
  <2> QED
    BY <1>1, <1>2, <2>1, <2>2, <2>3, <2>4
<1>9. ASSUME NEW p \in Procs, Crash(p) PROVE Stays(r)
  <2>1. \A q \in Procs : ~Active(q)' \/ (pc'[q] = pc[q] /\ RunOf(q)' = RunOf(q))
    BY <1>0, <1>9 DEF Crash, Goto, RunOf, TypeOK, Active
  <2> QED
    BY <1>9, <2>1, StaysFrame DEF Crash
<1>10. ASSUME NEW p \in Procs, SessionLost(p) PROVE Stays(r)
  BY <1>2, <1>10 DEF SessionLost
<1>11. ASSUME NEW w \in Workers, Timeout(w) PROVE Stays(r)
  BY <1>0, <1>2, <1>11 DEF Timeout, Procs
<1>12. CASE SweepStuckRuns
  <2>1. Settled(r) => row'[r] = row[r]
    BY <1>12 DEF SweepStuckRuns, Stuck, Settled, Terminal
  <2> QED
    BY <1>12, <2>1, StaysFrame DEF SweepStuckRuns, RunOf
<1>13. CASE UNCHANGED vars
  BY <1>13, StaysFrame DEF vars, RunOf
<1> QED
  BY <1>4, <1>5, <1>6, <1>7, <1>8, <1>9, <1>10, <1>11, <1>12, <1>13 DEF Next, QueueStep

(***************************************************************************)
(* A terminal run nobody is past reading is over for good: a redelivered   *)
(* job returns at the early return of tasks.py, and the sweeper's WHERE    *)
(* clause passes over the row.                                             *)
(***************************************************************************)
THEOREM SettledIsForGood == Spec => SettledStays
<1>1. Init => QueuedIsUntouched /\ JobHasRow
  BY ConstantsOK DEF Init, NoRow, QueuedIsUntouched, JobHasRow, Active, Procs
<1>2. TypeOK /\ JobHasRow /\ [Next]_vars =>
        [\A r \in Runs : Settled(r) =>
           /\ Settled(r)'
           /\ <<row[r], results[r], executions[r]>>' = <<row[r], results[r], executions[r]>>]_vars
  BY StaysStep DEF Stays
<1> QED
  BY <1>1, <1>2, JobHasRowStep, QueuedStep, TypeCorrect, PTL DEF Spec, SettledStays

-----------------------------------------------------------------------------
(* A job whose lease outlives its worker calls the plugin at most once       *)

BeforeCall == {"missing", "flip", "check"}

\* A step that hands no job over to another worker and starts nothing.
LEMMA LeaseFrame ==
  ASSUME LeaseExcludes,
         \A w \in Workers : on'[w] # NoRun =>
           /\ on'[w] = on[w] /\ lease'[on[w]] /\ job'[on[w]] = "stored"
           /\ pc'[w] \in BeforeCall => executions'[on[w]] = 0
  PROVE  LeaseExcludes'
  BY DEF LeaseExcludes, BeforeCall

\* A process that returns gives up its own job and nobody else's.
LEMMA LeaseReturn ==
  ASSUME TypeOK, LeaseExcludes, NEW p \in Procs, Active(p), Return(p),
         UNCHANGED executions
  PROVE  LeaseExcludes'
<1>1. CASE p \in Runs
  <2>1. \A w \in Workers : pc'[w] = pc[w]
    BY <1>1, ConstantsOK DEF Return, Goto, TypeOK, Procs
  <2> QED
    BY <1>1, <2>1, LeaseFrame DEF Return, LeaseExcludes, BeforeCall
<1>2. CASE p \notin Runs
  <2>1. p \in Workers /\ on[p] \in Runs /\ on[p] # NoRun
    BY <1>2, ConstantsOK DEF TypeOK, Procs, Active
  <2>2. on' = [on EXCEPT ![p] = NoRun] /\ \A w \in Workers \ {p} : pc'[w] = pc[w]
    BY <1>2, <2>1 DEF Return, Goto, TypeOK, Procs
  <2>3. ASSUME NEW w \in Workers, on'[w] # NoRun
        PROVE  /\ on'[w] = on[w] /\ lease'[on[w]] /\ job'[on[w]] = "stored"
               /\ pc'[w] \in BeforeCall => executions'[on[w]] = 0
    <3>1. w # p /\ on'[w] = on[w]
      BY <2>1, <2>2, <2>3 DEF TypeOK
    <3>2. on[w] # on[p] /\ on[w] \in Runs
      BY <2>1, <2>3, <3>1 DEF LeaseExcludes, TypeOK
    <3>3. job'[on[w]] = job[on[w]] /\ lease'[on[w]] = lease[on[w]]
      BY <1>2, <3>2 DEF Return, TypeOK
    <3> QED
      BY <2>2, <2>3, <3>1, <3>3 DEF LeaseExcludes, BeforeCall
  <2> QED
    BY <2>3, LeaseFrame
<1> QED
  BY <1>1, <1>2

\* A process that goes to a label, with nothing done for its run before a call.
LEMMA LeaseGoto ==
  ASSUME TypeOK, LeaseExcludes, NEW p \in Procs, NEW label, Goto(p, label),
         UNCHANGED <<on, job, lease, executions>>,
         p \in Workers /\ label \in BeforeCall => executions[on[p]] = 0
  PROVE  LeaseExcludes'
<1>1. \A w \in Workers : pc'[w] = pc[w] \/ (w = p /\ pc'[w] = label)
  BY DEF Goto, TypeOK
<1> QED
  BY <1>1, LeaseFrame DEF LeaseExcludes, BeforeCall

LEMMA LeaseStep ==
  ASSUME "stalled_lease" \notin Faults
  PROVE  TypeOK /\ QueuedIsUntouched /\ JobHasRow /\ LeaseExcludes /\ AtMostOnce /\ [Next]_vars
           => LeaseExcludes' /\ AtMostOnce'
<1> SUFFICES ASSUME TypeOK, QueuedIsUntouched, JobHasRow, LeaseExcludes, AtMostOnce, [Next]_vars
             PROVE  LeaseExcludes' /\ AtMostOnce'
  OBVIOUS
<1>0. /\ \A r \in Runs : r \in Procs /\ r \notin Workers
      /\ \A w \in Workers : w \in Procs /\ RunOf(w) = on[w]
      /\ \A p \in Procs : p \in Runs \/ p \in Workers
  BY ConstantsOK DEF Procs, RunOf
<1>1. ASSUME UNCHANGED executions PROVE AtMostOnce'
  BY <1>1 DEF AtMostOnce
<1>2. ASSUME NEW r \in Runs, RequestStep(r) PROVE LeaseExcludes' /\ AtMostOnce'
  <2>1. CASE DispatchAsync(r) \/ RefuseRun(r)
    BY <1>0, <1>1, <2>1, LeaseGoto DEF DispatchAsync, RefuseRun
  <2>2. CASE Enqueue(r) \/ EnqueueFails(r)
    <3>1. \A s \in Runs : job[s] = "stored" => job'[s] = "stored"
      BY <2>2 DEF Enqueue, EnqueueFails, TypeOK
    <3>2. \A w \in Workers : pc'[w] = pc[w]
      BY <1>0, <2>2 DEF Enqueue, EnqueueFails, Goto, TypeOK
    <3>3. \A w \in Workers : on[w] # NoRun => on[w] \in Runs
      BY DEF TypeOK
    <3>4. LeaseExcludes'
      BY <2>2, <3>1, <3>2, <3>3, LeaseFrame
      DEF Enqueue, EnqueueFails, LeaseExcludes, BeforeCall
    <3> QED
      BY <1>1, <2>2, <3>4 DEF Enqueue, EnqueueFails
  <2>3. CASE DispatchSync(r)
    <3>1. executions[r] = 0 /\ \A w \in Workers : on[w] # r
      BY <2>3 DEF DispatchSync, JobHasRow, QueuedIsUntouched
    <3>2. executions' = [executions EXCEPT ![r] = 1]
      BY <2>3, <3>1 DEF DispatchSync
    <3>3. \A w \in Workers : pc'[w] = pc[w] /\ (on[w] # NoRun => on[w] \in Runs)
      BY <1>0, <2>3 DEF DispatchSync, Goto, TypeOK
    <3>4. \A w \in Workers : on[w] # NoRun => executions'[on[w]] = executions[on[w]]
      BY <3>1, <3>2, <3>3 DEF TypeOK
    <3>5. LeaseExcludes'
      BY <2>3, <3>3, <3>4, LeaseFrame DEF DispatchSync, LeaseExcludes, BeforeCall
    <3>6. AtMostOnce'
      BY <3>2 DEF AtMostOnce, TypeOK
    <3> QED
      BY <3>5, <3>6
  <2> QED
    BY <1>2, <2>1, <2>2, <2>3 DEF RequestStep
<1>3. ASSUME NEW r \in Runs, LeaseExpires(r) \/ DropJob(r)
      PROVE  LeaseExcludes' /\ AtMostOnce'
  <2>1. \A w \in Workers : on[w] # r
    BY <1>3, ConstantsOK DEF Hits, LeaseExpires, DropJob, LeaseExcludes
  <2>2. \A w \in Workers : on[w] # NoRun =>
          lease'[on[w]] = lease[on[w]] /\ job'[on[w]] = job[on[w]]
    BY <1>3, <2>1 DEF LeaseExpires, DropJob, TypeOK
  <2> QED
    BY <1>1, <1>3, <2>2, LeaseFrame DEF LeaseExpires, DropJob, LeaseExcludes, BeforeCall
<1>4. ASSUME NEW r \in Runs, NEW w \in Workers, Deliver(w, r)
      PROVE  LeaseExcludes' /\ AtMostOnce'
  <2>1. \A v \in Workers : on[v] # r
    BY <1>4, ConstantsOK DEF Deliver, LeaseExcludes
  <2>2. /\ on'[w] = r /\ pc'[w] = "read" /\ lease'[r] /\ job'[r] = "stored"
        /\ \A v \in Workers \ {w} : on'[v] = on[v] /\ pc'[v] = pc[v]
        /\ \A s \in Runs \ {r} : lease'[s] = lease[s] /\ job'[s] = job[s]
    BY <1>0, <1>4 DEF Deliver, Goto, TypeOK
  <2>3. \A v \in Workers : on[v] # NoRun => on[v] \in Runs \ {r}
    BY <2>1 DEF TypeOK
  <2>4. LeaseExcludes'
    BY <1>4, <2>1, <2>2, <2>3 DEF Deliver, LeaseExcludes
  <2> QED
    BY <1>1, <1>4, <2>4 DEF Deliver
<1>5. ASSUME NEW p \in Procs, Active(p), Return(p), UNCHANGED executions
      PROVE  LeaseExcludes' /\ AtMostOnce'
  BY <1>1, <1>5, LeaseReturn
<1>6. ASSUME NEW w \in Workers, TaskStep(w) PROVE LeaseExcludes' /\ AtMostOnce'
  <2>1. Active(w) /\ on[w] \in Runs /\ on[w] # NoRun
    BY <1>0, <1>6, RunOfTyped, ConstantsOK
    DEF TaskStep, ReadRun, MarkMissing, FlipToRunning, Validate, Active
  <2>2. CASE ReadRun(w)
    <3>1. CASE Return(w)
      BY <1>0, <1>5, <2>1, <2>2, <3>1 DEF ReadRun
    <3>2. CASE row[on[w]].status = "queued" /\ UNCHANGED <<job, lease, on>>
      <4>1. executions[on[w]] = 0
        BY <2>1, <3>2 DEF QueuedIsUntouched
      <4> QED
        BY <1>0, <1>1, <2>2, <3>2, <4>1, LeaseGoto DEF ReadRun, Return
    <3> QED
      BY <2>2, <3>1, <3>2 DEF ReadRun
  <2>3. CASE MarkMissing(w)
    BY <1>0, <1>5, <2>1, <2>3 DEF MarkMissing
  <2>4. CASE FlipToRunning(w)
    <3>1. executions[on[w]] = 0
      BY <2>1, <2>4 DEF FlipToRunning, LeaseExcludes
    <3> QED
      BY <1>0, <1>1, <2>4, <3>1, LeaseGoto DEF FlipToRunning
  <2>5. CASE Validate(w) /\ Return(w) /\ UNCHANGED executions
    BY <1>0, <1>5, <2>1, <2>5
  <2>6. CASE /\ pc[w] = "check" /\ Goto(w, "query") /\ UNCHANGED <<job, lease, on>>
             /\ executions' = [executions EXCEPT ![on[w]] = @ + 1]
    <3>1. executions[on[w]] = 0
      BY <2>1, <2>6 DEF LeaseExcludes
    <3>2. executions' = [executions EXCEPT ![on[w]] = 1]
      BY <2>6, <3>1
    <3>3. ASSUME NEW v \in Workers, on'[v] # NoRun
          PROVE  pc'[v] \in BeforeCall => executions'[on[v]] = 0
      <4>1. CASE v = w
        BY <1>0, <2>6, <4>1 DEF Goto, TypeOK, BeforeCall
      <4>2. CASE v # w
        <5>1. on[v] # on[w] /\ on[v] \in Runs
          BY <2>1, <2>6, <3>3, <4>2 DEF LeaseExcludes, TypeOK
        <5>2. pc'[v] = pc[v] /\ executions'[on[v]] = executions[on[v]]
          BY <1>0, <2>6, <3>2, <4>2, <5>1 DEF Goto, TypeOK
        <5> QED
          BY <2>6, <3>3, <5>2 DEF LeaseExcludes, BeforeCall
      <4> QED
        BY <4>1, <4>2
    <3>4. LeaseExcludes'
      BY <2>6, <3>3, LeaseFrame DEF LeaseExcludes
    <3>5. AtMostOnce'
      BY <3>2 DEF AtMostOnce, TypeOK
    <3> QED
      BY <3>4, <3>5
  <2> QED
    BY <1>6, <2>2, <2>3, <2>4, <2>5, <2>6 DEF TaskStep, Validate
<1>7. ASSUME NEW p \in Procs, RunnerStep(p) PROVE LeaseExcludes' /\ AtMostOnce'
  <2>1. Active(p) /\ UNCHANGED executions
    BY <1>7 DEF RunnerStep, Query, Persist, Finish, FinishFails, RecordFailure, Active
  <2>2. \/ Return(p)
        \/ \E label \in PCs \ BeforeCall : Goto(p, label) /\ UNCHANGED <<job, lease, on>>
    BY <1>7
    DEF RunnerStep, Query, Persist, Finish, FinishFails, RecordFailure, PCs, BeforeCall
  <2> QED
    BY <1>1, <1>5, <2>1, <2>2, LeaseGoto
<1>8. ASSUME NEW p \in Procs, Crash(p) PROVE LeaseExcludes' /\ AtMostOnce'
  <2>1. \A w \in Workers : on'[w] # NoRun => on'[w] = on[w] /\ pc'[w] = pc[w]
    BY <1>0, <1>8 DEF Crash, Goto, TypeOK
  <2> QED
    BY <1>1, <1>8, <2>1, LeaseFrame DEF Crash, LeaseExcludes, BeforeCall
<1>9. ASSUME NEW p \in Procs, SessionLost(p) PROVE LeaseExcludes' /\ AtMostOnce'
  BY <1>5, <1>9 DEF SessionLost
<1>10. ASSUME NEW w \in Workers, Timeout(w) PROVE LeaseExcludes' /\ AtMostOnce'
  BY <1>0, <1>5, <1>10 DEF Timeout
<1>11. CASE UNCHANGED <<job, lease, pc, on, executions>>
  BY <1>1, <1>11, LeaseFrame DEF LeaseExcludes, BeforeCall
<1> QED
  BY <1>2, <1>3, <1>4, <1>6, <1>7, <1>8, <1>9, <1>10, <1>11
  DEF Next, QueueStep, Age, SweepStuckRuns, vars

(***************************************************************************)
(* As long as no lease lapses under a live worker, the runner executes a   *)
(* run at most once, however often workers die and arq starts the job      *)
(* again: the docstring of run_plugin_task holds under this condition, and *)
(* the lease, not the row, is what makes it hold.                          *)
(***************************************************************************)
THEOREM ExecutedOnce ==
  ASSUME "stalled_lease" \notin Faults
  PROVE  Spec => []AtMostOnce
<1>1. Init => QueuedIsUntouched /\ JobHasRow /\ LeaseExcludes /\ AtMostOnce
  <2> SUFFICES ASSUME Init PROVE QueuedIsUntouched /\ JobHasRow /\ LeaseExcludes /\ AtMostOnce
    OBVIOUS
  <2>1. QueuedIsUntouched /\ JobHasRow
    BY ConstantsOK DEF Init, NoRow, QueuedIsUntouched, JobHasRow, Active, Procs
  <2>2. LeaseExcludes /\ AtMostOnce
    BY DEF Init, LeaseExcludes, AtMostOnce
  <2> QED
    BY <2>1, <2>2
<1>2. TypeOK /\ QueuedIsUntouched /\ JobHasRow /\ LeaseExcludes /\ AtMostOnce /\ [Next]_vars
        => LeaseExcludes' /\ AtMostOnce'
  BY LeaseStep
<1> QED
  BY <1>1, <1>2, JobHasRowStep, QueuedStep, TypeCorrect, PTL DEF Spec
=============================================================================
