-------------------------- MODULE RunLifecycleProofs --------------------------
(***************************************************************************)
(* Proof that the audit row of PluginRun makes the documented moves of     *)
(* RunLifecycle and no others, for every set of runs and workers and any   *)
(* number of tries, in a deployment without a sweeper in which no lease    *)
(* lapses under a live worker and the queue loses no reply.  Processes may *)
(* die, tasks may time out, commits may fail.  Where the queue turns a job *)
(* down or the input entity has been hard-deleted, the row ends in another *)
(* way (router.py:124, tasks.py:58); still nobody is overtaken.            *)
(***************************************************************************)
EXTENDS PluginRunProofs

-----------------------------------------------------------------------------
(* Who works on a run                                                       *)

\* A request that still is at work has stored no job.
RequestFirst == \A r \in Runs : pc[r] # "done" => job[r] = "none"

\* Only a run that is over is finished.
OpenIsUnfinished == \A r \in Runs : row[r].status \notin Terminal => ~row[r].finished

BeforeFlip == {"enqueue", "refuse", "missing", "flip"}
AfterFlip == {"check", "query", "persist", "finish", "record", "dirty"}

\* What the row of its run reads, where one process stands.
Placed(p) ==
  Active(p) =>
    /\ pc[p] \in BeforeFlip => row[RunOf(p)].status = "queued"
    /\ pc[p] \in AfterFlip => row[RunOf(p)].status = "running"

AllPlaced == \A p \in Procs : Placed(p)

\* The invariant of this module, and the earlier ones that it rests on.
Known == TypeOK /\ QueuedIsUntouched /\ JobHasRow /\ LeaseExcludes /\ AtMostOnce
MovesInv == RequestFirst /\ OpenIsUnfinished /\ AllPlaced

LEMMA Parties ==
  /\ \A r \in Runs : r \in Procs /\ r \notin Workers /\ RunOf(r) = r
  /\ \A w \in Workers : w \in Procs /\ RunOf(w) = on[w]
  /\ \A p \in Procs : p \in Runs \/ p \in Workers
  BY ConstantsOK DEF Procs, RunOf

\* Two live processes never work on one run: a request has stored no job yet,
\* and a job's lease keeps every second worker away.
LEMMA Alone ==
  ASSUME Known, RequestFirst, NEW p \in Procs, NEW q \in Procs,
         Active(p), Active(q), RunOf(p) = RunOf(q)
  PROVE  p = q
<1>1. ASSUME NEW r \in Runs, NEW w \in Workers, Active(r), Active(w), on[w] = r
      PROVE  FALSE
  <2>1. job[r] = "none"
    BY <1>1 DEF Active, RequestFirst
  <2> QED
    BY <1>1, <2>1 DEF Known, JobHasRow
<1>2. ASSUME NEW v \in Workers, NEW w \in Workers, Active(v), Active(w), on[v] = on[w]
      PROVE  v = w
  <2>1. on[w] # NoRun
    BY <1>2 DEF Known, TypeOK, Active
  <2> QED
    BY <1>2, <2>1 DEF Known, LeaseExcludes
<1> QED
  BY <1>1, <1>2, Parties

\* A step of p alone: whoever is still at work stands where it stood, on a run
\* whose row p does not touch.
LEMMA PlacedFrame ==
  ASSUME AllPlaced, NEW p \in Procs,
         \A q \in Procs \ {p} : Active(q)' =>
           pc'[q] = pc[q] /\ RunOf(q)' = RunOf(q) /\ row'[RunOf(q)] = row[RunOf(q)],
         Placed(p)'
  PROVE  AllPlaced'
<1> SUFFICES ASSUME NEW q \in Procs, q # p PROVE Placed(q)'
  BY DEF AllPlaced, Procs
<1>1. Active(q)' => /\ pc'[q] = pc[q] /\ Active(q) /\ RunOf(q)' = RunOf(q)
                    /\ row'[RunOf(q)] = row[RunOf(q)]
  BY DEF Active
<1> QED
  BY <1>1 DEF AllPlaced, Placed

\* p moves to a label and writes at most the row of its own run.
LEMMA PlacedGoto ==
  ASSUME Known, MovesInv, NEW p \in Procs, NEW label, Goto(p, label), UNCHANGED on,
         p \in Runs \/ pc[p] # "idle", pc[p] # "done",
         \A r \in Runs : r # RunOf(p) => row'[r] = row[r],
         label \in BeforeFlip => row'[RunOf(p)].status = "queued",
         label \in AfterFlip => row'[RunOf(p)].status = "running"
  PROVE  AllPlaced'
<1>1. /\ pc'[p] = label
      /\ \A q \in Procs : RunOf(q)' = RunOf(q)
      /\ \A q \in Procs \ {p} : pc'[q] = pc[q]
  BY GotoFrame DEF Known
<1>2. ASSUME NEW q \in Procs \ {p}, Active(q)' PROVE row'[RunOf(q)] = row[RunOf(q)]
  <2>1. Active(q) /\ RunOf(q) \in Runs
    BY <1>1, <1>2, RunOfTyped DEF Active, Known
  <2>2. RunOf(q) # RunOf(p)
    <3>1. CASE Active(p)
      BY <2>1, <3>1, Alone DEF MovesInv
    <3>2. CASE p \in Runs /\ pc[p] = "idle"
      <4>1. job[p] = "none"
        BY <3>2 DEF MovesInv, RequestFirst
      <4>2. \A w \in Workers : on[w] # p
        BY <3>2, <4>1 DEF Known, JobHasRow
      <4> QED
        BY <2>1, <3>2, <4>2, Parties
    <3> QED
      BY <3>1, <3>2 DEF Active
  <2> QED
    BY <2>1, <2>2
<1>3. Placed(p)'
  BY <1>1 DEF Placed
<1> QED
  BY <1>1, <1>2, <1>3, PlacedFrame DEF MovesInv

\* p is done with its run and writes at most the row of its own run.
LEMMA PlacedReturn ==
  ASSUME Known, MovesInv, NEW p \in Procs, Active(p),
         ~Active(p)',
         \A q \in Procs \ {p} : pc'[q] = pc[q] /\ RunOf(q)' = RunOf(q),
         \A r \in Runs : r # RunOf(p) => row'[r] = row[r]
  PROVE  AllPlaced'
<1>1. ASSUME NEW q \in Procs \ {p}, Active(q)' PROVE row'[RunOf(q)] = row[RunOf(q)]
  <2>1. Active(q) /\ RunOf(q) \in Runs
    BY <1>1, RunOfTyped DEF Active, Known
  <2>2. RunOf(q) # RunOf(p)
    BY <2>1, Alone DEF MovesInv
  <2> QED
    BY <2>1, <2>2
<1>2. Placed(p)'
  BY DEF Placed
<1> QED
  BY <1>1, <1>2, PlacedFrame DEF MovesInv

\* A worker that returns ends a job that its request has left behind.
LEMMA FirstReturn ==
  ASSUME Known, RequestFirst, NEW p \in Procs, Active(p), Return(p)
  PROVE  RequestFirst'
<1>1. CASE p \in Runs
  BY <1>1 DEF Return, Goto, Known, TypeOK, RequestFirst, Procs
<1>2. CASE p \in Workers
  <2>1. p \notin Runs /\ on[p] \in Runs /\ on[p] # NoRun
    BY <1>2, ConstantsOK DEF Known, TypeOK, Active
  <2>2. job[on[p]] = "stored"
    BY <1>2, <2>1 DEF Known, LeaseExcludes
  <2>3. pc[on[p]] = "done"
    BY <2>1, <2>2 DEF RequestFirst
  <2>4. /\ \A r \in Runs : pc'[r] = pc[r]
        /\ \A r \in Runs : r # on[p] => job'[r] = job[r]
    BY <1>2, <2>1, Parties DEF Return, Goto, Known, TypeOK
  <2> QED
    BY <2>3, <2>4 DEF RequestFirst
<1> QED
  BY <1>1, <1>2, Parties

-----------------------------------------------------------------------------
(* One move of one row                                                      *)

\* The conditions of both theorems.
Deployed == ~SweeperWired /\ Faults \cap {"stalled_lease", "lost_reply"} = {}

\* Somebody is about to fail a run that no worker has begun.
Refusing(p) == pc[p] \in {"refuse", "missing"}

\* What a step is to the invariant and to the reader of the rows.
StepKept == MovesInv' /\ (Audit!Next \/ UNCHANGED AuditRow \/ \E p \in Procs : Refusing(p))

\* A step that writes no row.
LEMMA RowsAlone ==
  ASSUME MovesInv, RequestFirst', AllPlaced', UNCHANGED row
  PROVE  StepKept
  BY DEF StepKept, MovesInv, OpenIsUnfinished, AuditRow

\* A step that writes the row of r, as one of RunLifecycle's actions does.
LEMMA RowMoves ==
  ASSUME Known, MovesInv, RequestFirst', AllPlaced',
         NEW r \in Runs, NEW x \in Row, row' = [row EXCEPT ![r] = x],
         \/ /\ row[r].status \in {"absent", "queued"} /\ x.status = "running" /\ ~x.finished
         \/ /\ row[r].status = "absent" /\ x.status = "queued" /\ ~x.finished
         \/ /\ row[r].status = "queued" /\ x.status = "failed" /\ \E p \in Procs : Refusing(p)
         \/ /\ row[r].status = "running" /\ x.status \in Terminal /\ x.finished
  PROVE  StepKept
<1>1. row \in [Runs -> Row]
  BY DEF Known, TypeOK
<1>2. OpenIsUnfinished'
  BY <1>1 DEF MovesInv, OpenIsUnfinished, Terminal
<1>3. AuditRow[r].status = row[r].status
  BY DEF AuditRow
<1>4. AuditRow' = [AuditRow EXCEPT ![r] = [status |-> x.status, finished |-> x.finished]]
  BY <1>1 DEF AuditRow
<1>5. x.finished \in BOOLEAN
  BY DEF Row
<1>6. Audit!Appear(r) \/ Audit!LeaveQueue(r) \/ Audit!End(r) \/ \E p \in Procs : Refusing(p)
  <2>1. CASE row[r].status = "absent"
    BY <1>3, <1>4, <1>5, <2>1 DEF Audit!Appear, Audit!Move, Terminal
  <2>2. CASE row[r].status = "queued"
    BY <1>3, <1>4, <1>5, <2>2 DEF Audit!LeaveQueue, Audit!Move, Terminal
  <2>3. CASE row[r].status = "running"
    BY <1>3, <1>4, <1>5, <2>3 DEF Audit!End, Audit!Move, Terminal
  <2> QED
    BY <2>1, <2>2, <2>3
<1> QED
  BY <1>2, <1>6 DEF StepKept, MovesInv, Audit!Next

-----------------------------------------------------------------------------
(* The steps                                                                *)

LEMMA RequestMoves ==
  ASSUME Known, MovesInv, Deployed, NEW r \in Runs, RequestStep(r)
  PROVE  StepKept
<1>0. r \in Procs /\ RunOf(r) = r /\ row[r] \in Row /\ \A s \in Runs : s \in Procs
  BY Parties DEF Known, TypeOK
<1>1. UNCHANGED job /\ pc'[r] # "idle" => RequestFirst'
  <2> SUFFICES ASSUME UNCHANGED job PROVE RequestFirst'
    OBVIOUS
  <2>1. pc[r] # "done" /\ \A s \in Runs : s # r => pc'[s] = pc[s]
    BY <1>0 DEF RequestStep, DispatchAsync, Enqueue, EnqueueFails, RefuseRun, DispatchSync,
                Goto, Known, TypeOK
  <2> QED
    BY <2>1 DEF MovesInv, RequestFirst
<1>2. CASE DispatchAsync(r)
  <2>1. row[r].status = "absent" /\ ~row[r].finished
    BY <1>2 DEF DispatchAsync, Known, JobHasRow, MovesInv, OpenIsUnfinished, Terminal
  <2> DEFINE x == [row[r] EXCEPT !.status = "queued"]
  <2>2. x \in Row /\ x.status = "queued" /\ ~x.finished /\ row' = [row EXCEPT ![r] = x]
    BY <1>0, <1>2, <2>1 DEF DispatchAsync, Row, Statuses
  <2>3. row'[r].status = "queued" /\ \A s \in Runs : s # r => row'[s] = row[s]
    BY <2>2 DEF Known, TypeOK
  <2>4. AllPlaced'
    BY <1>0, <1>2, <2>3, PlacedGoto DEF DispatchAsync, AfterFlip
  <2>5. RequestFirst'
    BY <1>0, <1>1, <1>2 DEF DispatchAsync, Goto, Known, TypeOK
  <2> HIDE DEF x
  <2> QED
    BY <2>1, <2>2, <2>4, <2>5, RowMoves
<1>3. CASE Enqueue(r)
  <2>1. RequestFirst'
    BY <1>0, <1>3 DEF Enqueue, Goto, Known, TypeOK, MovesInv, RequestFirst
  <2>2. AllPlaced'
    <3>1. pc[r] # "done" /\ Goto(r, "done") /\ UNCHANGED <<row, on>>
      BY <1>3 DEF Enqueue
    <3>2. "done" \notin BeforeFlip /\ "done" \notin AfterFlip
      BY DEF BeforeFlip, AfterFlip
    <3> QED
      BY <1>0, <3>1, <3>2, PlacedGoto
  <2> QED
    BY <1>3, <2>1, <2>2, RowsAlone DEF Enqueue
<1>4. CASE EnqueueFails(r)
  <2>1. UNCHANGED job
    BY <1>4 DEF EnqueueFails, Hits, Deployed
  <2>2. RequestFirst'
    BY <1>0, <1>1, <1>4, <2>1 DEF EnqueueFails, Goto, Known, TypeOK
  <2>3. row[r].status = "queued"
    BY <1>0, <1>4 DEF EnqueueFails, MovesInv, AllPlaced, Placed, BeforeFlip, Active
  <2>4. AllPlaced'
    <3>1. pc[r] # "done" /\ Goto(r, "refuse") /\ UNCHANGED <<row, on>>
      BY <1>4 DEF EnqueueFails
    <3>2. "refuse" \notin AfterFlip
      BY DEF AfterFlip
    <3> QED
      BY <1>0, <2>3, <3>1, <3>2, PlacedGoto
  <2> QED
    BY <1>4, <2>2, <2>4, RowsAlone DEF EnqueueFails
<1>5. CASE RefuseRun(r)
  <2>1. row[r].status = "queued" /\ ~row[r].finished
    BY <1>0, <1>5
    DEF RefuseRun, MovesInv, AllPlaced, Placed, BeforeFlip, Active, OpenIsUnfinished, Terminal
  <2> DEFINE x == [row[r] EXCEPT !.status = "failed", !.error = "enqueue_failed"]
  <2>2. x \in Row /\ x.status = "failed" /\ Refusing(r)
    BY <1>0, <1>5, <2>1 DEF Row, Statuses, Errors, RefuseRun, Refusing
  <2>3. row' = [row EXCEPT ![r] = x]
    BY <1>5 DEF RefuseRun, Known, TypeOK
  <2>4. AllPlaced'
    <3>1. pc[r] # "done" /\ Goto(r, "done") /\ UNCHANGED on
      BY <1>5 DEF RefuseRun
    <3>2. "done" \notin BeforeFlip /\ "done" \notin AfterFlip
      BY DEF BeforeFlip, AfterFlip
    <3>3. \A s \in Runs : s # r => row'[s] = row[s]
      BY <2>3 DEF Known, TypeOK
    <3> QED
      BY <1>0, <3>1, <3>2, <3>3, PlacedGoto
  <2>5. RequestFirst'
    BY <1>0, <1>1, <1>5 DEF RefuseRun, Goto, Known, TypeOK
  <2> HIDE DEF x
  <2> QED
    BY <1>0, <2>1, <2>2, <2>3, <2>4, <2>5, RowMoves
<1>6. CASE DispatchSync(r)
  <2>1. row[r].status = "absent" /\ ~row[r].finished
    BY <1>6 DEF DispatchSync, Known, JobHasRow, MovesInv, OpenIsUnfinished, Terminal
  <2> DEFINE x == [row[r] EXCEPT !.status = "running"]
  <2>2. x \in Row /\ x.status = "running" /\ ~x.finished /\ row' = [row EXCEPT ![r] = x]
    BY <1>0, <1>6, <2>1 DEF DispatchSync, Row, Statuses
  <2>3. row'[r].status = "running" /\ \A s \in Runs : s # r => row'[s] = row[s]
    BY <2>2 DEF Known, TypeOK
  <2>4. AllPlaced'
    BY <1>0, <1>6, <2>3, PlacedGoto DEF DispatchSync, BeforeFlip
  <2>5. RequestFirst'
    BY <1>0, <1>1, <1>6 DEF DispatchSync, Goto, Known, TypeOK
  <2> HIDE DEF x
  <2> QED
    BY <2>1, <2>2, <2>4, <2>5, RowMoves
<1> QED
  BY <1>2, <1>3, <1>4, <1>5, <1>6 DEF RequestStep

LEMMA QueueMoves ==
  ASSUME Known, MovesInv, NEW r \in Runs, QueueStep(r)
  PROVE  StepKept
<1>1. CASE LeaseExpires(r) \/ DropJob(r)
  <2>1. RequestFirst'
    BY <1>1 DEF LeaseExpires, DropJob, MovesInv, RequestFirst, Known, TypeOK
  <2>2. AllPlaced'
    BY <1>1 DEF LeaseExpires, DropJob, MovesInv, AllPlaced, Placed, Active, RunOf
  <2> QED
    BY <1>1, <2>1, <2>2, RowsAlone DEF LeaseExpires, DropJob
<1>2. ASSUME NEW w \in Workers, Deliver(w, r) PROVE StepKept
  <2>1. w \in Procs /\ RunOf(w) = on[w]
    BY Parties
  <2>2. \A q \in Procs : q # w => pc'[q] = pc[q] /\ RunOf(q)' = RunOf(q)
    BY <1>2, Parties DEF Deliver, Goto, RunOf, Known, TypeOK
  <2>3. pc'[w] = "read"
    BY <1>2, <2>1 DEF Deliver, Goto, Known, TypeOK
  <2>4. Placed(w)'
    BY <2>3 DEF Placed, BeforeFlip, AfterFlip
  <2>5. AllPlaced'
    BY <1>2, <2>1, <2>2, <2>4, PlacedFrame DEF Deliver, MovesInv
  <2>6. RequestFirst'
    BY <1>2, <2>2, Parties DEF Deliver, MovesInv, RequestFirst
  <2> QED
    BY <1>2, <2>5, <2>6, RowsAlone DEF Deliver
<1> QED
  BY <1>1, <1>2 DEF QueueStep

\* A process that returns or dies, and one that moves on, without a write.
LEMMA QuietReturn ==
  ASSUME Known, MovesInv, NEW p \in Procs, Active(p), Return(p), UNCHANGED row
  PROVE  StepKept
<1>1. ~Active(p)' /\ \A q \in Procs \ {p} : pc'[q] = pc[q] /\ RunOf(q)' = RunOf(q)
  BY ReturnFrame DEF Known, Active
<1>2. AllPlaced'
  BY <1>1, PlacedReturn
<1> QED
  BY <1>2, FirstReturn, RowsAlone DEF MovesInv

LEMMA QuietGoto ==
  ASSUME Known, MovesInv, NEW p \in Procs, Active(p), NEW label, Goto(p, label),
         UNCHANGED <<row, on, job>>,
         label \in BeforeFlip => row[RunOf(p)].status = "queued",
         label \in AfterFlip => row[RunOf(p)].status = "running"
  PROVE  StepKept
<1>0. pc[p] # "idle" /\ pc[p] # "done" /\ row' = row /\ UNCHANGED on
  BY DEF Active
<1>1. AllPlaced'
  BY <1>0, PlacedGoto
<1>2. RequestFirst'
  BY DEF MovesInv, RequestFirst, Goto, Known, TypeOK, Active
<1> QED
  BY <1>1, <1>2, RowsAlone

\* A process that writes the row of its run and returns.
LEMMA WriteReturn ==
  ASSUME Known, MovesInv, NEW p \in Procs, Active(p), Return(p),
         NEW x \in Row, row' = [row EXCEPT ![RunOf(p)] = x],
         \/ row[RunOf(p)].status = "queued" /\ x.status = "failed" /\ Refusing(p)
         \/ row[RunOf(p)].status = "running" /\ x.status \in Terminal /\ x.finished
  PROVE  StepKept
<1>1. RunOf(p) \in Runs
  BY RunOfTyped DEF Known
<1>2. ~Active(p)' /\ \A q \in Procs \ {p} : pc'[q] = pc[q] /\ RunOf(q)' = RunOf(q)
  BY ReturnFrame DEF Known, Active
<1>3. \A r \in Runs : r # RunOf(p) => row'[r] = row[r]
  BY DEF Known, TypeOK
<1>4. AllPlaced'
  BY <1>2, <1>3, PlacedReturn
<1>5. RequestFirst'
  BY FirstReturn DEF MovesInv
<1> QED
  BY <1>1, <1>4, <1>5, RowMoves

LEMMA TaskMoves ==
  ASSUME Known, MovesInv, NEW w \in Workers, TaskStep(w)
  PROVE  StepKept
<1>0. /\ w \in Procs /\ Active(w) /\ RunOf(w) = on[w] /\ on[w] \in Runs
      /\ row[on[w]] \in Row
  <2>1. w \in Procs /\ RunOf(w) = on[w]
    BY Parties
  <2>2. Active(w)
    BY DEF TaskStep, ReadRun, MarkMissing, FlipToRunning, Validate, Active
  <2> QED
    BY <2>1, <2>2, RunOfTyped DEF Known, TypeOK
<1>1. CASE ReadRun(w)
  <2>1. CASE Return(w)
    BY <1>0, <1>1, <2>1, QuietReturn DEF ReadRun
  <2>2. CASE /\ row[on[w]].status = "queued" /\ UNCHANGED <<job, on>>
             /\ Goto(w, "flip") \/ Goto(w, "missing")
    <3>1. "flip" \notin AfterFlip /\ "missing" \notin AfterFlip
      BY DEF AfterFlip
    <3> QED
      BY <1>0, <1>1, <2>2, <3>1, QuietGoto DEF ReadRun
  <2> QED
    BY <1>1, <2>1, <2>2 DEF ReadRun
<1>2. CASE MarkMissing(w)
  <2>1. row[on[w]].status = "queued" /\ ~row[on[w]].finished
    BY <1>0, <1>2
    DEF MarkMissing, MovesInv, AllPlaced, Placed, BeforeFlip, OpenIsUnfinished, Terminal
  <2> DEFINE x == [row[on[w]] EXCEPT !.status = "failed", !.error = "missing_input_entity"]
  <2>2. x \in Row /\ x.status = "failed" /\ Refusing(w)
    BY <1>0, <1>2, <2>1 DEF Row, Statuses, Errors, MarkMissing, Refusing
  <2>3. row' = [row EXCEPT ![on[w]] = x] /\ Return(w)
    BY <1>0, <1>2 DEF MarkMissing, Known, TypeOK
  <2> HIDE DEF x
  <2> QED
    BY <1>0, <2>1, <2>2, <2>3, WriteReturn
<1>3. CASE FlipToRunning(w)
  <2>1. row[on[w]].status = "queued" /\ ~row[on[w]].finished
    BY <1>0, <1>3
    DEF FlipToRunning, MovesInv, AllPlaced, Placed, BeforeFlip, OpenIsUnfinished, Terminal
  <2> DEFINE x == [row[on[w]] EXCEPT !.status = "running"]
  <2>2. x \in Row /\ x.status = "running" /\ ~x.finished
    BY <1>0, <2>1 DEF Row, Statuses
  <2>3. row' = [row EXCEPT ![on[w]] = x]
    BY <1>0, <1>3 DEF FlipToRunning, Known, TypeOK
  <2> HIDE DEF x
  <2>4. row'[on[w]].status = "running" /\ \A s \in Runs : s # on[w] => row'[s] = row[s]
    BY <1>0, <2>2, <2>3 DEF Known, TypeOK
  <2>5. /\ pc[w] # "done" /\ pc[w] # "idle" /\ Goto(w, "check")
        /\ UNCHANGED on /\ UNCHANGED job /\ "check" \notin BeforeFlip
    BY <1>3 DEF FlipToRunning, BeforeFlip
  <2>6. AllPlaced'
    BY <1>0, <2>4, <2>5, PlacedGoto
  <2>7. RequestFirst'
    BY <1>0, <2>5, Parties DEF MovesInv, RequestFirst, Goto, Known, TypeOK
  <2> QED
    BY <1>0, <2>1, <2>2, <2>3, <2>6, <2>7, RowMoves
<1>4. CASE Validate(w)
  <2>1. CASE Return(w)
    BY <1>0, <1>4, <2>1, QuietReturn DEF Validate
  <2>2. CASE Goto(w, "query") /\ UNCHANGED <<job, on>>
    <3>1. row[on[w]].status = "running"
      BY <1>0, <1>4 DEF Validate, MovesInv, AllPlaced, Placed, AfterFlip
    <3>2. "query" \notin BeforeFlip
      BY DEF BeforeFlip
    <3> QED
      BY <1>0, <1>4, <2>2, <3>1, <3>2, QuietGoto DEF Validate
  <2> QED
    BY <1>4, <2>1, <2>2 DEF Validate
<1> QED
  BY <1>1, <1>2, <1>3, <1>4 DEF TaskStep

LEMMA RunnerMoves ==
  ASSUME Known, MovesInv, NEW p \in Procs, RunnerStep(p)
  PROVE  StepKept
<1>1. Active(p) /\ pc[p] \in AfterFlip
  BY DEF RunnerStep, Query, Persist, Finish, FinishFails, RecordFailure, Active, AfterFlip
<1>2. RunOf(p) \in Runs /\ row[RunOf(p)] \in Row /\ row[RunOf(p)].status = "running"
  BY <1>1, RunOfTyped DEF Known, TypeOK, MovesInv, AllPlaced, Placed
<1>3. CASE Query(p) \/ Persist(p) \/ FinishFails(p)
  <2>1. PICK label \in {"persist", "record", "finish", "dirty"} : Goto(p, label)
    BY <1>3 DEF Query, Persist, FinishFails
  <2>2. UNCHANGED <<row, on, job>> /\ label \notin BeforeFlip
    BY <1>3 DEF Query, Persist, FinishFails, BeforeFlip
  <2> QED
    BY <1>1, <1>2, <2>1, <2>2, QuietGoto
<1>4. CASE Finish(p)
  <2> DEFINE x == [row[RunOf(p)] EXCEPT !.status = "succeeded", !.finished = TRUE,
                                        !.counted = TRUE]
  <2>1. x \in Row /\ x.status \in Terminal /\ x.finished
    BY <1>2 DEF Row, Statuses, Terminal
  <2>2. row' = [row EXCEPT ![RunOf(p)] = x] /\ Return(p)
    BY <1>2, <1>4 DEF Finish, Known, TypeOK
  <2> HIDE DEF x
  <2> QED
    BY <1>1, <1>2, <2>1, <2>2, WriteReturn
<1>5. CASE RecordFailure(p)
  <2> DEFINE x == [row[RunOf(p)] EXCEPT !.status = "failed", !.finished = TRUE,
                                        !.error = "classified"]
  <2>1. x \in Row /\ x.status \in Terminal /\ x.finished
    BY <1>2 DEF Row, Statuses, Errors, Terminal
  <2>2. row' = [row EXCEPT ![RunOf(p)] = x] /\ Return(p)
    BY <1>2, <1>5 DEF RecordFailure, Known, TypeOK
  <2> HIDE DEF x
  <2> QED
    BY <1>1, <1>2, <2>1, <2>2, WriteReturn
<1> QED
  BY <1>3, <1>4, <1>5 DEF RunnerStep

\* A dead process leaves the row as it is, and its run to the next start.
LEMMA CrashMoves ==
  ASSUME Known, MovesInv, NEW p \in Procs, Crash(p)
  PROVE  StepKept
<1>1. ~Active(p)' /\ \A q \in Procs \ {p} : pc'[q] = pc[q] /\ RunOf(q)' = RunOf(q)
  BY Parties DEF Crash, Goto, RunOf, Active, Known, TypeOK
<1>2. Active(p) /\ UNCHANGED <<row, job>>
  BY DEF Crash
<1>3. AllPlaced'
  BY <1>1, <1>2, PlacedReturn
<1>4. \A r \in Runs : pc'[r] = pc[r] \/ pc'[r] = "done"
  BY Parties DEF Crash, Goto, Known, TypeOK
<1>5. RequestFirst'
  BY <1>2, <1>4 DEF MovesInv, RequestFirst
<1> QED
  BY <1>2, <1>3, <1>5, RowsAlone

\* Every step keeps the invariant, and is one move of one row or none.
LEMMA MovesStep == Deployed => (Known /\ MovesInv /\ [Next]_vars => StepKept)
<1> SUFFICES ASSUME Deployed, Known, MovesInv, [Next]_vars PROVE StepKept
  OBVIOUS
<1>1. ASSUME NEW r \in Runs, Age(r) PROVE StepKept
  <2>1. UNCHANGED <<row, job, pc, on>>
    BY <1>1 DEF Age
  <2> QED
    BY <2>1, RowsAlone DEF MovesInv, RequestFirst, AllPlaced, Placed, Active, RunOf
<1>2. ASSUME NEW w \in Workers, Timeout(w) PROVE StepKept
  BY <1>2, QuietReturn, Parties DEF Timeout
<1>3. ASSUME NEW p \in Procs, SessionLost(p) PROVE StepKept
  BY <1>3, QuietReturn DEF SessionLost
<1>4. CASE UNCHANGED vars
  <2>1. UNCHANGED <<row, job, pc, on>>
    BY <1>4 DEF vars
  <2> QED
    BY <2>1, RowsAlone DEF MovesInv, RequestFirst, AllPlaced, Placed, Active, RunOf
<1>5. ~SweepStuckRuns
  BY DEF Deployed, SweepStuckRuns
<1> QED
  BY <1>1, <1>2, <1>3, <1>4, <1>5, RequestMoves, QueueMoves, TaskMoves, RunnerMoves, CrashMoves
  DEF Next

\* The invariants of PluginRunProofs and the one of this module, from the start.
LEMMA MovesInit == Init => QueuedIsUntouched /\ JobHasRow /\ LeaseExcludes /\ AtMostOnce
                           /\ MovesInv /\ Audit!Init
<1> SUFFICES ASSUME Init PROVE QueuedIsUntouched /\ JobHasRow /\ LeaseExcludes /\ AtMostOnce
                               /\ MovesInv /\ Audit!Init
  OBVIOUS
<1>1. QueuedIsUntouched /\ JobHasRow
  BY ConstantsOK DEF Init, NoRow, QueuedIsUntouched, JobHasRow, Active, Procs
<1>2. LeaseExcludes /\ AtMostOnce
  BY DEF Init, LeaseExcludes, AtMostOnce
<1>3. MovesInv
  BY DEF Init, NoRow, MovesInv, RequestFirst, OpenIsUnfinished, AllPlaced, Placed, Active
<1>4. Audit!Init
  BY DEF Init, NoRow, AuditRow, Audit!Init, Audit!Unwritten
<1> QED
  BY <1>1, <1>2, <1>3, <1>4

LEMMA KnownStep == Deployed => (Known /\ [Next]_vars => QueuedIsUntouched' /\ JobHasRow'
                                                        /\ LeaseExcludes' /\ AtMostOnce')
  BY JobHasRowStep, QueuedStep, LeaseStep DEF Known, Deployed

(***************************************************************************)
(* Where a process is about to write the row of its run, the row still     *)
(* reads what the process read, and nobody else is at work on the run: the *)
(* UPDATEs of router.py, tasks.py and runner.py need no condition, as long *)
(* as leases and replies can be relied on and nothing sweeps.              *)
(***************************************************************************)
THEOREM NobodyOvertakes ==
  ASSUME Deployed
  PROVE  Spec => []InPlace
<1>1. Known /\ MovesInv => InPlace
  BY Alone DEF MovesInv, AllPlaced, Placed, InPlace, BeforeFlip, AfterFlip
<1>2. Known /\ MovesInv /\ [Next]_vars => MovesInv'
  BY MovesStep DEF StepKept
<1> QED
  BY <1>1, <1>2, MovesInit, KnownStep, TypeCorrect, PTL DEF Spec, Known

-----------------------------------------------------------------------------
(* The documented lifecycle                                                 *)

\* Every job is taken, and every input entity is still there.
NothingRefused == Faults \cap {"queue_down", "hard_delete"} = {}

NobodyRefuses == \A p \in Procs : ~Refusing(p)

LEMMA RefusesGoto ==
  ASSUME TypeOK, NobodyRefuses, NEW p \in Procs, NEW label, Goto(p, label),
         label \notin {"refuse", "missing"}
  PROVE  NobodyRefuses'
  BY DEF NobodyRefuses, Refusing, Goto, TypeOK

LEMMA RefusesReturn ==
  ASSUME TypeOK, NobodyRefuses, NEW p \in Procs, Return(p)
  PROVE  NobodyRefuses'
  BY RefusesGoto DEF Return

LEMMA RefusesStep ==
  ASSUME Deployed, NothingRefused, TypeOK, NobodyRefuses, [Next]_vars
  PROVE  NobodyRefuses'
<1>1. ASSUME NEW r \in Runs, RequestStep(r) PROVE NobodyRefuses'
  <2>1. ~EnqueueFails(r)
    BY DEF EnqueueFails, Hits, Deployed, NothingRefused
  <2>2. \E label \in {"enqueue", "done", "query"} : Goto(r, label)
    BY <1>1, <2>1 DEF RequestStep, DispatchAsync, Enqueue, RefuseRun, DispatchSync
  <2> QED
    BY <2>2, Parties, RefusesGoto
<1>2. ASSUME NEW r \in Runs, QueueStep(r) \/ Age(r) PROVE NobodyRefuses'
  <2>1. UNCHANGED pc \/ \E w \in Workers : Goto(w, "read")
    BY <1>2 DEF QueueStep, LeaseExpires, DropJob, Deliver, Age
  <2>2. CASE UNCHANGED pc
    BY <2>2 DEF NobodyRefuses, Refusing
  <2> QED
    BY <2>1, <2>2, Parties, RefusesGoto
<1>3. ASSUME NEW w \in Workers, TaskStep(w) \/ Timeout(w) PROVE NobodyRefuses'
  <2>1. Return(w) \/ \E label \in {"flip", "check", "query"} : Goto(w, label)
    BY <1>3
    DEF TaskStep, ReadRun, MarkMissing, FlipToRunning, Validate, Timeout, Hits, NothingRefused
  <2> QED
    BY <2>1, Parties, RefusesGoto, RefusesReturn
<1>4. ASSUME NEW p \in Procs, RunnerStep(p) \/ Crash(p) \/ SessionLost(p)
      PROVE  NobodyRefuses'
  <2>1. \/ Return(p)
        \/ \E label \in {"persist", "record", "finish", "dirty", "done", "idle"} : Goto(p, label)
    BY <1>4
    DEF RunnerStep, Query, Persist, Finish, FinishFails, RecordFailure, Crash, SessionLost
  <2> QED
    BY <2>1, RefusesGoto, RefusesReturn
<1>5. CASE UNCHANGED vars
  BY <1>5 DEF vars, NobodyRefuses, Refusing
<1>6. ~SweepStuckRuns
  BY DEF Deployed, SweepStuckRuns
<1> QED
  BY <1>1, <1>2, <1>3, <1>4, <1>5, <1>6 DEF Next

(***************************************************************************)
(* The row appears once, moves queued -> running -> succeeded | failed, is *)
(* finished by its last move and by no other, and stays as it is           *)
(* (models.py:16-17, docs/plugins.md:47-50): the safety part of            *)
(* RunLifecycle.  Processes may die at any point, tasks time out, commits  *)
(* fail and jobs be started again.  That the queue takes every job and the *)
(* input entity stays is needed: otherwise RefuseRun or MarkMissing fails  *)
(* a queued row, and leaves it unfinished.                                 *)
(***************************************************************************)
THEOREM RowKeepsItsMoves ==
  ASSUME Deployed, NothingRefused
  PROVE  Spec => MovesKept
<1>1. Known /\ MovesInv /\ NobodyRefuses /\ [Next]_vars =>
        MovesInv' /\ NobodyRefuses' /\ [Audit!Next]_AuditRow
  BY MovesStep, RefusesStep DEF StepKept, Known, NobodyRefuses
<1>2. Init => NobodyRefuses
  BY DEF Init, NobodyRefuses, Refusing
<1> QED
  BY <1>1, <1>2, MovesInit, KnownStep, TypeCorrect, PTL DEF Spec, Known, MovesKept, Audit!Moves
=============================================================================
