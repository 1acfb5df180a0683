------------------------------ MODULE PluginRun ------------------------------
(***************************************************************************)
(* The life of a plugin run: the POST handler that creates its audit row   *)
(* (plugins/router.py), the arq job that carries an asynchronous run to a  *)
(* worker (queue/), the runner that executes it and commits its results    *)
(* (plugins/runner.py), and the sweeper (plugins/sweeper.py).  They share  *)
(* the plugin_runs row and nothing else, and every ORM write to it is an   *)
(* UPDATE ... WHERE id = ..., whatever the row holds by then; only the     *)
(* sweeper's UPDATE is conditional on the status.                          *)
(*                                                                         *)
(* A step of this module is what happens up to and including one commit,   *)
(* or one await after which another process may have changed the row.      *)
(***************************************************************************)
EXTENDS Naturals

CONSTANTS
  Runs,        \* plugin runs; a run also names the HTTP request that creates it
  Workers,     \* task slots of the arq workers (WorkerSettings.max_jobs each)
  NoRun,       \* what an idle worker works on
  Rejected,    \* runs the runner refuses before its try block: the plugin does
               \* not accept the entity type, or is premium and unlicensed
  MaxTries,    \* arq's max_tries: how often a stored job is started
  SweeperWired,\* whether something calls sweep_stuck_runs periodically
  Faults,      \* the faults that may occur
  Exposed      \* the runs that they may hit

FaultNames == {"crash", "timeout", "db", "queue_down", "lost_reply", "stalled_lease",
               "hard_delete"}

ASSUME ConstantsOK ==
  /\ Runs \cap Workers = {}
  /\ NoRun \notin Runs
  /\ Rejected \subseteq Runs
  /\ MaxTries \in Nat
  /\ SweeperWired \in BOOLEAN
  /\ Faults \subseteq FaultNames
  /\ Exposed \subseteq Runs

VARIABLES
  row,         \* the plugin_runs table
  results,     \* the entities, relationships and evidence committed for a run
  stale,       \* started_at lies more than the sweeper's threshold in the past
  job,         \* the arq job of a run, in Redis
  lease,       \* arq's in-progress key of a job
  tries,       \* how often the job was started
  pc,          \* where each request and each worker is
  on,          \* the run each worker works on
  executions   \* history: how often the runner began to execute a run (the
               \* plugin is called unless its credential is missing)

vars == <<row, results, stale, job, lease, tries, pc, on, executions>>

Procs == Runs \cup Workers
RunOf(p) == IF p \in Runs THEN p ELSE on[p]

\* The fault may hit the run.
Hits(fault, r) == fault \in Faults /\ r \in Exposed

Statuses == {"absent", "queued", "running", "succeeded", "failed"}
Terminal == {"succeeded", "failed"}
Errors == {"none", "enqueue_failed", "missing_input_entity", "classified", "swept"}
Row == [status: Statuses, finished: BOOLEAN, error: Errors, counted: BOOLEAN]
NoRow == [status |-> "absent", finished |-> FALSE, error |-> "none", counted |-> FALSE]

\* "dirty" is the failure handler with part of the results still in the session.
PCs == {"idle", "enqueue", "refuse", "read", "missing", "flip", "check",
        "query", "persist", "finish", "record", "dirty", "done"}

TypeOK ==
  /\ row \in [Runs -> Row]
  /\ results \in [Runs -> {"none", "partial", "full"}]
  /\ stale \in [Runs -> BOOLEAN]
  /\ job \in [Runs -> {"none", "stored", "done"}]
  /\ lease \in [Runs -> BOOLEAN]
  /\ tries \in [Runs -> 0..MaxTries]
  /\ pc \in [Procs -> PCs]
  /\ on \in [Workers -> Runs \cup {NoRun}]
  /\ \A w \in Workers : on[w] = NoRun <=> pc[w] = "idle"
  /\ executions \in [Runs -> Nat]

Init ==
  /\ row = [r \in Runs |-> NoRow]
  /\ results = [r \in Runs |-> "none"]
  /\ stale = [r \in Runs |-> FALSE]
  /\ job = [r \in Runs |-> "none"]
  /\ lease = [r \in Runs |-> FALSE]
  /\ tries = [r \in Runs |-> 0]
  /\ pc = [p \in Procs |-> "idle"]
  /\ on = [w \in Workers |-> NoRun]
  /\ executions = [r \in Runs |-> 0]

Goto(p, label) == pc' = [pc EXCEPT ![p] = label]

(***************************************************************************)
(* A process is done with its run.  A request has answered its client.  A  *)
(* worker's task has returned or raised, and arq deletes the job with its  *)
(* in-progress key: it starts a job again only if the worker died.         *)
(***************************************************************************)
Return(p) ==
  IF p \in Runs
  THEN Goto(p, "done") /\ UNCHANGED <<job, lease, on>>
  ELSE /\ Goto(p, "idle")
       /\ on' = [on EXCEPT ![p] = NoRun]
       /\ job' = [job EXCEPT ![on[p]] = "done"]
       /\ lease' = [lease EXCEPT ![on[p]] = FALSE]

-----------------------------------------------------------------------------
(* The POST handler.  Ownership, entity and plugin lookups refuse the       *)
(* request before there is a row, so they are not steps.                    *)

DispatchAsync(r) ==
  /\ pc[r] = "idle"
  /\ row' = [row EXCEPT ![r].status = "queued"]
  /\ Goto(r, "enqueue")
  /\ UNCHANGED <<results, stale, job, lease, tries, on, executions>>

Enqueue(r) ==
  /\ pc[r] = "enqueue"
  /\ job' = [job EXCEPT ![r] = "stored"]
  /\ Goto(r, "done")
  /\ UNCHANGED <<row, results, stale, lease, tries, on, executions>>

\* enqueue_job raises.  When only its reply is lost, the job is stored.
EnqueueFails(r) ==
  /\ pc[r] = "enqueue"
  /\ \/ Hits("queue_down", r) /\ UNCHANGED job
     \/ Hits("lost_reply", r) /\ job' = [job EXCEPT ![r] = "stored"]
  /\ Goto(r, "refuse")
  /\ UNCHANGED <<row, results, stale, lease, tries, on, executions>>

\* Mutation of RefuseRun: a status outside the documented vocabulary.
RefuseRunAsError(r) ==
  /\ pc[r] = "refuse"
  /\ row' = [row EXCEPT ![r].status = "error", ![r].error = "enqueue_failed"]
  /\ Goto(r, "done")
  /\ UNCHANGED <<results, stale, job, lease, tries, on, executions>>

\* The handler's except branch; finished_at stays NULL.
RefuseRun(r) ==
  /\ pc[r] = "refuse"
  /\ row' = [row EXCEPT ![r].status = "failed", ![r].error = "enqueue_failed"]
  /\ Goto(r, "done")
  /\ UNCHANGED <<results, stale, job, lease, tries, on, executions>>

\* The synchronous path: the runner validates, then commits a running row.
DispatchSync(r) ==
  /\ pc[r] = "idle"
  /\ r \notin Rejected
  /\ row' = [row EXCEPT ![r].status = "running"]
  /\ Goto(r, "query")
  /\ executions' = [executions EXCEPT ![r] = @ + 1]
  /\ UNCHANGED <<results, stale, job, lease, tries, on>>

-----------------------------------------------------------------------------
(* arq: a job is started again when its worker died before it returned.     *)

\* Past this point a worker holds no key that keeps another worker away.
LeaseExpires(r) ==
  /\ lease[r]
  /\ (\A w \in Workers : on[w] # r) \/ Hits("stalled_lease", r)
  /\ lease' = [lease EXCEPT ![r] = FALSE]
  /\ UNCHANGED <<row, results, stale, job, tries, pc, on, executions>>

Deliver(w, r) ==
  /\ pc[w] = "idle"
  /\ job[r] = "stored" /\ ~lease[r] /\ tries[r] < MaxTries
  /\ lease' = [lease EXCEPT ![r] = TRUE]
  /\ tries' = [tries EXCEPT ![r] = @ + 1]
  /\ on' = [on EXCEPT ![w] = r]
  /\ Goto(w, "read")
  /\ UNCHANGED <<row, results, stale, job, executions>>

\* arq drops a job it has started max_tries times, without calling the task.
DropJob(r) ==
  /\ job[r] = "stored" /\ ~lease[r] /\ tries[r] = MaxTries
  /\ job' = [job EXCEPT ![r] = "done"]
  /\ UNCHANGED <<row, results, stale, lease, tries, pc, on, executions>>

-----------------------------------------------------------------------------
(* run_plugin_task                                                          *)

\* Mutation of ReadRun: no early return for a row that has left "queued".
ReadRunUnchecked(w) ==
  /\ pc[w] = "read"
  /\ Goto(w, "flip")
  /\ UNCHANGED <<row, results, stale, job, lease, tries, on, executions>>

\* session.get without a lock, the early return, and the input entity's lookup.
ReadRun(w) ==
  /\ pc[w] = "read"
  /\ \/ /\ row[on[w]].status # "queued"
        /\ Return(w)
     \/ /\ row[on[w]].status = "queued"
        /\ \/ Goto(w, "flip")
           \/ Hits("hard_delete", on[w]) /\ Goto(w, "missing")
        /\ UNCHANGED <<job, lease, on>>
  /\ UNCHANGED <<row, results, stale, tries, executions>>

MarkMissing(w) ==
  /\ pc[w] = "missing"
  /\ row' = [row EXCEPT ![on[w]].status = "failed", ![on[w]].error = "missing_input_entity"]
  /\ Return(w)
  /\ UNCHANGED <<results, stale, tries, executions>>

\* Mutation of FlipToRunning: hand the run over before its status is committed.
FlipForgotten(w) ==
  /\ pc[w] = "flip"
  /\ Goto(w, "check")
  /\ UNCHANGED <<row, results, stale, job, lease, tries, on, executions>>

FlipToRunning(w) ==
  /\ pc[w] = "flip"
  /\ row' = [row EXCEPT ![on[w]].status = "running"]
  /\ Goto(w, "check")
  /\ UNCHANGED <<results, stale, job, lease, tries, on, executions>>

\* PluginRunner.run with existing_run: validation comes before its try block,
\* and the task's own except clause returns without touching the row.
Validate(w) ==
  /\ pc[w] = "check"
  /\ \/ /\ on[w] \in Rejected
        /\ Return(w)
        /\ UNCHANGED executions
     \/ /\ on[w] \notin Rejected
        /\ Goto(w, "query")
        /\ executions' = [executions EXCEPT ![on[w]] = @ + 1]
        /\ UNCHANGED <<job, lease, on>>
  /\ UNCHANGED <<row, results, stale, tries>>

-----------------------------------------------------------------------------
(* PluginRunner, in a worker's task or in a synchronous request             *)

\* Credentials, plugin.query and the proposal cap: no row is written.
Query(p) ==
  /\ pc[p] = "query"
  /\ \/ Goto(p, "persist")
     \/ Goto(p, "record")
  /\ UNCHANGED <<row, results, stale, job, lease, tries, on, executions>>

\* Mutation of Persist: log the exception of one proposal and carry on.
PersistSwallowing(p) ==
  /\ pc[p] = "persist"
  /\ Goto(p, "finish")
  /\ \/ results' = [results EXCEPT ![RunOf(p)] = "full"]
     \/ UNCHANGED results
  /\ UNCHANGED <<row, stale, job, lease, tries, on, executions>>

\* _persist: its single commit, or an exception.  The repositories roll back
\* when the graph mirror or the blob store fails; any other exception (an
\* endpoint no longer in the case, an unknown ref, an invalid label) leaves
\* the rows flushed so far in the session.
Persist(p) ==
  /\ pc[p] = "persist"
  /\ \/ /\ results' = [results EXCEPT ![RunOf(p)] = "full"]
        /\ Goto(p, "finish")
     \/ /\ \/ Goto(p, "record")
           \/ Goto(p, "dirty")
        /\ UNCHANGED results
  /\ UNCHANGED <<row, stale, job, lease, tries, on, executions>>

\* The second commit of _execute_plugin; it does not clear error_message.
Finish(p) ==
  /\ pc[p] = "finish"
  /\ row' = [row EXCEPT ![RunOf(p)].status = "succeeded", ![RunOf(p)].finished = TRUE,
                        ![RunOf(p)].counted = TRUE]
  /\ Return(p)
  /\ UNCHANGED <<results, stale, tries, executions>>

\* Its COMMIT fails and rolls the session back, which the except branch can use.
FinishFails(p) ==
  /\ pc[p] = "finish"
  /\ Hits("db", RunOf(p))
  /\ Goto(p, "record")
  /\ UNCHANGED <<row, results, stale, job, lease, tries, on, executions>>

\* Mutation of RecordFailure: end the failed run without a commit of its row.
RecordFailureLost(p) ==
  /\ pc[p] \in {"record", "dirty"}
  /\ Return(p)
  /\ UNCHANGED <<row, results, stale, tries, executions>>

\* The runner's except branch: it commits whatever the session still holds.
RecordFailure(p) ==
  /\ pc[p] \in {"record", "dirty"}
  /\ row' = [row EXCEPT ![RunOf(p)].status = "failed", ![RunOf(p)].finished = TRUE,
                        ![RunOf(p)].error = "classified"]
  /\ results' = IF pc[p] = "dirty" /\ results[RunOf(p)] = "none"
                THEN [results EXCEPT ![RunOf(p)] = "partial"] ELSE results
  /\ Return(p)
  /\ UNCHANGED <<stale, tries, executions>>

-----------------------------------------------------------------------------
(* Faults                                                                   *)

Active(p) == pc[p] \notin {"idle", "done"}

\* The process dies, or the worker shuts down and cancels its task: the open
\* transaction is lost, the job stays stored and its key is left to expire.
Crash(p) ==
  /\ Active(p) /\ Hits("crash", RunOf(p))
  /\ IF p \in Runs THEN Goto(p, "done") /\ UNCHANGED on
                   ELSE Goto(p, "idle") /\ on' = [on EXCEPT ![p] = NoRun]
  /\ UNCHANGED <<row, results, stale, job, lease, tries, executions>>

\* job_timeout: CancelledError passes every "except Exception" on its way out.
Timeout(w) ==
  /\ Active(w) /\ Hits("timeout", on[w])
  /\ Return(w)
  /\ UNCHANGED <<row, results, stale, tries, executions>>

\* A statement of the step fails and with it the transaction.  The task or the
\* handler raises; in the runner the session stays unusable, so the commit of
\* the except branch fails too and that second exception is swallowed.
SessionLost(p) ==
  /\ Active(p) /\ Hits("db", RunOf(p)) /\ pc[p] # "check"
  /\ Return(p)
  /\ UNCHANGED <<row, results, stale, tries, executions>>

-----------------------------------------------------------------------------
(* Time and the sweeper                                                     *)

\* started_at is set when the row is inserted, so a run also ages in the queue.
Age(r) ==
  /\ row[r].status # "absent" /\ ~stale[r]
  /\ stale' = [stale EXCEPT ![r] = TRUE]
  /\ UNCHANGED <<row, results, job, lease, tries, pc, on, executions>>

\* Mutation of Stuck: sweep by age alone.
StuckByAge(r) == row[r].status # "absent" /\ stale[r]

Stuck(r) == row[r].status \in {"queued", "running"} /\ stale[r]

\* One conditional UPDATE over the whole table.
SweepStuckRuns ==
  /\ SweeperWired
  /\ \E r \in Runs : Stuck(r)
  /\ row' = [r \in Runs |->
               IF Stuck(r)
               THEN [row[r] EXCEPT !.status = "failed", !.finished = TRUE, !.error = "swept"]
               ELSE row[r]]
  /\ UNCHANGED <<results, stale, job, lease, tries, pc, on, executions>>

-----------------------------------------------------------------------------
RequestStep(r) ==
  \/ DispatchAsync(r) \/ Enqueue(r) \/ EnqueueFails(r) \/ RefuseRun(r) \/ DispatchSync(r)

TaskStep(w) == ReadRun(w) \/ MarkMissing(w) \/ FlipToRunning(w) \/ Validate(w)

RunnerStep(p) ==
  Query(p) \/ Persist(p) \/ Finish(p) \/ FinishFails(p) \/ RecordFailure(p)

QueueStep(r) == LeaseExpires(r) \/ DropJob(r) \/ \E w \in Workers : Deliver(w, r)

Next ==
  \/ \E r \in Runs : RequestStep(r) \/ QueueStep(r) \/ Age(r)
  \/ \E w \in Workers : TaskStep(w) \/ Timeout(w)
  \/ \E p \in Procs : RunnerStep(p) \/ Crash(p) \/ SessionLost(p)
  \/ SweepStuckRuns

Spec == Init /\ [][Next]_vars

(***************************************************************************)
(* The fairness of the code as it is deployed, with no sweeper: a live     *)
(* handler, task or runner goes on (every await has a timeout), and an     *)
(* idle worker takes a stored job.  Nobody has to send a request.          *)
(***************************************************************************)
DeployedSpec ==
  /\ Spec
  /\ \A r \in Runs : /\ WF_vars(Enqueue(r) \/ EnqueueFails(r) \/ RefuseRun(r))
                      /\ WF_vars(\E w \in Workers : Deliver(w, r))
  /\ \A w \in Workers : WF_vars(TaskStep(w))
  /\ \A p \in Procs : WF_vars(RunnerStep(p))

-----------------------------------------------------------------------------
(* Properties                                                               *)

\* A row that reads succeeded is finished and carries its counts, and counts
\* are only ever written for results that are all committed: the two commits
\* of a successful run (runner.py, _persist and _execute_plugin) keep their
\* order, whatever fails, overtakes or repeats between them.
SucceededIsBacked ==
  \A r \in Runs :
    /\ row[r].status = "succeeded" => row[r].finished /\ row[r].counted
    /\ row[r].counted => results[r] = "full"

\* A process about to report success has committed the results it reports.
FinishIsBacked == \A p \in Procs : pc[p] = "finish" => results[RunOf(p)] = "full"

\* While a client polls "queued", nothing has been done for the run: no plugin
\* was called, nothing was committed, and no process is past the flip.  A run
\* swept or refused while it waits never comes back to "queued".
QueuedIsUntouched ==
  \A r \in Runs :
    row[r].status \in {"absent", "queued"} =>
      /\ results[r] = "none" /\ executions[r] = 0 /\ ~row[r].finished
      /\ \A p \in Procs : RunOf(p) = r /\ Active(p) =>
                            pc[p] \in {"enqueue", "refuse", "read", "missing", "flip"}

\* The order in which a request, its row, its job and its workers come to be.
JobHasRow ==
  \A r \in Runs :
    /\ pc[r] = "idle" <=> row[r].status = "absent"
    /\ row[r].status = "absent" => job[r] = "none"
    /\ job[r] = "none" => \A w \in Workers : on[w] # r

\* Nobody who is working on the run has gone past its first read of the row.
Settled(r) ==
  /\ row[r].status \in Terminal
  /\ \A p \in Procs : RunOf(p) = r /\ Active(p) => pc[p] = "read"

\* Once a run is terminal and nobody is past reading its row, that is for good:
\* no redelivery, sweep, crash or late timeout changes the row, commits results
\* or calls the plugin again (the early return of tasks.py and the sweeper's
\* WHERE clause).
SettledStays ==
  [][\A r \in Runs : Settled(r) =>
       /\ Settled(r)'
       /\ <<row[r], results[r], executions[r]>>' = <<row[r], results[r], executions[r]>>]_vars

\* The task is idempotent, as its docstring says: however often arq starts the
\* job, the plugin is called at most once.
AtMostOnce == \A r \in Runs : executions[r] <= 1

\* While a worker holds a job, its lease keeps every other worker away, and
\* until its task hands the run over nobody has called the plugin.
LeaseExcludes ==
  \A w \in Workers : on[w] # NoRun =>
    /\ lease[on[w]] /\ job[on[w]] = "stored"
    /\ \A v \in Workers : on[v] = on[w] => v = w
    /\ pc[w] \in {"missing", "flip", "check"} => executions[on[w]] = 0

\* models.py: the row is "updated ONCE with final status ... No further mutation".
\* Stated of runs that went through the queue, where they may wait for as long
\* as the sweeper takes for a sign that they are stuck.
TerminalIsFinal ==
  [][\A r \in Runs : job[r] # "none" /\ row[r].status \in Terminal => row'[r] = row[r]]_vars

\* docs/plugins.md: the client polls until the status moves queued -> running
\* -> succeeded | failed.  When the job is over, nobody is left to move it.
FinishedJobIsTerminal == \A r \in Runs : job[r] = "done" => row[r].status \in Terminal

\* Every write of a row is an UPDATE by id that does not look at the row again.
\* Still nobody overtakes anybody: where a process is about to write, the row
\* reads what it read or wrote itself before, because nobody else is at work on
\* the run.  (Under the conditions of MovesKept.)
InPlace ==
  \A p \in Procs : Active(p) =>
    /\ pc[p] \in {"enqueue", "refuse", "missing", "flip"} => row[RunOf(p)].status = "queued"
    /\ pc[p] \in {"check", "query", "persist", "finish", "record", "dirty"} =>
         row[RunOf(p)].status = "running"
    /\ \A q \in Procs : Active(q) /\ RunOf(q) = RunOf(p) => q = p

\* The audit row as its readers see it.
AuditRow == [r \in Runs |-> [status |-> row[r].status, finished |-> row[r].finished]]
Audit == INSTANCE RunLifecycle WITH audit <- AuditRow

\* The row makes no other moves than the documented ones of RunLifecycle, and is
\* finished by the last of them, although processes die, tasks time out, commits
\* fail and jobs are started again.  What it needs is that a lease outlasts its
\* worker, that the queue takes every job and loses no reply, that the input
\* entity is not hard-deleted, and no sweeper.
MovesKept == Audit!Moves

\* The runs that no fault hits and that their plugin accepts.
Undisturbed == Runs \ (Exposed \cup Rejected)
UndisturbedAudit == INSTANCE RunLifecycle
  WITH Runs <- Undisturbed, audit <- [r \in Undisturbed |-> AuditRow[r]]

\* Without a sweeper, their rows implement the documented lifecycle, liveness
\* included, whatever befalls the runs that they share the workers with.
LifecycleKept == UndisturbedAudit!Spec
=============================================================================
