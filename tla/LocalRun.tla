------------------------------ MODULE LocalRun ------------------------------
(***************************************************************************)
(* Runs of jobs on a local site (orchestrator/sites/local/site.py): the    *)
(* submission that plans the tasks and hands them to Dask, the handle that *)
(* polls them, starts the postprocess step and the packing step, and the   *)
(* publication of the run state.  Runs share the site's Dask client, its   *)
(* futures and, when they are of the same job, the job file, the committed *)
(* task results and the run-state file.                                    *)
(*                                                                         *)
(* Dask is external and modelled from how the site uses it: futures of the *)
(* same function and arguments share one execution as long as one of them  *)
(* is held, cancelling goes by key, and cancelling a task that has started *)
(* does not stop its solver process.                                       *)
(***************************************************************************)
EXTENDS Naturals, FiniteSets

CONSTANTS
  Runs,        \* handles, numbered in the order of their submission
  Jobs,        \* jobs they may be of
  Tasks,       \* frequency tasks of a job
  PostJobs,    \* jobs whose tasks need one solver postprocess step
  PackJobs,    \* jobs whose traces are packed after the tasks
  Tolerances,  \* values of tolerate_failures a submission may choose
  Shutdowns,   \* values of shutdown_on_completion a submission may choose
  Forces,      \* values of force_run a submission may choose
  Interrupts,  \* what may happen to a run: "cancel", "timeout", "watch", "lost"
  MaxVersion,  \* bound: contents of a job file are 0 .. MaxVersion
  None

ASSUME LocalAssumption ==
  /\ Runs \subseteq Nat /\ IsFiniteSet(Tasks)
  /\ Tasks \cap {"mesh", "post", "pack"} = {}
  /\ None \notin Runs /\ None \notin Jobs
  /\ None \notin {"completed", "failed", "timeout", "skipped", "raised", "running", "bad"}
  /\ PostJobs \subseteq Jobs /\ PackJobs \subseteq Jobs
  /\ Tolerances \subseteq Nat /\ MaxVersion \in Nat
  /\ Shutdowns \subseteq BOOLEAN /\ Forces \subseteq BOOLEAN

VARIABLES
  file,     \* file[j]: content of the job file
  shard,    \* shard[j][t]: content the output of the task is of, and whether
            \* its committed result is a success
  product,  \* product[j]: task outputs the postprocess product is made of
  newer,    \* newer[j]: a task output is younger than the product
  record,   \* record[j]: status in the run-state file, and the run it is of
  client,   \* the site has a Dask client
  key,      \* key[q]: run whose execution Dask knows under key q
  ex,       \* ex[r][k]: the execution r's submission of step k created
  held,     \* futures not yet released
  run       \* the handles

disk == <<file, shard, product, newer, record>>
dask == <<client, key, ex, held>>
vars == <<disk, dask, run>>

Steps == Tasks \cup {"mesh", "post", "pack"}
Keys == Jobs \X Steps \X BOOLEAN
\* Mutant of Over: a running future counts as one that has ended.
RunningIsOver == {"done", "error", "cancelled", "running"}
Over == {"done", "error", "cancelled"}

NoExecution == [state |-> "none", solver |-> FALSE, read |-> None, ok |-> FALSE]
NoRun == [job |-> None, pc |-> "idle", result |-> None, polled |-> None, cancelled |-> FALSE,
          fresh |-> FALSE, shutdown |-> FALSE, tolerance |-> 0,
          postOnly |-> FALSE, version |-> 0,
          pending |-> {}, future |-> [k \in Steps |-> None],
          errors |-> FALSE, failed |-> 0, smooth |-> None]

-----------------------------------------------------------------------------
(* The disk: which outputs are current.                                    *)

Job(r) == run[r].job
\* Mutant of Post: a product of any age does.
PostOnce(r) == Job(r) \in PostJobs /\ product[Job(r)] = None
Post(r) == Job(r) \in PostJobs

CurrentTask(j, t, v) == shard[j][t] = [part |-> v, ok |-> TRUE]
PartsExist(j) == \A t \in Tasks : shard[j][t].part # None
NeedsPost(j) ==
  j \in PostJobs /\ PartsExist(j) /\ (product[j] = None \/ newer[j])
IsRunCurrent(j, v) ==
  /\ \A t \in Tasks : CurrentTask(j, t, v)
  /\ j \in PostJobs => product[j] # None

\* Mutant of Publish: the status of the last poll is written.
PublishPolled(r, j, status) ==
  record' = [record EXCEPT ![j] = [status |-> run[r].polled, by |-> r]]
Publish(r, j, status) ==
  record' = [record EXCEPT ![j] = [status |-> status, by |-> r]]

-----------------------------------------------------------------------------
(* Dask: keys, futures, executions.                                        *)

\* Packing is always submitted as a fresh step.
KeyOf(r, k) == <<Job(r), k, run[r].fresh \/ k = "pack">>
TaskFutures(r) == {t \in Tasks : run[r].future[t] # None}
Submitted(r) == {k \in Steps : run[r].future[k] # None}
Execution(r, k) == ex[run[r].future[k]][k]
Terminal(r, K) == \A k \in K : Execution(r, k).state \in Over
Unreadable(r, K) == \E k \in K : Execution(r, k).state \in {"error", "cancelled"}
Succeeded(r, k) == Execution(r, k).state = "done" /\ Execution(r, k).ok
Failed(r, k) == Execution(r, k).state = "done" /\ ~Execution(r, k).ok

\* r, as h from now on, submits the steps K: an execution Dask still knows under
\* the key is shared, otherwise one is created.  The mesh future is released.
SubmitFutures(r, h, K) ==
  LET q(k) == <<h.job, k, h.fresh \/ k = "pack">>
      new == {k \in K : key[q(k)] = None}
  IN /\ key' = [p \in Keys |->
                  IF \E k \in new : p = q(k) THEN r
                  ELSE IF p = q("mesh") /\ <<r, "mesh">> \in held THEN None
                  ELSE key[p]]
     /\ ex' = [ex EXCEPT ![r] = [k \in Steps |->
                 IF k \in new THEN [NoExecution EXCEPT !.state = "queued"] ELSE @[k]]]
     /\ held' = (held \ {<<r, "mesh">>}) \cup {<<r, k>> : k \in K}
     /\ client' = TRUE
     /\ run' = [run EXCEPT ![r] = [h EXCEPT !.future = [k \in Steps |->
                 IF k \in new THEN r ELSE IF k \in K THEN key[q(k)] ELSE @[k]]]]

\* _cancel_futures, which goes by key and leaves a started solver running, then
\* _release_futures, which makes Dask forget what nobody holds any more.
DropFutures(r, cancel, release) ==
  LET gone == {KeyOf(r, k) : k \in cancel}
      left == held \ {<<r, k>> : k \in release}
      wanted(q) == \E h \in left : /\ KeyOf(h[1], h[2]) = q
                                   /\ run[h[1]].future[h[2]] = key[q]
  IN /\ ex' = [s \in Runs |-> [k \in Steps |->
                [ex[s][k] EXCEPT !.state =
                   IF \E q \in gone : q[2] = k /\ key[q] = s THEN "cancelled" ELSE @]]]
     /\ key' = [q \in Keys |-> IF q \notin gone /\ wanted(q) THEN key[q] ELSE None]
     /\ held' = left
     /\ UNCHANGED client

\* close(): the executions of every run are cancelled and the workers die; the
\* solvers they started may outlive them.
CloseClient ==
  \E orphans \in SUBSET {p \in Runs \X Steps : ex[p[1]][p[2]].solver} :
    /\ ex' = [s \in Runs |-> [k \in Steps |->
                [ex[s][k] EXCEPT
                   !.state = IF \E q \in Keys : key[q] = s /\ q[2] = k
                               THEN "cancelled" ELSE @,
                   !.solver = <<s, k>> \in orphans]]]
    /\ key' = [q \in Keys |-> None]
    /\ held' = {}
    /\ client' = FALSE

\* Mutant of LetGo: the client is closed whatever the run was submitted with.
LetGoAndClose(r, cancel, release) == CloseClient

\* How a handle lets go: it cancels and releases, and closes the client if the
\* run was submitted with shutdown_on_completion.
LetGo(r, cancel, release) ==
  IF run[r].shutdown THEN CloseClient ELSE DropFutures(r, cancel, release)

End(r, state) == run' = [run EXCEPT ![r].pc = "over", ![r].result = state]

-----------------------------------------------------------------------------
(* Submission                                                              *)

\* One caller submits; a job is submitted again once its last run has ended or
\* was cancelled ("concurrent runs writing the same job's ... files" are not
\* supported).  The job is saved first: its file has the content v.
MaySubmit(r, j, v) ==
  /\ run[r].pc = "idle"
  /\ \A q \in Runs : q < r =>
       /\ run[q].pc \notin {"idle", "mesh"}
       /\ Job(q) = j => run[q].result # None \/ run[q].cancelled
  /\ v \in file[j] .. MaxVersion /\ v <= file[j] + 1

Skip(r, h) ==
  /\ Publish(r, h.job, "skipped")
  /\ run' = [run EXCEPT ![r] = [h EXCEPT !.pc = "over", !.result = "skipped"]]
  /\ UNCHANGED dask

\* submit: skip a current run; plan; run only the postprocess step when every
\* task is current; else start the mesh task.
Submit(r, j, v, fresh, shutdown, tolerance) ==
  LET h == [NoRun EXCEPT !.job = j, !.fresh = fresh, !.shutdown = shutdown,
                         !.tolerance = tolerance, !.version = v]
      pending == {t \in Tasks : fresh \/ ~CurrentTask(j, t, v)}
      partial == [record EXCEPT ![j] = [status |-> "partial", by |-> r]]
  IN /\ MaySubmit(r, j, v)
     /\ file' = [file EXCEPT ![j] = v]
     /\ UNCHANGED <<shard, product, newer>>
     /\ \/ ~fresh /\ IsRunCurrent(j, v) /\ Skip(r, h)
        \/ /\ fresh \/ ~IsRunCurrent(j, v)
           /\ record' = IF pending = Tasks THEN record ELSE partial
           /\ IF pending = {}
                THEN /\ run' = [run EXCEPT ![r] =
                                  [h EXCEPT !.pc = "active", !.postOnly = TRUE]]
                     /\ UNCHANGED dask
                ELSE SubmitFutures(r, [h EXCEPT !.pc = "mesh", !.pending = pending],
                                   {"mesh"})

\* submit(postprocess_only=True): no task is planned.
SubmitPostprocess(r, j, v, fresh, shutdown) ==
  LET h == [NoRun EXCEPT !.job = j, !.fresh = fresh, !.shutdown = shutdown, !.version = v,
                         !.postOnly = TRUE]
  IN /\ MaySubmit(r, j, v)
     /\ j \in PostJobs /\ PartsExist(j)
     /\ file' = [file EXCEPT ![j] = v]
     /\ UNCHANGED <<shard, product, newer>>
     /\ \/ ~fresh /\ ~NeedsPost(j) /\ Skip(r, h)
        \/ /\ fresh \/ NeedsPost(j)
           /\ run' = [run EXCEPT ![r] = [h EXCEPT !.pc = "active"]]
           /\ UNCHANGED <<record, dask>>

\* The mesh task has ended: the pending tasks are submitted.
SubmitTasks(r) ==
  /\ run[r].pc = "mesh"
  /\ Succeeded(r, "mesh")
  /\ SubmitFutures(r, [run[r] EXCEPT !.pc = "active"], run[r].pending)
  /\ UNCHANGED disk

\* Mutant of MeshFailed: a mesh future that was cancelled raises nothing.
MeshFailedByResult(r) ==
  /\ run[r].pc = "mesh" /\ Failed(r, "mesh")
  /\ Publish(r, Job(r), "failed")
  /\ LetGo(r, {}, {"mesh"})
  /\ End(r, "raised")
  /\ UNCHANGED <<file, shard, product, newer>>

\* The mesh task failed, or its future was cancelled: submit raises.
MeshFailed(r) ==
  /\ run[r].pc = "mesh"
  /\ Failed(r, "mesh") \/ Unreadable(r, {"mesh"})
  /\ IF Failed(r, "mesh") THEN Publish(r, Job(r), "failed") ELSE UNCHANGED record
  /\ LetGo(r, {}, {"mesh"})
  /\ End(r, "raised")
  /\ UNCHANGED <<file, shard, product, newer>>

-----------------------------------------------------------------------------
(* Polling and the end of a run                                            *)

Waiting(r) == run[r].pc = "active" /\ run[r].polled \notin {"completed", "failed"}
Polled(r, h) == run' = [run EXCEPT ![r] = h] /\ UNCHANGED <<disk, dask>>

\* _poll_local_run.  The postprocess step is submitted once, when every task
\* future is terminal and readable.
Poll(r) ==
  LET T == TaskFutures(r)
      h == [run[r] EXCEPT !.errors = Unreadable(r, T),
                          !.failed = Cardinality({t \in T : Failed(r, t)})]
  IN /\ Waiting(r)
     /\ \/ /\ ~Terminal(r, T)
           /\ Polled(r, [run[r] EXCEPT !.polled = "running"])
        \/ /\ Terminal(r, T) /\ (Unreadable(r, T) \/ ~Post(r))
           /\ Polled(r, [h EXCEPT !.polled = IF h.errors THEN "failed" ELSE "completed"])
        \/ /\ Terminal(r, T) /\ ~Unreadable(r, T) /\ Post(r)
           /\ run[r].future["post"] = None
           /\ SubmitFutures(r, [h EXCEPT !.polled = "running"], {"post"})
           /\ UNCHANGED disk
        \/ /\ Terminal(r, T) /\ ~Unreadable(r, T) /\ Post(r)
           /\ run[r].future["post"] # None
           /\ Polled(r, CASE ~Terminal(r, {"post"}) -> [h EXCEPT !.polled = "running"]
                          [] Succeeded(r, "post") ->
                               [h EXCEPT !.polled = "completed", !.smooth = "ok"]
                          [] Failed(r, "post") ->
                               [h EXCEPT !.polled = "failed", !.smooth = "bad"]
                          [] OTHER -> [h EXCEPT !.polled = "failed"])

\* The exception path and every other way a run fails once it is collected.
Fail(r, cancel) ==
  /\ Publish(r, Job(r), "failed")
  /\ LetGo(r, cancel, Submitted(r) \ IF run[r].errors THEN {"post"} ELSE {})
  /\ End(r, "failed")
  /\ UNCHANGED <<file, shard, product, newer>>

\* _finalize_local_run, called when a poll found the run complete: the cached
\* results decide, then the packing step is submitted.
Collect(r) ==
  /\ run[r].pc = "active" /\ run[r].polled \in {"completed", "failed"}
  /\ \/ /\ run[r].errors \/ run[r].smooth = "bad"
        /\ Fail(r, {})
     \/ /\ ~run[r].errors /\ Post(r) /\ run[r].smooth = None
        /\ Fail(r, Submitted(r))
     \/ /\ run[r].polled = "completed" /\ Job(r) \in PackJobs /\ ~run[r].postOnly
        /\ \/ ~client /\ Fail(r, Submitted(r))
           \/ client /\ SubmitFutures(r, [run[r] EXCEPT !.pc = "pack"], {"pack"})
                     /\ UNCHANGED disk
     \/ /\ run[r].polled = "completed" /\ (Job(r) \notin PackJobs \/ run[r].postOnly)
        /\ run' = [run EXCEPT ![r].pc = "judge"]
        /\ UNCHANGED <<disk, dask>>

\* The packing step has ended.  A failed one is forgiven when the traces are
\* there and no task failed.
Packed(r) ==
  /\ run[r].pc = "pack" /\ Terminal(r, {"pack"})
  /\ \/ /\ Succeeded(r, "pack")
        /\ run' = [run EXCEPT ![r].pc = "judge"]
        /\ UNCHANGED <<disk, dask>>
     \/ /\ Failed(r, "pack")
        /\ run[r].failed = 0 /\ PartsExist(Job(r))
        /\ Publish(r, Job(r), "completed")
        /\ LetGo(r, {}, Submitted(r))
        /\ End(r, "completed")
        /\ UNCHANGED <<file, shard, product, newer>>
     \/ /\ Failed(r, "pack")
        /\ run[r].failed > 0 \/ ~PartsExist(Job(r))
        /\ Fail(r, {})
     \/ Unreadable(r, {"pack"}) /\ Fail(r, Submitted(r))

\* The run state is written as completed; then the summary it holds is compared
\* with the tolerance, and it may be written again as failed.
PublishCompleted(r) ==
  /\ run[r].pc = "judge"
  /\ Publish(r, Job(r), "completed")
  /\ run' = [run EXCEPT ![r].pc = "judged"]
  /\ UNCHANGED <<file, shard, product, newer, dask>>

\* Mutant of Judge: the run that exceeds its tolerance is not published again.
JudgeInMemory(r) ==
  /\ run[r].pc = "judged"
  /\ LetGo(r, {}, Submitted(r))
  /\ End(r, IF run[r].failed > run[r].tolerance THEN "failed" ELSE "completed")
  /\ UNCHANGED disk

\* Mutant of Judge: one failure more is tolerated.
JudgeLenient(r) ==
  /\ run[r].pc = "judged"
  /\ \/ run[r].failed > run[r].tolerance + 1 /\ Fail(r, {})
     \/ /\ run[r].failed <= run[r].tolerance + 1
        /\ LetGo(r, {}, Submitted(r))
        /\ End(r, "completed")
        /\ UNCHANGED disk

Judge(r) ==
  /\ run[r].pc = "judged"
  /\ \/ run[r].failed > run[r].tolerance /\ Fail(r, {})
     \/ /\ run[r].failed <= run[r].tolerance
        /\ LetGo(r, {}, Submitted(r))
        /\ End(r, "completed")
        /\ UNCHANGED disk

-----------------------------------------------------------------------------
(* Interruptions                                                           *)

\* The monitor's timeout, after a poll that found the run unfinished.
Timeout(r) ==
  /\ "timeout" \in Interrupts
  /\ run[r].pc = "active" /\ run[r].polled = "running"
  /\ Publish(r, Job(r), "timeout")
  /\ LetGo(r, TaskFutures(r), TaskFutures(r))
  /\ End(r, "timeout")
  /\ UNCHANGED <<file, shard, product, newer>>

\* watch(timeout) gives the handle a result and touches nothing else.
WatchTimeout(r) ==
  /\ "watch" \in Interrupts
  /\ run[r].pc = "active" /\ run[r].polled = "running"
  /\ End(r, "timeout")
  /\ UNCHANGED <<disk, dask>>

\* cancel() from another thread: the task futures only, no run state.
Cancel(r) ==
  /\ "cancel" \in Interrupts
  /\ run[r].pc \in {"active", "pack", "judge", "judged"} /\ ~run[r].cancelled
  /\ LetGo(r, TaskFutures(r), TaskFutures(r))
  /\ run' = [run EXCEPT ![r].cancelled = TRUE]
  /\ UNCHANGED disk

-----------------------------------------------------------------------------
(* The workers                                                             *)

\* run_task starts a solver, which reads the job file, or, to postprocess, the
\* task outputs.
Start(s, k) ==
  /\ client /\ ex[s][k].state = "queued"
  /\ ex' = [ex EXCEPT ![s][k] = [@ EXCEPT !.state = "running", !.solver = TRUE,
              !.read = CASE k \in Tasks -> file[Job(s)]
                         [] k = "post" -> [t \in Tasks |-> shard[Job(s)][t].part]
                         [] OTHER -> None]]
  /\ UNCHANGED <<disk, client, key, held, run>>

Solved(s, k, ok) ==
  LET e == ex[s][k]
  IN ex' = [ex EXCEPT ![s][k] =
              [e EXCEPT !.solver = FALSE, !.read = None,
                        !.ok = ok /\ e.state = "running",
                        !.state = IF e.state = "running" THEN "done" ELSE e.state]]

\* The solver ends.  A failed task may have committed a failed result, or none.
SolverSucceeds(s, k) ==
  /\ ex[s][k].solver
  /\ Solved(s, k, TRUE)
  /\ shard' = IF k \in Tasks
                THEN [shard EXCEPT ![Job(s)][k] = [part |-> ex[s][k].read, ok |-> TRUE]]
                ELSE shard
  /\ product' = IF k = "post" THEN [product EXCEPT ![Job(s)] = ex[s][k].read] ELSE product
  /\ newer' = IF k \in Tasks \cup {"post"}
                THEN [newer EXCEPT ![Job(s)] = k \in Tasks] ELSE newer
  /\ UNCHANGED <<file, record, client, key, held, run>>

SolverFails(s, k) ==
  /\ ex[s][k].solver
  /\ Solved(s, k, FALSE)
  /\ \/ UNCHANGED shard
     \/ k \in Tasks /\ shard' = [shard EXCEPT ![Job(s)][k] = [@ EXCEPT !.ok = FALSE]]
  /\ UNCHANGED <<file, product, newer, record, client, key, held, run>>

\* The worker process is lost: the future ends in error.
WorkerLost(s, k) ==
  /\ "lost" \in Interrupts
  /\ ex[s][k].state = "running"
  /\ ex' = [ex EXCEPT ![s][k].state = "error"]
  /\ UNCHANGED <<disk, client, key, held, run>>

-----------------------------------------------------------------------------
Init ==
  /\ file = [j \in Jobs |-> 0]
  /\ shard = [j \in Jobs |-> [t \in Tasks |-> [part |-> None, ok |-> FALSE]]]
  /\ product = [j \in Jobs |-> None]
  /\ newer = [j \in Jobs |-> FALSE]
  /\ record = [j \in Jobs |-> [status |-> None, by |-> None]]
  /\ client = FALSE
  /\ key = [q \in Keys |-> None]
  /\ ex = [r \in Runs |-> [k \in Steps |-> NoExecution]]
  /\ held = {}
  /\ run = [r \in Runs |-> NoRun]

Advance(r) == SubmitTasks(r) \/ MeshFailed(r) \/ Poll(r) \/ Collect(r)
                \/ Packed(r) \/ PublishCompleted(r) \/ Judge(r)
Work(s, k) == Start(s, k) \/ SolverSucceeds(s, k) \/ SolverFails(s, k)

Next ==
  \/ \E r \in Runs :
       \/ \E j \in Jobs, v \in 0 .. MaxVersion, fresh \in Forces, shutdown \in Shutdowns :
            \/ \E n \in Tolerances : Submit(r, j, v, fresh, shutdown, n)
            \/ SubmitPostprocess(r, j, v, fresh, shutdown)
       \/ Advance(r) \/ Timeout(r) \/ WatchTimeout(r) \/ Cancel(r)
  \/ \E s \in Runs, k \in Steps : Work(s, k) \/ WorkerLost(s, k)

\* The caller waits on the handles it has; the workers run what they are given and
\* a solver ends.  Both have finitely much to do, so nothing is starved.
Fairness == /\ WF_vars(\E r \in Runs : Advance(r))
            /\ WF_vars(\E s \in Runs, k \in Steps : Work(s, k))

Spec == Init /\ [][Next]_vars
FairSpec == Spec /\ Fairness

=============================================================================
