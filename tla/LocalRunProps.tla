--------------------------- MODULE LocalRunProps ---------------------------
(* What runs on a local site promise. *)
EXTENDS LocalRun

Unsettled(r) == run[r].pc \in {"mesh", "active", "pack", "judge", "judged"}
Final == {"completed", "failed", "timeout", "skipped"}

Contents == 0 .. MaxVersion
Parts == [Tasks -> Contents \cup {None}]
Handles ==
  [job : Jobs \cup {None}, result : Final \cup {"raised", None},
   pc : {"idle", "mesh", "active", "pack", "judge", "judged", "over"},
   polled : {"running", "completed", "failed", None}, smooth : {"ok", "bad", None},
   cancelled : BOOLEAN, fresh : BOOLEAN, shutdown : BOOLEAN, postOnly : BOOLEAN,
   errors : BOOLEAN, tolerance : Nat, failed : Nat, version : Contents,
   pending : SUBSET Tasks, future : [Steps -> Runs \cup {None}]]
ReadBy(k) == IF k \in Tasks THEN Contents ELSE IF k = "post" THEN Parts ELSE {None}
Executions(k) == [state : {"none", "queued", "running"} \cup Over, solver : BOOLEAN,
                  ok : BOOLEAN, read : ReadBy(k) \cup {None}]

\* Every variable holds what the site and its files can hold.
TypeOK ==
  /\ file \in [Jobs -> Contents]
  /\ shard \in [Jobs -> [Tasks -> [part : Contents \cup {None}, ok : BOOLEAN]]]
  /\ newer \in [Jobs -> BOOLEAN] /\ client \in BOOLEAN
  /\ product \in [Jobs -> Parts \cup {None}]
  /\ record \in [Jobs -> [status : Final \cup {"partial", None}, by : Runs \cup {None}]]
  /\ key \in [Keys -> Runs \cup {None}]
  /\ held \subseteq Runs \X Steps
  /\ run \in [Runs -> Handles]
  /\ ex = [r \in Runs |-> [k \in Steps |-> ex[r][k]]]
  /\ \A r \in Runs, k \in Steps : ex[r][k] \in Executions(k)

\* The run-state file never says otherwise than the handle: a final status that
\* a run published is the state of its result, however the run ended.
RecordAgrees ==
  \A j \in Jobs, r \in Runs :
    record[j].by = r /\ record[j].status \in Final /\ run[r].result # None
      => \/ record[j].status = run[r].result
         \/ record[j].status = "failed" /\ run[r].result = "raised"

Completes(r) == run[r].result = None /\ run'[r].result = "completed"

\* A run of the job was cut short: a solver it started may still be running.
Interrupted(j) ==
  \E q \in Runs : /\ Job(q) = j
                  /\ \/ run[q].cancelled \/ run[q].result = "timeout"
                     \/ \E k \in Submitted(q) : Unreadable(q, {k})

\* A run that completes has no more failed tasks than it tolerates: the others
\* have a committed output of the content that was submitted.
CompletedIsBacked ==
  [][\A r \in Runs : Completes(r) /\ ~run[r].postOnly /\ ~Interrupted(Job(r)) =>
       Cardinality({t \in Tasks : ~CurrentTask(Job(r), t, run[r].version)})
         <= run[r].tolerance]_vars

\* A run of a job with a postprocess step that completes leaves a product made
\* of the outputs its tasks have committed.
ProductIsOfTasks ==
  [][\A r \in Runs : Completes(r) /\ Job(r) \in PostJobs /\ ~Interrupted(Job(r)) =>
       \A t \in Tasks : product[Job(r)][t] = shard[Job(r)][t].part]_vars

\* The postprocess step of a job never reads the outputs while a solver that was
\* started for one of its tasks is still writing them.
PostReadsQuietShards ==
  [][\A s \in Runs : Start(s, "post") /\ ~Interrupted(Job(s)) =>
       \A q \in Runs, t \in Tasks : Job(q) = Job(s) => ~ex[q][t].solver]_vars

\* A run loses its executions only by its own doing or that of another run of
\* its job, unless a run submitted with shutdown_on_completion lets go: a family
\* submitted without it cannot cancel each other.
SiblingsUndisturbed ==
  [][\A r \in Runs, k \in Steps :
       ex[r][k].state \in {"queued", "running"} /\ ex'[r][k].state = "cancelled" =>
         \E q \in Runs : /\ run'[q] # run[q]
                         /\ Job(q) = Job(r) \/ run[q].shutdown]_vars

\* Whatever fails, is cancelled or is closed around it, a run that is waited on
\* ends with a result.
Settles == \A r \in Runs : Unsettled(r) ~> ~Unsettled(r)

\* A run is skipped only when the outputs are current: the postprocess product
\* is made of task outputs of the content submitted.
SkippedIsCurrent ==
  [][\A r \in Runs : LET h == run'[r] IN
       run[r].pc = "idle" /\ h.result = "skipped" /\ ~h.postOnly /\ h.job \in PostJobs
         => \A t \in Tasks : product[h.job][t] = h.version]_vars

=============================================================================
