------------------------------ MODULE SweepJob ------------------------------
(***************************************************************************)
(* The Slurm jobs of one simulation job, each running the batch script     *)
(* adaptive_sweep.sh: sizing, the adaptive scheduler (AdaptiveScheduler,   *)
(* seen here through the files it leaves), postprocess, packing.           *)
(*                                                                         *)
(* All the jobs share the directory of the simulation job on the site: its *)
(* definition, which a solver process reads when it starts, the logs with  *)
(* scheduler_status.json, and one result.json per task.  Nothing in these  *)
(* files names the Slurm job that wrote them.                              *)
(***************************************************************************)
EXTENDS Naturals, FiniteSets

CONSTANTS
  Submissions, \* bound: how many Slurm jobs are ever submitted
  Tasks,      \* the frequency tasks
  Versions,   \* fingerprints of the definitions the user gives the job
  Tolerance,  \* tolerate_failures
  Kills       \* ends that Slurm can impose on a running job

\* The second state stands for a job killed for its use of memory, one of whose
\* steps had completed: Slurm's accounting has a row for the job and one for each
\* of its steps.
OutOfMemory == {"OUT_OF_MEMORY", "OUT_OF_MEMORY_STEP_COMPLETED"}

BadEnds == {"FAILED", "NODE_FAIL", "TIMEOUT", "CANCELLED"} \cup OutOfMemory

Ends == BadEnds \cup {"COMPLETED"}

NoResult == "nothing"

\* Definitions are fingerprints, told apart from the states of a task.
ASSUME SweepAssumption ==
  /\ Submissions \in Nat
  /\ IsFiniteSet(Tasks) /\ Tasks # {}
  /\ Versions # {}
  /\ Versions \cap {NoResult, "waiting", "succeeded", "failed", "stopped"} = {}
  /\ Tolerance \in Nat
  /\ Kills \subseteq BadEnds

\* Slurm job ids, in the order of submission.
Jobs == 1 .. Submissions

VARIABLES
  slurm,       \* state of every job in Slurm
  version,     \* fingerprint the job was submitted with, or NoResult
  fresh,       \* whether it was submitted to run whatever exists (--fresh)
  phase,       \* where its batch script is
  task,        \* per task of the job: "waiting", while its process runs the
               \* definition it has read, and then its outcome
  staged,      \* fingerprint of the definition on the site, or NoResult
  statusFile,  \* state in scheduler_status.json, or "absent"
  results      \* per task, the definition computed by the process that committed
               \* a successful result.json, "failed" for a failed one, or NoResult

siteVars == <<staged, statusFile, results>>
sweepVars == <<slurm, version, fresh, phase, task, siteVars>>

Live(j) == slurm[j] \in {"PENDING", "RUNNING"}

SweepInit ==
  /\ slurm = [j \in Jobs |-> "unsubmitted"]
  /\ version = [j \in Jobs |-> NoResult]
  /\ fresh = [j \in Jobs |-> FALSE]
  /\ phase = [j \in Jobs |-> "none"]
  /\ task = [j \in Jobs |-> [t \in Tasks |-> "waiting"]]
  /\ staged = NoResult
  /\ statusFile = "absent"
  /\ results = [t \in Tasks |-> NoResult]

-----------------------------------------------------------------------------
(* The batch script.                                                       *)

Running(j, p) == slurm[j] = "RUNNING" /\ phase[j] = p

GoTo(j, p) == phase' = [phase EXCEPT ![j] = p]

Failures(j) == {t \in Tasks : task[j][t] = "failed"}

Finished(j) == {t \in Tasks : task[j][t] \in {"succeeded", "failed"}}

\* The processes of the job are stopped, and it starts none any more.
EndTasks(j) ==
  task' = [task EXCEPT ![j] = [t \in Tasks |->
             IF t \in Finished(j) THEN task[j][t] ELSE "stopped"]]

\* Slurm gives the job its nodes and starts the script.
Dispatch(j) ==
  /\ slurm[j] = "PENDING"
  /\ slurm' = [slurm EXCEPT ![j] = "RUNNING"]
  /\ GoTo(j, "starting")
  /\ UNCHANGED <<version, fresh, task, siteVars>>

\* The logs are wiped, all but the batch directory, the "pending" status is
\* written, and the trap is set that will report a failure.
PrepareLogs(j) ==
  /\ Running(j, "starting")
  /\ statusFile' = "pending"
  /\ GoTo(j, "sizing")
  /\ UNCHANGED <<slurm, version, fresh, task, staged, results>>

\* Sizing has succeeded, or failed after a usable checkpoint; the scheduler
\* starts.
StartScheduler(j) ==
  /\ Running(j, "sizing")
  /\ statusFile' = "running"
  /\ GoTo(j, "sweep")
  /\ UNCHANGED <<slurm, version, fresh, task, staged, results>>

\* The scheduler starts the process of a task, which reads the definition.
TaskStarts(j, t) ==
  /\ Running(j, "sweep")
  /\ Cardinality(Failures(j)) <= Tolerance
  /\ task[j][t] = "waiting"
  /\ task' = [task EXCEPT ![j][t] = staged]
  /\ statusFile' = "running"
  /\ UNCHANGED <<slurm, version, fresh, phase, staged, results>>

\* A task ends and the scheduler publishes it.  A task that fails has written
\* a failed result or none at all.
TaskEnds(j, t) ==
  /\ Running(j, "sweep")
  /\ Cardinality(Failures(j)) <= Tolerance
  /\ task[j][t] \in Versions
  /\ \/ /\ results' = [results EXCEPT ![t] = task[j][t]]
        /\ task' = [task EXCEPT ![j][t] = "succeeded"]
     \/ /\ results' \in {results, [results EXCEPT ![t] = "failed"]}
        /\ task' = [task EXCEPT ![j][t] = "failed"]
  /\ statusFile' = "running"
  /\ UNCHANGED <<slurm, version, fresh, phase, staged>>

\* The scheduler publishes "running" about every second.
Heartbeat(j) ==
  /\ Running(j, "sweep")
  /\ statusFile' = "running"
  /\ UNCHANGED <<slurm, version, fresh, phase, task, staged, results>>

\* The scheduler ends with status 0, also after failures it tolerates.
EndSweep(j) ==
  /\ Running(j, "sweep")
  /\ Finished(j) = Tasks
  /\ Cardinality(Failures(j)) <= Tolerance
  /\ statusFile' = IF Failures(j) # {} THEN "failed" ELSE "complete"
  /\ GoTo(j, "post")
  /\ UNCHANGED <<slurm, version, fresh, task, staged, results>>

\* More failures than tolerated: _abort publishes "failed" and ends the script.
AbortSweep(j) ==
  /\ Running(j, "sweep")
  /\ Cardinality(Failures(j)) > Tolerance
  /\ statusFile' = "failed"
  /\ GoTo(j, "exiting")
  /\ EndTasks(j)
  /\ UNCHANGED <<slurm, version, fresh, staged, results>>

\* A command of the script fails, or the scheduler dies: set -e ends the
\* script and the trap marks the status file, unless that fails as well.
ScriptFails(j) ==
  /\ \E p \in {"sizing", "sweep", "post"} : Running(j, p)
  /\ statusFile' \in {"failed", statusFile}
  /\ GoTo(j, "exiting")
  /\ UNCHANGED <<slurm, version, fresh, task, staged, results>>

\* A command fails before the trap is set (module load, for one), before or
\* after the logs were wiped.
ScriptFailsEarly(j) ==
  /\ Running(j, "starting")
  /\ statusFile' \in {statusFile, "absent"}
  /\ GoTo(j, "exiting")
  /\ UNCHANGED <<slurm, version, fresh, task, staged, results>>

\* Postprocess and packing have succeeded, or the script has failed, and Slurm
\* takes notice.
ScriptExits(j) ==
  /\ \E p \in {"post", "exiting"} : Running(j, p)
  /\ slurm' = [slurm EXCEPT ![j] = IF phase[j] = "post" THEN "COMPLETED" ELSE "FAILED"]
  /\ GoTo(j, "over")
  /\ EndTasks(j)
  /\ UNCHANGED <<version, fresh, siteVars>>

\* The scheduler stops making progress: a dead file system, a lost node.
Hang(j) ==
  /\ Running(j, "sweep")
  /\ GoTo(j, "hung")
  /\ UNCHANGED <<slurm, version, fresh, task, siteVars>>

\* Slurm ends a job.  The script may have had the time to run its trap.
Stop(j, end) ==
  /\ Live(j)
  /\ slurm' = [slurm EXCEPT ![j] = end]
  /\ statusFile' \in {statusFile} \cup
       {s \in {"failed"} : phase[j] \in {"sizing", "sweep", "post", "hung"}}
  /\ GoTo(j, "over")
  /\ EndTasks(j)
  /\ UNCHANGED <<version, fresh, staged, results>>

\* The time limit, a lost node, a process out of memory.
Kill(j) ==
  /\ slurm[j] = "RUNNING"
  /\ \E end \in Kills : Stop(j, end)

Script(j) ==
  \/ PrepareLogs(j) \/ StartScheduler(j)
  \/ \E t \in Tasks : TaskStarts(j, t) \/ TaskEnds(j, t)
  \/ EndSweep(j) \/ AbortSweep(j)
  \/ ScriptFails(j) \/ ScriptFailsEarly(j) \/ ScriptExits(j)

Site(j) == Dispatch(j) \/ Script(j) \/ Heartbeat(j) \/ Hang(j) \/ Kill(j)

\* The scheduler hangs and has left a file that says it is running.
Silent(j) == Running(j, "hung") /\ statusFile = "running"

\* Slurm starts the jobs of its queue, and no job outlives its time limit.  This may be
\* days away: nobody waits for it when the heartbeat can tell that the scheduler hangs.
SiteFairness ==
  \A j \in Jobs : WF_sweepVars(Dispatch(j)) /\ WF_sweepVars(Script(j))
                  /\ WF_sweepVars(~Silent(j) /\ Kill(j))
=============================================================================
