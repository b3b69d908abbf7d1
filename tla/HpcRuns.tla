------------------------------ MODULE HpcRuns ------------------------------
(***************************************************************************)
(* Submitting a simulation job to a Slurm site again and again             *)
(* (orchestrator/sites/hpc/site.py with simulation/jobs/records.py): the   *)
(* user edits the job, submits, waits, cancels, gives up and comes back;   *)
(* SlurmSite.submit reattaches to a run in flight, skips a run that is     *)
(* current or calls sbatch, and keeps its book in runs.json.               *)
(*                                                                         *)
(* runs.json lists one record per Slurm job.  Every write stamps the       *)
(* record with the time and moves it to the end of the list, so that the   *)
(* last record of the sequence is latest_run().                            *)
(***************************************************************************)
EXTENDS SweepJob, SequencesExt

CONSTANTS
  Forced,   \* whether the user also submits with force=True
  Crashes   \* whether the client process may die

ASSUME ClientAssumption == Forced \in BOOLEAN /\ Crashes \in BOOLEAN

VARIABLES
  current,    \* fingerprint of the job as the user has defined it now
  records,    \* runs.json, from the oldest update to the latest
  call,       \* the submit() that has staged its inputs and not called sbatch:
              \* "none", "submit" or "force"
  recording,  \* the Slurm job sbatch has returned and no record names, or 0
  handle      \* the RunHandle of every Slurm job: "none", "open" or its result,
              \* with one word for cancelled and timed out

clientVars == <<current, records, call, recording, handle>>
vars == <<sweepVars, clientVars>>

Init ==
  /\ SweepInit
  /\ current \in Versions
  /\ records = <<>>
  /\ call = "none"
  /\ recording = 0
  /\ handle = [j \in Jobs |-> "none"]

\* The client is in no call of submit().
Idle == call = "none" /\ recording = 0

-----------------------------------------------------------------------------
(* What the client can find out of a run.                                  *)

\* Mutant of UpdateStatus: only a job with nodes counts as in flight.
UpdateStatusForgetsPending(j) ==
  CASE slurm[j] = "RUNNING"               -> "running"
    [] slurm[j] = "COMPLETED"             -> "complete"
    [] slurm[j] \in {"FAILED", "NODE_FAIL"} -> "failed"
    [] OTHER                              -> "unknown"

\* update_status and normalize_slurm_state: the first row of the accounting whose
\* state is in their tables counts, be it of the job or of a step.  OUT_OF_MEMORY
\* is not in the tables, and without a known row the status is "unknown", which is
\* not terminal.
UpdateStatus(j) ==
  CASE slurm[j] = "PENDING"               -> "pending"
    [] slurm[j] = "RUNNING"               -> "running"
    [] slurm[j] \in {"COMPLETED", "OUT_OF_MEMORY_STEP_COMPLETED"} -> "complete"
    [] slurm[j] \in {"FAILED", "NODE_FAIL"} -> "failed"
    [] slurm[j] = "TIMEOUT"               -> "timeout"
    [] slurm[j] = "CANCELLED"             -> "cancelled"
    [] OTHER                              -> "unknown"

Terminal == {"complete", "failed", "cancelled", "timeout"}

Result(state) == IF state \in {"complete", "failed"} THEN state ELSE "stopped"

\* The heartbeat of the status file has stood still for the timeout.
HeartbeatStopped ==
  statusFile = "running" /\ \A k \in Jobs : ~Running(k, "sweep")

\* Mutant of SchedulerFailure: the heartbeat is not looked at.
SchedulerFailureByState(j, file) == file = "failed"
\* _adaptive_scheduler_failure, with the status file as it was read.
SchedulerFailure(j, file) ==
  \/ file = "failed"
  \/ file = "running" /\ UpdateStatus(j) = "running" /\ HeartbeatStopped

\* _poll_run.  The status file is not read for a pending job, and a read that
\* fails counts as an absent file.
PollRun(j, file) ==
  IF UpdateStatus(j) # "pending" /\ SchedulerFailure(j, file)
  THEN "failed" ELSE UpdateStatus(j)

-----------------------------------------------------------------------------
(* runs.json.                                                              *)

\* Mutant of Without: a new update does not replace the old one.
WithoutNone(j) == records

\* There is at most one to remove (RecordsNameJobs).
Without(j) ==
  IF \E i \in DOMAIN records : records[i].job = j
  THEN RemoveAt(records, CHOOSE i \in DOMAIN records : records[i].job = j)
  ELSE records

\* Mutant of WriteRunRecord: the fingerprint is not saved.
WriteRunRecordAnonymous(j, v, status) ==
  records' = Append(Without(j), [job |-> j, version |-> NoResult,
                                 successful |-> status = "complete"])

\* write_run_record: replace the record of the same Slurm job, as the latest.
\* Of the status only success matters.
WriteRunRecord(j, v, status) ==
  records' = Append(Without(j), [job |-> j, version |-> v,
                                 successful |-> status = "complete"])

Latest == records[Len(records)]

\* _finalize_run_record: the status goes to the latest record of the site.
FinalizeRunRecord(status) ==
  IF records = <<>> THEN UNCHANGED records
  ELSE WriteRunRecord(Latest.job, Latest.version, status)

\* The records of runs of this very definition that Slurm says are in flight.
InFlight ==
  {i \in DOMAIN records : /\ records[i].version = current
                          /\ UpdateStatus(records[i].job) \in {"pending", "running"}}

\* is_run_current: the latest record is of this definition and successful, and
\* every task has a successful result on the site.
IsRunCurrent ==
  /\ records # <<>>
  /\ Latest.version = current
  /\ Latest.successful
  /\ \A t \in Tasks : results[t] \in Versions

-----------------------------------------------------------------------------
(* submit().                                                               *)

\* _reattach_inflight_run.
Reattach ==
  /\ Idle
  /\ \E i \in InFlight :
       /\ \A k \in InFlight : k <= i
       /\ WriteRunRecord(records[i].job, records[i].version,
                         UpdateStatus(records[i].job))
       /\ handle' = [handle EXCEPT ![records[i].job] = "open"]
  /\ UNCHANGED <<sweepVars, current, call, recording>>

WouldSkip == Idle /\ InFlight = {} /\ IsRunCurrent

\* RunHandle.skipped: nothing happens on the site.
SkipCurrent ==
  /\ WouldSkip
  /\ UNCHANGED vars

\* prepare_job and _transfer_SLURM_job: the definition of the job on the site
\* is replaced, whatever runs there.
StageInputs(force) ==
  /\ Idle
  /\ force \/ (InFlight = {} /\ ~IsRunCurrent)
  /\ \E j \in Jobs : slurm[j] = "unsubmitted"
  /\ staged' = current
  /\ call' = IF force THEN "force" ELSE "submit"
  /\ UNCHANGED <<slurm, version, fresh, phase, task, statusFile, results,
                 current, records, recording, handle>>

\* Mutant of ClearStatus: the status file of the run before is left in place.
ClearStatusNever == UNCHANGED statusFile

ClearStatus == statusFile' = "absent"

\* The rest of _submit_slurm_batch up to the return of sbatch.
SubmitBatch(j) ==
  /\ call # "none"
  /\ slurm[j] = "unsubmitted"
  /\ \A k \in Jobs : k < j => slurm[k] # "unsubmitted"
  /\ slurm' = [slurm EXCEPT ![j] = "PENDING"]
  /\ version' = [version EXCEPT ![j] = current]
  /\ fresh' = [fresh EXCEPT ![j] = call = "force"]
  /\ ClearStatus
  /\ call' = "none"
  /\ recording' = j
  /\ UNCHANGED <<phase, task, staged, results, current, records, handle>>

\* _record_site_run, and the handle that submit() returns.
RecordSiteRun(j) ==
  /\ recording = j
  /\ WriteRunRecord(j, version[j], "submitted")
  /\ handle' = [handle EXCEPT ![j] = "open"]
  /\ recording' = 0
  /\ UNCHANGED <<sweepVars, current, call>>

-----------------------------------------------------------------------------
(* What the user does with the handles, and between the submissions.       *)

\* One poll of wait() or watch() finds the run in a terminal state.
PollTerminal(j) ==
  /\ Idle
  /\ handle[j] = "open"
  /\ \E file \in {statusFile, "absent"} :
       /\ PollRun(j, file) \in Terminal
       /\ handle' = [handle EXCEPT ![j] = Result(PollRun(j, file))]
       /\ FinalizeRunRecord(PollRun(j, file))
  /\ UNCHANGED <<sweepVars, current, call, recording>>

\* wait(timeout=...): the handle is done, the Slurm job goes on.
WaitTimesOut(j) ==
  /\ Idle
  /\ handle[j] = "open"
  /\ handle' = [handle EXCEPT ![j] = Result("timeout")]
  /\ UNCHANGED <<sweepVars, current, records, call, recording>>

\* cancel(), scancel.
Cancel(j) ==
  /\ Idle
  /\ handle[j] # "none"
  /\ Stop(j, "CANCELLED")
  /\ UNCHANGED clientVars

Edit(v) ==
  /\ Idle
  /\ v # current
  /\ current' = v
  /\ UNCHANGED <<sweepVars, records, call, recording, handle>>

\* The client process ends, perhaps between two steps of submit().
ClientDies ==
  /\ Crashes
  /\ ~Idle \/ \E j \in Jobs : handle[j] # "none"
  /\ call' = "none"
  /\ recording' = 0
  /\ handle' = [j \in Jobs |-> "none"]
  /\ UNCHANGED <<sweepVars, current, records>>

Client ==
  \/ Reattach
  \/ SkipCurrent
  \/ \E force \in {FALSE, Forced} : StageInputs(force)
  \/ \E j \in Jobs : SubmitBatch(j)
  \/ \E j \in Jobs : RecordSiteRun(j)
  \/ \E j \in Jobs : PollTerminal(j)
  \/ \E j \in Jobs : WaitTimesOut(j)
  \/ \E j \in Jobs : Cancel(j)
  \/ \E v \in Versions : Edit(v)
  \/ ClientDies

Next == Client \/ (\E j \in Jobs : Site(j) /\ UNCHANGED clientVars)

\* A handle that is waited for is polled for ever; the rest of what the user
\* does is up to the user.
Fairness ==
  /\ SiteFairness
  /\ \A j \in Jobs : WF_vars(SubmitBatch(j)) /\ WF_vars(RecordSiteRun(j))
                     /\ WF_vars(PollTerminal(j))

Spec == Init /\ [][Next]_vars /\ Fairness
=============================================================================
