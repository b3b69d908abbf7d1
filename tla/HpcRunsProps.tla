---------------------------- MODULE HpcRunsProps ----------------------------
(***************************************************************************)
(* What a user of a Slurm site relies on when submissions are repeated.    *)
(***************************************************************************)
EXTENDS HpcRuns

SlurmStates == {"unsubmitted", "PENDING", "RUNNING"} \cup Ends

Phases == {"none", "starting", "sizing", "sweep", "post", "hung", "exiting",
           "over"}

Outcomes == {"succeeded", "failed", "stopped"}

FileStates == {"absent", "pending", "running", "complete", "failed"}

Record == [job : Jobs, version : Versions, successful : BOOLEAN]

SweepTypeOK ==
  /\ slurm \in [Jobs -> SlurmStates]
  /\ version \in [Jobs -> Versions \cup {NoResult}]
  /\ fresh \in [Jobs -> BOOLEAN]
  /\ phase \in [Jobs -> Phases]
  /\ task \in [Jobs -> [Tasks -> Versions \cup {"waiting"} \cup Outcomes]]
  /\ staged \in Versions \cup {NoResult}
  /\ statusFile \in FileStates
  /\ results \in [Tasks -> Versions \cup {"failed", NoResult}]

ClientTypeOK ==
  /\ current \in Versions
  /\ records \in Seq(Record)
  /\ call \in {"none", "submit", "force"}
  /\ recording \in Jobs \cup {0}
  /\ handle \in [Jobs -> {"none", "open", "complete", "failed", "stopped"}]

\* Type invariant of the state of HpcRuns.
TypeOK == SweepTypeOK /\ ClientTypeOK

Submitted(j) == slurm[j] # "unsubmitted"

Recorded(j) == \E i \in DOMAIN records : records[i].job = j

\* A job no record names and no client is about to record.
Lost(j) == Submitted(j) /\ ~Recorded(j) /\ recording # j

\* runs.json is a book of the Slurm jobs: one record per job, and it names the
\* definition that job was submitted with, also after reattachments and polls of
\* older handles have rewritten and reordered it.
RecordsNameJobs ==
  /\ \A i, k \in DOMAIN records : records[i].job = records[k].job => i = k
  /\ \A i \in DOMAIN records :
       /\ Submitted(records[i].job)
       /\ records[i].version = version[records[i].job]

\* However often the job is edited, submitted, waited for, abandoned and
\* submitted again, no two live Slurm jobs compute the same definition, which
\* they would do in the same directories: submit() reattaches instead.  The
\* exceptions: the user forced the later one, or the client died between sbatch
\* and the record of the earlier one.
OneLiveJobPerDefinition ==
  \A j, k \in Jobs :
    j < k /\ Live(j) /\ Live(k) /\ version[j] = version[k] => fresh[k] \/ Lost(j)

\* The latest run is not taken for the run before it by way of the status file
\* they share: when it is reported failed it has failed itself, or hangs.
FailureIsOwn ==
  \A j \in Jobs :
    handle[j] = "failed" /\ (\A k \in Jobs : k > j => ~Submitted(k)) =>
      \/ slurm[j] \in BadEnds
      \/ Failures(j) # {}
      \/ phase[j] \in {"hung", "exiting"}

\* RunResult.successful: a run whose result is a success has completed, as far as
\* Slurm knows.
SuccessIsReal == \A j \in Jobs : handle[j] = "complete" => slurm[j] = "COMPLETED"

\* wait() returns: a run that is waited for ends and is reported, whatever
\* happens to its Slurm job and its scheduler.  When the scheduler hangs, it is the
\* heartbeat that ends the waiting, not the time limit of the job.
WaitReturns == \A j \in Jobs : handle[j] = "open" ~> handle[j] # "open"

\* submit() skips a job only if the site has current successful results for it:
\* every result there was computed from the definition the job has now.
SkipIsCurrent == WouldSkip => \A t \in Tasks : results[t] = current
=============================================================================
