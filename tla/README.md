# FrequenSolve: a verification project

FrequenSolve is a Python client for a frequency-domain wave solver. A user authors a
simulation, derives *jobs* from it (forward, adjoint, imaging, inversion), and runs each job on
a *site*: the local machine, a Slurm cluster, or a cloud backend. A job is a sweep over
frequencies: many independent solver runs (*tasks*) whose outputs are post-processed and packed
at the end. What is hard in this program is not the numerics, which the external solver does, but
the orchestration: who starts what, when a result counts, what a crashed or abandoned run leaves
behind, and what a second submission makes of it.

This directory holds TLA+ models of that orchestration, the TLC runs that check them, and proofs
checked by TLAPS. Paths below are relative to `src/src/frequensolve/` unless they start with
`src/`.

    tlc -workers 2 -config SchedShared.cfg MCAdaptiveScheduler.tla
    tlapm AdaptiveSchedulerProofs.tla

`PROJECT.json` lists the components, the runs, for every checked property a mutant of the model
that breaks it, the source lines behind every definition (`map`), the disagreements found
(`findings`), the hazards of the code, and the theorems.

## 1. Inventory

| Component | Files | State it keeps | Operations | Correct when |
|---|---|---|---|---|
| Adaptive sweep scheduler | `orchestrator/sites/hpc/templates/sweep/adaptive_scheduler.py` | free list of MPI ranks, queue, running entries, successful and failed tasks, `scheduler_status.json` | plan a round, launch, poll, abort, heartbeat | ranks are never shared or lost; every task ends in one list; plans can be carried out; the tolerance is honoured; the sweep ends; the published state is true |
| Sweep batch script | `.../sweep/adaptive_sweep.sh` | logs, trap, exit status | wipe logs, sizing, scheduler, postprocess, pack | a failure after the trap is set is published |
| Slurm client | `orchestrator/sites/hpc/site.py`, `slurm_helpers.py` | nothing of its own: Slurm, the files on the site, `runs.json` | submit (reattach, skip, stage, sbatch, record), poll, cancel, attach, fetch | one live job per definition; a skipped job is current; a status is that of the run it is reported for |
| Run handles, monitor | `orchestrator/sites/base.py`, `orchestrator/utils/progress.py` | a terminal result per handle | wait, watch, cancel, fetch | wait returns; a result is final and true |
| Run records | `simulation/jobs/records.py` | `runs.json` per job | write, latest, list | one record per run that names its definition |
| Local site | `orchestrator/sites/local/site.py` | Dask client, futures of all runs, run state | submit, poll, wait, cancel, close | a completed run has the outputs its tasks committed, within the tolerance; file and handle agree; runs do not disturb their siblings; every run ends |
| Run state, task planning | `simulation/jobs/run_state.py`, `artifacts.py` | run state, task artifacts | plan tasks, judge artifacts, write state | only current artifacts are reused |
| Remote staging | `simulation/jobs/remote.py` | staged definition, provenance digests | stage, verify | results carry the definition they were computed from |
| Atomic publication | `util/atomic.py`, `util/store.py` | temp file, target, directory entry | write, fsync, replace | a reader sees the old or the new contents |
| AWS site, Cognito, batch worker | `orchestrator/sites/aws/` | remote job, token cache, result prefix | submit, poll, refresh, download, upload | a retry does not submit twice; tokens survive concurrent refreshes; a result prefix is complete or absent |
| SSH, transfer, configuration | `orchestrator/utils/ssh.py`, `hpc/transfer.py`, `sites/config_file.py` | a connection | run, put, get | I/O |
| Enterprise HPC | `hpc/enterprise.py`, `live_canary.py` | none | validate limits and evidence | pure checks |
| Inversion, FWI workflow | `imaging/workflows.py`, `inversion/` | control state, checkpoint, history | optimise by stages, checkpoint, resume | a resume continues from what is on disk, with the remaining budget; a returned model has every stage solved |
| Imaging backend | `imaging/_backend.py` | least-recently-used cache of linearizations and their directories | get, put, clear | what is cached can be used; what was returned last is not evicted next |
| Imaging problem, controls, misfits | `imaging/problem.py`, `extension.py`, `controls.py`, `misfit.py` | tables of linearizations, the working simulation, support masks of a view | linearize, actions, restrict, extend, dry run, clear | a result is on the space of the view that asks, and acts at its own point |
| Projects | `project/project.py` | project directory | save, load, transfer | a loaded project is the saved one |
| MCP server | `mcp_server/` | none beyond the services it wraps | tools | the same as those services |
| Artifacts | `simulation/artifact_*.py` | catalog documents | validate, select | pure checks |
| Models, meshes, geometry, seismic | `model/`, `mesh/`, `geometry/`, `seismic/` | authored data | data | not a protocol |
| Solver lookup | `solver.py` | none | find, compare versions | pure |
| Plotting, validation, knowledge, commands | ... | none | presentation | not a protocol |

### How the parts interact

    user process                                site (shared file system + Slurm)
    ------------                                --------------------------------
    submit() --- reads runs.json
       |     --- squeue / sacct ------------->  Slurm
       |     --- stages job JSON ------------>  job directory  <--- read by every solver process
       |     --- rm scheduler_status.json; sbatch -> batch script
       |     --- appends runs.json                  |  sizing
    RunHandle.wait()                                |  adaptive_scheduler.py ---> solver processes
       |     --- squeue / sacct ------------->  Slurm            |                    |
       |     --- reads scheduler_status.json <-------------------+   result.json <----+
       |     --- rewrites runs.json                 |  postprocess, pack
    cancel() --- scancel -------------------->  Slurm

A local site is the same picture with a Dask client in place of Slurm: `submit()` runs the mesh step
and hands the tasks to Dask, the handle's polls start the postprocess step, the finalisation starts the
packing step and writes `run_state.json`. All runs of a site share the client and its futures.

Between the two is the imaging problem: it installs or stages the point of every job, and keeps the solver
states of recent points in a cache that problems derived from one another share.

An inversion (`FWI.run`) submits such jobs from inside; between them it keeps three files: the history,
the control state and the checkpoint, all written by the one process that runs it.

Nothing is locked. The directory of a job on the site is shared by all its runs; no file in it
names the Slurm job that wrote it. `runs.json` is rewritten by every poll, and its order by time
of update decides which record is the latest.

### What is hard here

* *Interleaving*: solver processes exit while the scheduler polls and launches; the client acts
  between any two steps of the Slurm job; old handles are polled after newer submissions.
* *Crash recovery*: the client may die between `sbatch` and the record; the batch script may die
  before or after its trap is set; Slurm may kill a job with or without the trap.
* *Stale state*: the definition on the site and the status file are overwritten under running
  jobs; the final status goes to the record that is latest at that moment.
* *Shared executions*: Dask tells tasks apart by function and arguments only; cancelling goes by that key
  and does not stop a solver; closing the client ends the executions of every run.
* *Several files, one state*: history, control state and checkpoint are saved one after the other; an
  interruption between any two leaves a mixture that the next run must make sense of.
* *One simulation, many points*: the points of an imaging problem take turns in one working simulation, and
  the cache deletes the directories of the points that were used longest ago.
* *Resource bounds*: ranks, memory per task, fragmentation of the free list, task estimates larger
  than the allocation.
* *Liveness*: a hung scheduler shows only through a heartbeat; a job in a state the client does
  not know never becomes terminal.

`hazards` in `PROJECT.json` lists each with its line and the properties that watch it.

## 2. Modules

| Module | Models | Extends |
|---|---|---|
| `RankIntervals` | `_allocate_interval`, `_free_interval`: the free list as a set of intervals | |
| `AdaptiveScheduler` | the scheduler process and its solver processes | `RankIntervals` |
| `AdaptiveSchedulerProps` | its invariants, step properties, termination, refinement mapping | `AdaptiveScheduler` |
| `TaskPool` | the abstract specification: what a sweep promises whatever the plan | |
| `RankIntervalsProofs` | proofs about the free list | `RankIntervals` |
| `AdaptiveSchedulerProofs` | the inductive invariant of the scheduler, and what a task is granted | `AdaptiveSchedulerProps`, `RankIntervalsProofs` |
| `TaskPoolProofs` | the refinement of `TaskPool` | `AdaptiveSchedulerProofs` |
| `SweepJob` | the Slurm jobs of one simulation job, each running the batch script | |
| `HpcRuns` | the Slurm client, handles and run records, composed with `SweepJob` | `SweepJob` |
| `HpcRunsProps` | what a user relies on | `HpcRuns` |
| `HpcRunsProofs` | the inductive invariant of repeated submissions | `HpcRunsProps` |
| `LocalRun` | the runs of a local site, from submission to run state, on a shared Dask client | |
| `LocalRunProps` | what a local run promises | `LocalRun` |
| `LocalRunProofs` | its inductive invariant | `LocalRunProps` |
| `LocalOutputsProofs` | what is on disk when a local run completes | `LocalRunProofs` |
| `FwiRun` | `FWI.run` with history, control state, checkpoint and support masks, exceptions and kills | |
| `FwiRunProps` | what a checkpointed inversion promises, refinement mapping | `FwiRun` |
| `DurableDescent` | the abstract specification: what an inversion promises whatever interrupts it | |
| `FwiRunProofs` | its inductive invariants, of the call, of history and checkpoint, and of the masks; the refinement | `FwiRunProps` |
| `Linearizations` | the linearizations of a family of imaging problems, their cache and the points jobs run at | |
| `LinearizationsProps` | what callers of an imaging problem rely on | `Linearizations` |
| `LinearizationsProofs` | its inductive invariant | `LinearizationsProps` |
| `MCAdaptiveScheduler`, `MCHpcRuns`, `MCFwiRun`, `MCLinearizations` | instances for TLC | |

A definition called a *mutant* in a comment is not part of the system: it is a plausible bug, kept
next to the definition it would replace, and a run with it in place violates the property that
`PROJECT.json` pairs it with.

### The scheduler

`AdaptiveScheduler.run` loops over rounds. In a round it *plans* on a copy of the free list
(`simulated`): as long as a boosted candidate fits, the one that uses the most ranks is taken
(`BestBoost`); when none fits, the largest task that fits with its minimum ranks
(`BestPlacement`). It then *launches* the plan in order on the real free list, and *polls* every
running process. `pc` names the phase; `Launch`, `LaunchError`, `PollAlive`, `PollFinished`,
`EndPoll` and `Abort` are the statements of the last two phases, `PlanTask` and `EndPlan` one turn
of the planning loop. `TaskExits` lets a solver process end at any time, also between the polls
of two other entries.

The free list, a sorted Python list of `(start, length)` pairs, is the set of those intervals:
starts are distinct (`RanksPartitioned`), so the order is determined. `IsFirstFit` is the loop
that finds the first interval that is long enough, `TakeFrom` the shrinking or removal of that
interval, `FreeInterval` the insertion and the merge with the neighbours it touches.

Abstractions:

* `memory[t]` is the estimate of the sizing file times `mem_cushion`, a natural number; `CapRanks`
  is `int(total_ranks * cap_fraction)`; the boost factor is an integer. Ratios round exactly as
  in the code.
* Tasks are submitted in increasing order of index, each once; `Precedes` is then the sorted queue.
* `_abort` sends SIGTERM, waits and then sends SIGKILL; here the processes are gone at once.
* A finished entry leaves `self.running` at the end of the polling loop in the code and at its own
  poll here: nothing reads the list in between.
* `LaunchError` stands for an exception between the moment the ranks are taken and `Popen`; that
  of a status write after `Popen` is not modelled.
* The branch of `run` that sleeps with an empty plan and nothing running is the negation of
  `EndPlan`'s last guard. The deadlock check and `SweepEnds` show that no state needs it.
* Argument parsing, the parsing of the sizing file, logs and the text of the payload are left out.

### Slurm runs

`SweepJob` follows every Slurm job through the script: `Dispatch`, `PrepareLogs` (wipe, pending
status, trap), `StartScheduler` (sizing is over), `TaskStarts` / `TaskEnds` / `Heartbeat`
(the scheduler, reduced to what it leaves on disk), `EndSweep` or `AbortSweep`, `ScriptExits`
(postprocess and packing are over). It fails before the trap (`ScriptFailsEarly`) or after it
(`ScriptFails`), hangs (`Hang`), or is ended by Slurm (`Kill`, and `Stop` for scancel). Shared by
all jobs of the directory: `staged` (the definition on the site), `statusFile`, `results`.
`task[j][t]` holds the definition the solver process of task `t` has read, which is whatever is
staged when it *starts*.

`HpcRuns` adds the client: `Reattach`, `SkipCurrent` or `StageInputs` / `SubmitBatch` /
`RecordSiteRun` are the ways through `submit()`; `PollTerminal` one poll of `wait()` or `watch()`
that finds the run terminal, which finalises a run record; `WaitTimesOut`, `Cancel`, `Edit` (a new
definition) and `ClientDies` are what the user or the world does. `records` is `runs.json` in the
order of the last update, so that its last element is `latest_run()`.

Abstractions:

* One client process with one thread. It stages inputs and calls `sbatch` in two steps, because
  a running job reads in between; the staging of several files is one step.
* A definition is its fingerprint: equal definitions have equal fingerprints.
* The parts of a record that matter: the job, the fingerprint, and whether its status is
  successful. Timestamps of successive updates increase.
  A write drops every record of its job in the code; `Without` drops the one there is, which
  `RecordsNameJobs` says is all of them. Of handle results, cancelled and timed out are one.
* One poll (Slurm state, then the status file) is a step; a read that fails, or meets a half-written
  file, counts as an absent file.
* `HeartbeatStopped` stands for the comparison of two clocks: the file says running and no
  scheduler is alive to touch it. That a heartbeat is merely slow is not modelled.
* Every submission runs all tasks: attached allocations, postprocess-only and smooth-only jobs,
  and the subsets of tasks that fetched results allow (`task_run_plan`) are not modelled, nor
  fetching. That the solver reuses a result of the same definition is taken to equal computing it.
* Solver processes that outlive a crashed scheduler commit nothing.

### Local runs

`run[r]` is a handle with what its `backend` dictionary holds: the futures, the cached results
(`errors`, `failed`, `smooth`), the options of the submission. Its `pc` follows the code:
`Submit` is the call up to the blocking wait for the mesh step (`mesh`), `SubmitTasks` or `MeshFailed` what
comes after it; `Poll` is one call of `_poll_local_run`, which submits the postprocess step once all
tasks are terminal; `Collect`, `Packed`, `PublishCompleted` and `Judge` are `_wait_local_run` between its
blocking calls and its two writes of the run state; `Fail` is its exception path and the ends that
resemble it. `Timeout`, `WatchTimeout` and `Cancel` are the three ways in which a caller gives up, which release
different things. Steps of two runs interleave at these points: the runs of a family are waited for by
threads, and `cancel()` comes from any of them.

On disk: `file[j]` is the content of the job file, which a submission overwrites; `shard[j][t]` is
the content that the output of a task is *of*, and whether its committed result is a success;
`product[j]` is what the postprocess product was made from. `newer[j]` is the comparison of their
modification times in `needs_postprocess`.

Dask is external: `ex[r][k]` is the execution that `r`'s submission of step `k` created, `key` the
execution that a new submission with equal arguments would share, `held` who holds a future of it.
`DropFutures` is cancelling (by key, for all who share it) and releasing; `CloseClient` is `close()`.
`Start` and the ends of a solver are `run_task` on a worker: it reads the job file when it *starts*, and
writes though its future has been cancelled (`solver` stays true: an orphan).

Abstractions:

* One thread submits; submissions of one job follow each other (the documentation asks for separate
  directories otherwise, `MaySubmit`), those of different jobs overlap.
* Every step of a solver either succeeds or fails with a result; a lost worker gives an error.
* The client does not die: handles and executions live in its process.
* Of the skip policies, the default. The number of workers and of threads is not modelled, and so neither is that
  `_ensure_dask_for_tasks` (`orchestrator/sites/local/site.py:1526`, `1873`) may close the cluster and build
  a larger one before the tasks of a run are submitted: `SubmitTasks` finds the client it needs.

### Checkpointed inversion

`checkpoint`, `state` and `history` are the three files; `memory` is the history object a process
still holds when it calls `run()` again; `call` is the call with its stage, the iterations of the stage
that are done, the model and the support masks. A model is the descent it belongs to and the number of accepted iterates in
each stage: enough to tell which of two models is newer, which stage moved it and by how much.

The *support masks* of a stage say which degrees of freedom its vector has. `Stage.view` asks for fresh ones
(`support="refresh"`), and the first linearization of the stage adopts what the solver measures; they are then
held until the stage is over, but only by this call: a resumed one adopts its own. What the solver measures is the constant
`Supported(dof, stage, model)`. Where it measures is `Measured`: at the model of the call, or at the authored
point if the registry has to be discovered first, as in a new process or on a new layout. The checkpoint holds the vector, and so the
masks, that the interrupted call had.

`Begin`, `Resume`, `Skip` and `RejectPlan` are the ways through `_resume_plan` and `_open_history`;
`Linearize` the start of `_solve_stage`, where masks are adopted and the resumed vector is compared with the checkpointed
one: it must be of the same size (`SameSize`) and have the same values, else the call is refused (`RejectModel`); `TruncateState`, `WriteState`, `WriteCheckpoint` are `_write_checkpoint`: h5py
opens the state file with mode "w" and so truncates it, the checkpoint is replaced atomically.
`Record` is the callback of an iterate (history first, checkpoint second), `FirstIterate` the callback the
optimizers make for the model they start with, `Accept` any later one. `EndStage(ok)` is the return of the
optimizer, for whatever reason, `NextStage` the transition. `Raise` is any exception, after which the
history is finished as stopped; `Kill` leaves the files alone; `NewProcess` forgets the history object.

Abstractions:

* The optimizers accept as many iterates as they like within the budget they are given.
* `Layout(i)`, the layout of the control blocks, is the number of refinements up to stage `i`: the
  blocks of two stages fit together when no stage between them changes the controls.
* The configuration does not change between calls: the checks against another problem, layout,
  frequencies or regularization are left out, except for what a torn state file or another support makes of them.
* Whether a problem still has to discover its registry is not tracked: a call adopts the masks of either point.
* Two vectors of one size on different coordinates may have the same values, so both outcomes are possible.
* The first model is reported to the callback, as by the inexact Newton method and L-BFGS
  (`FirstIterate`). The proximal gradient method, which replaces them when native regularization is set, reports its
  iterates only (`inversion/optimization.py`): such an inversion takes the steps of the model without that one, and begins a
  stage without a record or a checkpoint of its first model. It is not modelled; a resumed call would then not
  record the checkpointed iterate again, on which `HistoryCovers` rests when a history was replaced.
* `history.save` and the checkpoint are atomic (`util/atomic.py`); the history has a path.
* Files survive a kill as they were written; a power failure, before which the state file is not synced, is not modelled.

`DurableDescent` says what is left when the three files and the ways through `run()` are forgotten: a model in the call,
one that can be resumed from, and one that was returned. An iterate may only be accepted on top of
what can be resumed from, and only in a stage beyond which nothing has been moved; a save is a moment without a readable
model and then the model of the call; an interruption empties the call; a return delivers what is on disk. `Durable` is the
*state file* if it can be read and a checkpoint names it: also after a torn save, when it has run ahead of the
checkpoint, a call that is not refused resumes from it.

### Linearizations

`cache` is the ordered dictionary of `LinearizationCache`, as the sequence of its keys from least to most recently
used; `known` are the tables `linearizations` of the problems and `_cache` of the extended problems; `files` the
state files on disk. `simulation[pr]` is the point whose coefficients the working simulation has,
`installed[pr]` the digest that `_sync_simulation` compares. `support[v]` stands for the masks a view has adopted, by
the point they were measured at, and so for its space. `latest` and `job` record what the last call returned and where its job ran.

`Reuse`, `Compute`, `JobFails` and `LinearizeFails` are the ways through `_linearize_state`: a result of the table on
the right space; a job and everything that follows it, `put`, the eviction and its `forget` included; a failing
task; an exception while the point is installed (`SyncFails`). `Act` is `_action_job`, with its
`Resync`. `RestrictView` is `restrict()` for a caller that goes on with the new view, `ClearCache` `clear_cache()`,
`DryRun` `dry_run()`. An extended problem takes the same actions with its own table; a problem of `with_controls`
is another member of `Problems`.

Abstractions:

* Of a directory only the state file matters: the directory is made again when it is needed. A problem that
  installs its points (`Inline`: material and interface blocks only) has none. The directory
  that a first call away from the authored point leaves under its provisional key is left out.
* The discovery of the registry before the first trial point is a call of `linearize()` at the authored point, as in
  the code, and a step of its own (`CanLinearize`).
* Callers act on what a table still has. A linearization that a caller holds after its eviction has lost its
  directory, and `Act` on it raises in the code.
* Masks of different points differ, which is the hard case; frequencies, active blocks, the misfit and mechanism
  blocks, which make other keys, are left out.
* `job` is recorded for points that are installed; a point in a file is what the solver reads.
* One thread calls. Threads of a family of jobs only wait for the backend.

## 3. Runs

Every cfg of the Slurm, local and FWI runs turns the deadlock check off: the user may stop submitting, and all
jobs end; an inversion is left alone once its interruptions and descents are used up. The scheduler runs keep it on (`Finished` is the only step of an ended scheduler), so
that they also show that `run` never reaches a state without a next step.

| Run | Bounds | Shows |
|---|---|---|
| `sched_shared` (about 10 000 states) | 3 tasks, every vector over 3 estimates (1, 9 and 40 quarter ranks), 5 ranks, at most 4 for a task, boost factor 2, tolerance 1 | `TypeOK`, `RanksPartitioned`, `PlanFeasible`, `MemoryProvided`, `TasksPartitioned`, `StatusTruthful`, `WorkConserving`, `LaunchWithinTolerance`, `ImplementsTaskPool`, `SweepEnds` |
| `sched_exclusive` (about 3 000 states) | 3 tasks, mpiexec, at most 4 of 5 ranks, rounded to 2, every failure tolerated | `LauncherAlone`, `SweepEnds` |
| `hpc_resubmit` (about 1 million states) | 2 submissions, 2 definitions, 1 task, forced submissions, client deaths; jobs are ended by themselves or by scancel | `TypeOK`, `RecordsNameJobs`, `OneLiveJobPerDefinition` |
| `hpc_status` (about 98 000 states) | 2 submissions of 1 definition, 2 tasks, tolerance 1 | `FailureIsOwn`, `WaitReturns` |
| `hpc_skip` | 2 submissions, 2 definitions | `SkipIsCurrent` is violated |
| `hpc_memory` | 1 submission, Slurm may end a job for its memory | `SuccessIsReal` is violated |
| `local_serial` (about 490 000 states) | 2 runs of 1 image job, 2 tasks, 2 contents of the job file, tolerance 0 or 1, postprocess and packing; timeouts, abandoned watches, lost workers | `TypeOK`, `RecordAgrees`, `CompletedIsBacked`, `ProductIsOfTasks`, `PostReadsQuietShards` |
| `local_siblings` (about 157 000 states) | 2 runs of 1 image job and 1 sweep in every combination, 1 task, with and without `shutdown_on_completion`; cancel and timeout | `SiblingsUndisturbed`, `Settles`, `RecordAgrees` |
| `local_skip` | 3 runs of 1 image job, 2 contents | `SkippedIsCurrent` is violated |
| `fwi_resume` (about 303 000 states) | 2 stages of 2 iterations, the second refined; 3 degrees of freedom, whose support moves with the model; 3 interruptions, 2 descents | `TypeOK`, `RefusalHasCause`, `BudgetKept`, `SizeHeld`, `HistoryCovers`, `DoneIsDone`, `LosesAtMostOne`, `Completes`, `ImplementsDescent` |
| `fwi_torn` | the same, with a support that never changes | `NeverRejected` is violated |
| `lin_cache` (about 88 000 states) | 2 problems: 1 installs its points and has 1 view, 1 stages them and has 2 views, of which 1 is extended and 1 is replaced; the authored point and 1 trial, at which alone the extended problem is linearized; capacity 2 | `TypeOK`, `CachedIsUsable`, `KnownIsCached`, `ReturnedOnSpace`, `RunsAtPoint`, `LatestStays` |

Why the bounds are enough. Three estimates give tasks that need one rank, several, and more than
there are; with five ranks and a limit of four, the free list is cut into up to three intervals,
frees merge with a left, a right and both neighbours, and boosted tasks compete with small ones.
With three tasks, one can fail within the tolerance and a second exceed it while the third runs or
waits; the safety properties are proved for every number of tasks. Two submissions are what every hazard of the client relates: an earlier run and a
later one; two definitions tell a stale result from a current one. Two tasks are needed only
where some fail within the tolerance. Two local runs are an earlier and a later one of a job, or two
siblings that share a client; two tasks are one that fails and one that succeeds, or one that is current and one
that is pending. In an inversion, two stages give a transition, a refined one a second layout; two iterations a stage
that is interrupted at its first, middle and last; three interruptions one that tears the files,
one that happens while recovering from it, and one more. Of the three degrees of freedom
(`MCSupported`), two take turns in the first stage, so that the masks change and not their size; in the second the size grows with the
iterate and is another one at the authored point. Of five keys of linearizations a cache of
two holds few enough for every eviction to happen, within a problem, between two of a family and between a problem and its extension; the two views of one problem may have adopted
different masks, replace each other's results, and inherit or refresh masks when one is made anew from the other. Symmetry (the two definitions are
interchangeable) is used only in `hpc_resubmit`, which checks no liveness.

### Fairness

* `WF(Scheduler)`: the scheduler is a running process with no blocking call but its one-second
  sleep. `WF(TaskExits(t))`: a solver process terminates. A sweep with a solver that never returns does not end in the
  code either, until Slurm's time limit.
* `SiteFairness`: Slurm dispatches its queue; a script that can go on does; every job has a time
  limit (`Kill`), so that a job that hangs is ended. It is not assumed of a job that is `Silent` (its scheduler hangs
  and the file says running): there the heartbeat must end the waiting. `hpc_status` gives `Kills` the state `TIMEOUT`.
  With a state that the client does not know, `wait()` without a timeout need not return
  (a hazard at `orchestrator/sites/hpc/site.py:1748`).
* `WF(SubmitBatch)`, `WF(RecordSiteRun)`, `WF(PollTerminal)`: a call of `submit()` goes on, and a
  handle that is waited for is polled in a loop. Nothing is assumed of editing, cancelling or
  submitting again.

* `LocalRunProps!Settles`: the caller waits on the handles it has, so `Advance`, for one of them, is taken
  again and again; workers run what they are given and solvers end (`Work`). Both have finitely much to
  do, so weak fairness of each as a whole is enough. Cancelling and timing out are never assumed.
* `Completes`: a call of `run()` goes on (`WF(Solve)`), and the caller calls it again after an interruption
  (`WF(Continue)`): the documentation's way of continuing. Interruptions are bounded by `MaxFaults`.

### Disagreements found

* `hpc_skip`. `_finalize_run_record` writes the final status of *any* run to the *latest* record.
  Submit definition 1, edit, submit definition 2 while the first run is still going, let the first
  run end and its handle be polled: the record of the second run becomes successful. If the second
  run is cancelled before it computes anything, its fingerprint is that of the job, its record is
  successful, and the results on the site are successful ones (of definition 1): the next
  `submit()` skips the job. `SkipIsCurrent` is the sentence of `is_run_current`'s docstring and of
  `src/docs/source/fast_solver_api_updates.rst:191`.
* `hpc_memory`. `OUT_OF_MEMORY` is in neither table of Slurm states. `update_status` takes the first
  row of the accounting that it knows, so when a step of the killed job had completed, the
  run is reported as a success.

* `local_skip`. For an image job, `is_run_current` asks whether the product *exists*; `needs_postprocess`
  whether it is older than a task output. Run the job, edit it, run it again: the tasks succeed and the
  postprocess step fails. The third `submit()` finds all tasks current and a product and skips the job,
  with a product of the first content.
* `fwi_torn`. An interruption inside `_write_checkpoint`, after the state file was truncated and before the
  checkpoint is replaced, leaves a state that is unreadable, newer than the checkpoint, or of the next
  stage's layout. `run(resume=True)` raises in all three cases, and every later call does the same, while the
  documentation says that it continues an interrupted stage (`src/docs/source/user_guide/imaging.rst:664`). The run supports every
degree of freedom everywhere, so that nothing else can be refused. Where the support moves with the model, the
documentation is also contradicted without a tear: a resumed stage adopts masks measured where it resumes, and is refused
when the vector on them is not the checkpointed one (`RefusalHasCause`; the message of `imaging/workflows.py:1561` knows
of it). In one case of a torn file it is *not* refused: torn at the
  first iterate of a stage (`stage_iteration` 0, no comparison), the stage continues from the
  newer state with its whole budget, which is why `BudgetKept` and `DoneIsDone` are stated for files that are not torn.

### Which properties say what

* `RanksPartitioned`: running tasks and the free list partition the ranks, free intervals are merged.
* `PlanFeasible`: what the planning loop decided on a copy holds for the real list, entry by entry.
* `WorkConserving`: no queued task fits in what is left when polling starts.
* `MemoryProvided`, `LauncherAlone`: what a running task is given.
* `TasksPartitioned`: every task is in one list, and the list tells the truth about its process.
* `LaunchWithinTolerance`: nothing starts after too many failures.
* `StatusTruthful`: the final state in the file is true.
* `SweepEnds`: the loop ends for every vector of estimates.
* `ImplementsTaskPool`: refinement of `TaskPool`, by `PoolState` and `PoolHeld`. A crashed scheduler
  stutters: its processes are orphans that the pool still counts as running.
* `RecordsNameJobs`, `OneLiveJobPerDefinition`: the book of runs and what `submit()` concludes from it.
* `FailureIsOwn`: the *newest* run of a definition is not blamed for the failure of the one
  before. For an older handle this is false of the code, which reads the shared status file: a run that completed but was not
  polled before the next submission can be reported with the failure of its successor.
* `WaitReturns`: a handle that is waited for is reported.
* `RecordAgrees`: whatever way a local run ends, a final status in the file that it wrote is its result.
* `CompletedIsBacked`, `ProductIsOfTasks`: what a completed run has on disk; `PostReadsQuietShards`: the
  postprocess step does not overlap a solver of a task. All three are stated for jobs of which no run was
  cut short: a solver that outlives its cancelled future writes when it likes, and the code has no guard against it.
* `SiblingsUndisturbed`: who may take away an execution. It is what the imaging backend relies on when
  it submits a family with `shutdown_on_completion=False`, "so the first sibling to finish
  cannot cancel the others" (`imaging/_backend.py:505`).
* `Settles`: every local run ends with a result, also when its executions are cancelled under it.
* `RefusalHasCause`: an inversion refuses its own files after a tear, or because the support is not everywhere the same on the way
  through the checkpointed stage; a plan or a history is refused after a tear only. The converse is not claimed.
* `SizeHeld`: resuming never makes a stage go on in a vector of another size than the masks of its start, or of the
  authored point, have. The size only: masks of that size with other coordinates pass if the values agree.
* `BudgetKept`, `DoneIsDone`: iterations are neither repeated nor skipped across interruptions.
* `HistoryCovers`, `LosesAtMostOne`: history and checkpoint are at most one iterate apart.
* `ImplementsDescent`: refinement of `DurableDescent`, by `Working`, `Durable` and `Result`; stated without `~torn`.
* `Completes`: an inversion that is run again after every interruption returns, unless it is torn or refused because of its
  masks.
* `CachedIsUsable`, `KnownIsCached`: table, cache and files agree, which three different calls must see to. An extended
  problem may return what has been evicted, since its table is not one of those that forget.
* `ReturnedOnSpace`: views with different masks share keys without seeing each other's results.
* `RunsAtPoint`: no job runs at another point of the shared simulation. The one exception is in the statement: an
  installation that raised leaves a simulation that is neither point under the digest of the old one.
* `LatestStays`: a trial does not evict its base.

## 4. Proofs

Assumed of the constants: `ConfigAssumption` (`AdaptiveScheduler`), the checks of the
constructor and of the site's configuration, with `1 <= MinRanks <= RankLimit` (the code refuses a `min_ranks` above the
limit, and not one below 1, which it treats like 1 as long as estimates are positive) and a finite
non-empty set of tasks; nothing is assumed of `CapRanks`, `RoundTo`, `BoostFactor` and the estimates but that they
are naturals. `ASSUME`s are evaluated by every run of the modules.

`RankIntervalsProofs` is about the free list alone: `TakeFromTakesRanks` and `FreeIntervalFreesRanks`
say which ranks the result of the two helpers covers and that it is again `Separated` (no two
intervals overlap or touch); `WholePoolIsOneInterval` says that when all the ranks are back, the list is again one
interval, so that the widest task fits.

`AdaptiveSchedulerProofs` proves `Spec => []IInv` with

    IInv == TypeOK /\ RanksPartitioned /\ TasksPartitioned /\ PlanFeasible /\ PhasesInOrder

None of the middle conjuncts is inductive alone. A poll frees the ranks an entry says it holds: that
they were not free already, and that nobody else holds them, is `RanksPartitioned`; that the entry
was there exactly once is `TasksPartitioned`. A launch allocates on the real list what was
decided on the copy: that it finds an interval, and that the interval is the planned one, is `PlanFeasible`, which
keeps the chain of simulated lists and survives a launch because the first fit is unique
(`FirstFitUnique`). `PhasesInOrder` adds that polling, which changes the free list, only happens when no plan is left, and
that a final state is published by a scheduler that has ended. There is one lemma per action;
`NextIInv` collects them.

From `IInv`: `SchedulerTypes`, `SchedulerPartitionsRanks`, `SchedulerPartitionsTasks`,
`SchedulerCarriesOutPlans`; with an invariant of its own (`LaunchesAreTolerable`: in the phases that plan and
launch the failures are within the tolerance) `SchedulerHonoursTolerance`; with `StatusNext`
`SchedulerStatusTruthful`. They hold for every number of tasks and ranks, every estimate and
configuration, and with crashes and aborts at any point.

The same module adds what a task is given. `GrantsKept`: every task in the plan or running has at
least `MinimumRanks`, boosted or not, and all of `MaxRanksPerTask` if the launcher cannot share. With
the arithmetic of the minimum (`MinimumCovers`: it covers the estimate, or is all that a task may have)
it yields `SchedulerProvidesMemory`; with `RanksPartitioned` it yields `SchedulerIsolatesLauncher`, since two
spans as long as the pool overlap. `SchedulerConservesWork` rests on `PlanExhausted`: while the plan is
carried out, no task outside it fits into what its last entry leaves, which by `PlanFeasible` is the
real list when polling starts.

`TaskPoolProofs` shows the refinement under `SimulationInv` (`IInv`, `LaunchesAreTolerable`, and
`AbortedAtEnd`: tasks are listed as aborted only by an ended scheduler): `Init` maps to `PoolInit`,
`Launch` to `Start`, `PollFinished` to `Settle`, `Abort` to `GiveUp`, every other step to a stutter.

`FwiRunProofs` proves `Spec => []IInv`, for any number of stages, budget, layouts and interruptions, with

    IInv == TypeOK /\ HistoryOfCall /\ StateOfCheckpoint /\ StepsInv /\ StagesInv
            /\ PlanRefusedTorn /\ DoneIsDone

That the plan and the history of a resumed call are not refused (`PlanRefusedTorn`) needs two facts about files: `StateOfCheckpoint` (outside a save, and as long as
nothing is torn, the state file is the model and layout of the checkpoint) and `HistoryOfCall` (a history is
final only if the checkpoint leaves no stage to solve). `BudgetKept` needs `StepsInv`, which follows the model of
the call as well as that of the checkpoint, and says that stages not begun have not moved the model.
`DoneIsDone` needs `StagesInv`: the stages before the present one are over, and the present one when a call
or a checkpoint says that it is completed. The ways in which a call returns share one lemma (`ReturnIInv`), the three steps of a
save another (`SaveIInv`). From it: `FwiTypes`, `FwiKeepsBudget`, `FwiDoneIsDone`. Assumed of the
constants: `FwiAssumption`.

The same module adds `HistoryInv == Kept(memory) /\ Kept(history) /\ CallKept /\ DescentsInv`, which needs `IInv`.
There are two histories, that of the process and that on disk, and a call may go on with either: both must have
the iterate of the checkpoint (`Covered`) and be at most an iterate ahead of the state file
(`Behind`), even when that file has run ahead of its checkpoint. `CallKept` says why a save keeps this: what a call writes is the
checkpointed iterate again, the start of a stage, or an iterate that it has recorded. `Known` and
`DescentsInv` say that no record belongs to a descent that has not begun, so that a new descent has none.
`RecordAdds` states what a record does to a history. From it: `FwiHistoryCovers`, `FwiLosesAtMostOne`.

The masks need a third invariant, `MasksInv`, on top of both: unless something is torn, the masks of the checkpoint and those of a call
*fit* their stage (`Fits`). They were measured at the authored point or at an iterate of the stage up to the
present one (`OnPath`), since that is where a call begins or resumes; and they are as many as those of the start of the stage or of the
authored point (`OfStart`), since a call that resumes within a stage compares its vector with the checkpointed one
(`ComparesWithCheckpoint`, which needs `StagesInv` and `CallKept`). `At` and `AtAt` let both follow a stage from iterate to iterate. A
refusal of the model then exhibits two points of the stage with different masks (`OverMasksInv`). From it:
`FwiRefusalHasCause`, `FwiSizeHeld`, for any support.

`FwiImplementsDescent` shows the refinement under `SimulationInv == IInv /\ HistoryInv /\ OrderInv`. That an iterate is
accepted on top of what is on disk is in `CallKept`. `OrderInv` is new: neither the model of a call nor the one on
disk has been moved beyond the stage it would be resumed at. It must hold for both the stage of the
call and the stage of the checkpoint, since in a torn save the state is of the one and the plan made from the other; that
is also why it does not follow from `StepsInv`, which says nothing of torn files. `Begin` maps to
`Begin`, `Resume` to `Recover`, `TruncateState` to `Replace`, `WriteState` (and, without an earlier checkpoint,
`WriteCheckpoint`) to `Save`, `Accept` to `Advance`, `Skip` and `Finish` to `Deliver`, the refusals and
interruptions to `Lose`, every other step to a stutter.

`LocalRunProofs` proves, for any number of runs, jobs and tasks and any tolerances, `Spec => []IInv` with

    IInv == TypeOK /\ HandlesInv /\ RecordsInv /\ KeysInv /\ ReadsInv

`LocalRecordAgrees` needs `RecordsInv`: a run-state file may be final before its handle has a result, but only as
"completed" and only while the run is being judged. `LocalSiblingsUndisturbed` needs `KeysInv`: what Dask holds
under the key of a job was created by a run of that job, so that releasing it can cancel nobody else's execution.
Every action is first shown to be a step of the Dask client, of a handle, of a record and of the data
(`DaskStep`, `HandleStep`, `RecordStep`, `DataStep`), which together keep `IInv` (`StepIInv`).

`LocalOutputsProofs` is about the outputs. `LocalPostReadsQuietShards` needs a second invariant,

    QuietInv == FuturesInv /\ Sequential /\ EndedInv

`Sequential` says that the runs of a job follow each other, `EndedInv` that the tasks of an uninterrupted job are
over once its postprocess step is submitted, and all its solvers once the run is. It lasts because
what is over stays over (`Settled`) and a job once interrupted remains so (`InterruptedKept`).

`LocalCompletedIsBacked` and `LocalProductIsOfTasks` relate a result to files that were written many steps earlier by the
executions of a shared Dask client, and read in between. They need a third invariant,

    OutputsInv == WantedInv /\ HeldInv /\ ErrorsInv /\ BackedInv

Dask gives a run the execution of an earlier one if that still exists under the same key, and then the run would
count, and its product be made of, work for another content. It does not exist, since what Dask knows is held by some run
(`WantedInv`) and a run that is over has let go of everything (`HeldInv`), unless it was cut short
(`ErrorsInv`: unreadable executions are such a case); `NotShared` concludes that every execution of a run is its own.
`BackedInv` then follows each unfinished run: its executions have read the content submitted, and
the product, once the postprocess step has succeeded, is of the shards as they are (`Sources`); a task not
backed by a committed output is still to be submitted, or has an execution that has not succeeded (`Committed`); and
the count that is compared with the tolerance is of the failed executions (`Counted`). That other runs do not
disturb it is `BackedKept`, from `Sequential`: the solvers of the earlier runs are over, and the later runs have not
begun. `TaskSolved` and `PostSolved` are the steps in which the files change. Since `CurrentTask` is
about a task's own file and the tolerance about a number, the theorem ends with a cardinality argument (`stale \subseteq bad`).
The hypothesis `~Interrupted` is needed: after a cancel or a timeout the solvers of the run before go on
writing, as the model shows when the hypothesis is left out. Assumed of the constants: `LocalAssumption`.

`HpcRunsProofs` proves, for any number of submissions, definitions and tasks, `Spec => []IInv` with

    IInv == TypeOK /\ RecordsNameJobs /\ OneLiveJobPerDefinition /\ CallIsChecked /\ SubmissionsInOrder

`OneLiveJobPerDefinition` is not inductive: between the checks of `submit()` and the return of `sbatch`, it
must remain true that whoever is alive with this definition is a job nobody will record
(`CallIsChecked`); that the checks establish it needs that the records name every job with the right definition
(`RecordsNameJobs`), and that it lasts needs that the site submits and revives nothing
(`NothingSubmitted`). A new job is later than all the others by `SubmissionsInOrder`, which also says that no
solver process starts before a definition is staged. From it: `SlurmRunsTypes`,
`RecordsStayTrue`, `SubmissionsNeverCollide`. Assumed of the constants: `SweepAssumption` and
`ClientAssumption`.

`FailuresAreOwn` has a second invariant on top of `IInv`, for runs that are `Undisturbed`: one definition,
nothing forced, no client that dies.

    StatusInv == Orderly /\ FailureIsOwn /\ \A j \in Jobs : Newest(j) => StatusOf(j)

`FailureIsOwn` reads a file that all the runs write, so `StatusOf` says what the file may hold while the newest job
waits, runs and has ended; in particular it says "failed" only when this job has a reason of its own. That no other job writes
needs `Orderly`: only the newest job is live, because every job is in the records (or about to be) and
`submit()` reattaches to a live one. The run `hpc_status` is of undisturbed runs, too: with a forced run the two live
jobs write the same file, and nothing of the kind is promised.

`SuccessIsReal` is violated in the run `hpc_memory`. `SuccessesAreReal` shows that nothing else can violate
it: if no job is ended out of memory (`InformedClient`), a run reported as successful has completed in Slurm, with any number of
edits, forced submissions and clients that die, and although the status file, which all jobs share, may belong to another. It
rests on two facts about steps: an ended job stays as it ended (`SlurmStep`), and a handle gets its success from
`update_status` alone (`SuccessIsPolled`).

`LinearizationsProofs` proves, for any number of problems, views, extensions and points and any capacity,
`Spec => []IInv` with

    IInv == TypeOK /\ Distinct(cache) /\ CachedIsUsable /\ KnownIsCached /\ ReturnedOnSpace /\ LatestIsLast

`KeptKeeps` says what a `put` leaves: the new entry last, all others but the evicted one, which is neither the new
one nor, with a capacity of two, what was used last; it needs that no key is cached twice (`Distinct`).
`LatestIsLast` (what was returned last is the most recently used, if it is cached) turns this into
`LatestSurvives`. `CachedStaysUsable` and `EvictedIsForgotten` follow from what `put`, `forget` and the tables do
to the same keys; `JobsRunAtPoint` is proved from the types alone. Assumed of the constants: `LinearizationsAssumption`.

Only model-checked: `SweepEnds`, `WaitReturns`, `Settles` and `Completes`: liveness under fairness is out of this
prover's reach. `SkipIsCurrent`, `SkippedIsCurrent` and `NeverRejected` are violated, as is `SuccessIsReal`
without the hypothesis above; of `NeverRejected`, `FwiRefusalHasCause` proves that there are two causes, a torn save and masks that differ. `SkipSizing`
is covered by the proofs and has no run of its own.

## 5. Not modelled, and why

* Numerics, plotting, authoring of models and meshes, seismic data: no protocol, floating point.
* SSH, file transfer, configuration files, credentials, solver lookup, command line, enterprise
  policy checks: I/O or pure validation.
* Skip policies and fingerprints of tasks, remote provenance, atomic publication, the AWS site with its
  tokens and worker, projects, MCP: planned below.
* Of imaging problems: views with other frequencies or blocks, mechanism scaling, the inner solves of an extension,
  and everything numerical.
* That a *forced* local run computes anew: Dask shares its executions with those of an earlier forced run
  whose futures were never released (after `watch(timeout)`). The code says nothing about it.
* Orphaned solvers against the next run of their job: in the model, but no property promises anything.
* Two clients that write `runs.json` of one job at the same time: planned.

## 6. Plan

In this order, the most important first:

1. `RankIntervals`, `AdaptiveScheduler`, `TaskPool`, with proofs. Done.
2. `SweepJob`, `HpcRuns`, with proofs. Done.
3. `LocalRun`, `FwiRun` and `Linearizations`, with proofs. Done.
4. `TaskPlan` (`run_state.py`, `remote.py`): which tasks a run computes and which it reuses, with the provenance
   of staged inputs; composed with `HpcRuns` by replacing "every submission runs all tasks".
   Property: what is reused or fetched was computed from the current definition.
5. `AtomicFile` (`util/atomic.py`): writers and readers with crashes between temp file, fsync, replace
   and the sync of the directory; an atomic register as the abstract specification and a refinement
   proof.
6. Cloud: job submission with retries, token cache shared by processes, result upload with cleanup.

Proofs, next: an abstract specification of the life of a run, which both `LocalRun` and `HpcRuns` implement; one of
the cache of linearizations; with the module, the refinement of the atomic register.
