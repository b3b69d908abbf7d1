----------------------- MODULE AdaptiveSchedulerProps -----------------------
(***************************************************************************)
(* What is required of the adaptive scheduler: invariants, properties of   *)
(* its steps, termination, and the abstract task pool it implements.       *)
(***************************************************************************)
EXTENDS AdaptiveScheduler

Entry == [task : TaskIndices, offset : Nat, ranks : Nat \ {0}]

Launching == [task : TaskIndices, offset : Nat, ranks : Nat \ {0},
              updated : SUBSET Interval]

Outcomes == {"none", "alive", "exited", "error", "killed"}

\* Type invariant of the state of AdaptiveScheduler.
TypeOK ==
  /\ memory \in [TaskIndices -> Nat]
  /\ pc \in {"plan", "launch", "poll"} \cup Ended
  /\ queue \subseteq TaskIndices
  /\ plan \in Seq(Launching)
  /\ simulated \subseteq Interval
  /\ free \subseteq Interval
  /\ running \subseteq Entry
  /\ unpolled \subseteq running
  /\ successful \subseteq TaskIndices
  /\ failed \subseteq TaskIndices
  /\ process \in [TaskIndices -> Outcomes]
  /\ status \in [state : {"running", "failed", "complete"},
                 running : SUBSET TaskIndices, successful : SUBSET TaskIndices,
                 failed : SUBSET TaskIndices, aborted : SUBSET TaskIndices]

-----------------------------------------------------------------------------
(* Ranks.                                                                  *)

EntrySpan(entry) == Span(entry.offset, entry.ranks)

\* No two running tasks share an MPI rank, and the allocate and free helpers
\* neither lose nor duplicate one: as long as the loop of run() goes on,
\* free_intervals and self.running partition the pool.  Touching free intervals
\* have been merged, so that no wide task waits for ranks that are free but cut
\* in two.
RanksPartitioned ==
  /\ \A entry, other \in running :
       entry # other => EntrySpan(entry) \cap EntrySpan(other) = {}
  /\ \A entry \in running : EntrySpan(entry) \cap RanksOf(free) = {}
  /\ Separated(free)
  /\ pc \notin {"aborted", "crashed"} =>
       RanksOf(free) \cup UNION {EntrySpan(entry) : entry \in running} = 0 .. (Pool - 1)

-----------------------------------------------------------------------------
(* The plan.                                                               *)

IsPlacement(entry, ivs) ==
  \E iv \in ivs :
    /\ IsFirstFit(iv, ivs, entry.ranks)
    /\ entry.offset = iv.start
    /\ entry.updated = TakeFrom(iv, ivs, entry.ranks)

\* The plan made on the copy of the free list can be carried out on the real
\* one, entry by entry and at the planned offsets, so that "Adaptive scheduler
\* allocation mismatch" is never raised and queue.remove always finds its task.
PlanFeasible ==
  /\ Planned \subseteq queue
  /\ \A i, j \in DOMAIN plan : plan[i].task = plan[j].task => i = j
  /\ plan # <<>> => IsPlacement(plan[1], free)
  /\ \A i \in 1 .. (Len(plan) - 1) : IsPlacement(plan[i + 1], plan[i].updated)
  /\ pc = "plan" =>
       simulated = IF plan = <<>> THEN free ELSE plan[Len(plan)].updated

\* The scheduler is work conserving: when it starts polling, no queued task
\* would fit into the ranks that are still free.
WorkConserving ==
  [][pc # "poll" /\ pc' = "poll" =>
       \A t \in queue' : ~Fits(free', MinimumRanks(t))]_vars

\* mpiexec and mpirun cannot isolate concurrent steps: a task they launch is
\* alone and has all the ranks of the pool, so that _launch_command never
\* refuses it.
LauncherAlone ==
  Exclusive =>
    /\ \A entry, other \in running : entry = other
    /\ \A entry \in running : entry.offset = 0 /\ entry.ranks = MaxRanksPerTask

\* Every task that runs was given enough ranks for its memory estimate, or as
\* many as a task may have.
MemoryProvided ==
  \A entry \in running :
    \/ entry.ranks * MemPerRank >= memory[entry.task]
    \/ entry.ranks >= AtMost(MaxRanksPerTask, TotalRanks)

-----------------------------------------------------------------------------
(* Tasks.                                                                  *)

\* Every task is in exactly one of the lists of the scheduler, and what the
\* lists say of its process is true, until the scheduler aborts or dies.
TasksPartitioned ==
  /\ \A entry, other \in running : entry.task = other.task => entry = other
  /\ \A t \in queue : process[t] = "none"
  /\ \A t \in RunningTasks : process[t] \in {"alive", "exited", "error"}
  /\ \A t \in successful : process[t] = "exited"
  /\ \A t \in failed : process[t] = "error"
  /\ queue \cap RunningTasks = {}
  /\ RunningTasks \cap (successful \cup failed) = {}
  /\ pc \notin {"aborted", "crashed"} =>
       queue \cup RunningTasks \cup successful \cup failed = TaskIndices

TolerableFailures(n) == FailureTolerance # NoTolerance => n <= FailureTolerance

\* No process is started once the failures exceed the tolerance.
LaunchWithinTolerance ==
  [][(\E t \in TaskIndices : process[t] = "none" /\ process'[t] = "alive")
       => TolerableFailures(Cardinality(failed))]_vars

-----------------------------------------------------------------------------
(* The status file.                                                        *)

\* The state published in scheduler_status.json can be believed: "complete"
\* means every task returned 0, "failed" means that some task failed and that
\* no process is left running.
StatusTruthful ==
  /\ status.state = "complete" => \A t \in TaskIndices : process[t] = "exited"
  /\ status.state = "failed" =>
       /\ \A t \in TaskIndices : process[t] # "alive"
       /\ failed # {}

\* Whatever the estimates, the loop of run() comes to an end: no task waits
\* for ever for ranks it will not be given.
SweepEnds == <>(pc \in Ended)

-----------------------------------------------------------------------------
(* The task pool that the scheduler implements.                            *)

PoolState ==
  [t \in TaskIndices |->
     IF t \in successful THEN "succeeded"
     ELSE IF t \in failed THEN "failed"
     ELSE IF t \in RunningTasks THEN "running"
     ELSE IF t \in status.aborted THEN "stopped"
     ELSE "waiting"]

PoolHeld ==
  [t \in TaskIndices |->
     UNION {EntrySpan(entry) : entry \in {e \in running : e.task = t}}]

PoolTolerates(tasks) == TolerableFailures(Cardinality(tasks))

TaskPool == INSTANCE TaskPool WITH
  Tasks <- TaskIndices, Ranks <- 0 .. (Pool - 1), Tolerated <- PoolTolerates,
  state <- PoolState, held <- PoolHeld

\* The scheduler implements the task pool: a task is started once, alone on
\* its ranks, its outcome is final, and nothing starts after giving up.
ImplementsTaskPool == TaskPool!PoolSpec
=============================================================================
