------------------------- MODULE AdaptiveScheduler -------------------------
(***************************************************************************)
(* The adaptive sweep scheduler that runs inside a Slurm allocation        *)
(* (orchestrator/sites/hpc/templates/sweep/adaptive_scheduler.py): it      *)
(* packs the tasks of a frequency sweep onto the MPI ranks of the          *)
(* allocation, one MPI process per task, and publishes what it does in     *)
(* scheduler_status.json.                                                  *)
(*                                                                         *)
(* Every round of AdaptiveScheduler.run has three phases:                  *)
(*   "plan"    decide, on a copy of the free list, which tasks to launch   *)
(*             and with how many ranks;                                    *)
(*   "launch"  allocate the ranks and start the processes, in plan order;  *)
(*   "poll"    collect the processes that have exited and free their       *)
(*             ranks.                                                      *)
(* Tasks exit whenever they like.                                          *)
(***************************************************************************)
EXTENDS RankIntervals, Sequences

CONSTANTS
  TaskIndices,      \* task_indices, the tasks submitted with this run
  MemoryEstimates,  \* possible estimates of a task, times mem_cushion
  TotalRanks,       \* ranks of the allocation
  MemPerRank,       \* mem_per_rank_gib, in the unit of the estimates
  MinRanks,         \* min_ranks
  RankLimit,        \* max_ranks_per_task of the configuration
  CapRanks,         \* int(total_ranks * cap_fraction)
  RoundTo,          \* round_to
  BoostFactor,      \* boost_max_factor
  SkipSizing,       \* skip_sizing: one task, no estimates
  Exclusive,        \* launched by mpiexec or mpirun, which cannot share
  FailureTolerance, \* failure_tolerance, or NoTolerance for None
  NoTolerance

ASSUME ConfigAssumption ==
  /\ IsFiniteSet(TaskIndices) /\ TaskIndices # {} /\ TaskIndices \subseteq Nat
  /\ MemoryEstimates \subseteq Nat
  /\ TotalRanks \in Nat \ {0}
  /\ MemPerRank \in Nat \ {0}
  /\ RankLimit \in Nat \ {0}
  /\ MinRanks \in 1 .. RankLimit
  /\ CapRanks \in Nat
  /\ RoundTo \in Nat
  /\ BoostFactor \in Nat
  /\ SkipSizing \in BOOLEAN
  /\ SkipSizing => Cardinality(TaskIndices) = 1
  /\ Exclusive \in BOOLEAN
  /\ FailureTolerance \in Nat \cup {NoTolerance}
  /\ NoTolerance \notin Nat

VARIABLES
  memory,      \* estimate of every task, as loaded from the sizing file
  pc,          \* phase of the round, or how the scheduler ended
  queue,       \* tasks not launched yet, in the order of Precedes
  plan,        \* launches decided in this round and not made yet
  simulated,   \* the free list as it will be after the plan
  free,        \* free_intervals
  running,     \* entries of self.running: task, offset, ranks
  unpolled,    \* entries the poll loop has still to look at
  successful,  \* successful_tasks
  failed,      \* failed_tasks
  process,     \* what the operating system knows of the process of a task
  status       \* the contents of scheduler_status.json

vars == <<memory, pc, queue, plan, simulated, free, running, unpolled,
          successful, failed, process, status>>

Ended == {"done", "aborted", "crashed"}

-----------------------------------------------------------------------------
(* Numbers of ranks.                                                       *)

AtLeast(x, y) == IF x >= y THEN x ELSE y

AtMost(x, y) == IF x <= y THEN x ELSE y

\* Mutant of CeilDiv: int() where the code has math.ceil.
FloorDiv(x, y) == x \div y

CeilDiv(x, y) == (x + y - 1) \div y

RoundUp(value, base) == IF base <= 1 THEN value ELSE CeilDiv(value, base) * base

MaxRanksPerTask ==
  IF Exclusive THEN AtMost(TotalRanks, RankLimit)
  ELSE AtMost(IF SkipSizing THEN TotalRanks ELSE AtLeast(1, CapRanks), RankLimit)

\* The ranks the scheduler hands out: 0 .. Pool - 1.
Pool == IF Exclusive THEN MaxRanksPerTask ELSE TotalRanks

WholePool == {[start |-> 0, length |-> Pool]}

\* Mutant of ChooseBaseRanks: the launcher is not looked at.
BaseRanksForAnyLauncher(t) ==
  AtMost(AtLeast(CeilDiv(memory[t], MemPerRank), MinRanks), MaxRanksPerTask)

\* Ranks that give a task the memory it needs, within the limits.
ChooseBaseRanks(t) ==
  IF Exclusive THEN MaxRanksPerTask
  ELSE LET needed  == AtLeast(CeilDiv(memory[t], MemPerRank), MinRanks)
           limited == AtMost(AtMost(needed, MaxRanksPerTask), TotalRanks)
           rounded == RoundUp(limited, RoundTo)
       IN  AtMost(AtMost(AtLeast(rounded, MinRanks), TotalRanks), MaxRanksPerTask)

MinimumRanks(t) ==
  AtMost(AtMost(AtLeast(ChooseBaseRanks(t), MinRanks), TotalRanks), MaxRanksPerTask)

RunningTasks == {entry.task : entry \in running}

RemainingMemory ==
  MapThenSumSet(LAMBDA t : memory[t], queue)
  + MapThenSumSet(LAMBDA entry : memory[entry.task], running)

\* Ranks a task may be boosted to: all that is free when it is the last one,
\* its share of the allocation when few tasks remain, its base otherwise.
MaximumRanks(t) ==
  LET base  == ChooseBaseRanks(t)
      share == CeilDiv(TotalRanks * memory[t], RemainingMemory)
      boosted ==
        IF Cardinality(queue) = 1 THEN TotalFreeRanks(free)
        ELSE IF /\ Cardinality(queue) + Cardinality(running) < TotalRanks
                /\ RemainingMemory > 0
             THEN AtMost(AtLeast(base, share), AtLeast(2, BoostFactor) * base)
             ELSE base
  IN  AtMost(AtMost(AtLeast(boosted, MinimumRanks(t)), MaxRanksPerTask), TotalRanks)

\* Order of the queue: decreasing estimate, then the order of submission.
Precedes(t, u) == memory[t] > memory[u] \/ (memory[t] = memory[u] /\ t < u)

-----------------------------------------------------------------------------
(* _write_status: the counters of the payload are the sizes of these sets. *)

WriteStatus(state, aborted) ==
  status' = [state      |-> state,
             running    |-> {entry.task : entry \in running'},
             successful |-> successful',
             failed     |-> failed',
             aborted    |-> aborted]

Init ==
  /\ memory \in [TaskIndices -> IF SkipSizing THEN {0} ELSE MemoryEstimates]
  /\ pc = "plan"
  /\ queue = TaskIndices
  /\ plan = <<>>
  /\ simulated = WholePool
  /\ free = WholePool
  /\ running = {}
  /\ unpolled = {}
  /\ successful = {}
  /\ failed = {}
  /\ process = [t \in TaskIndices |-> "none"]
  /\ status = [state |-> "running", running |-> {}, successful |-> {},
               failed |-> {}, aborted |-> {}]

-----------------------------------------------------------------------------
(* Planning.  The free list of the plan only shrinks, so a candidate that  *)
(* does not fit now is never planned later in the same round.              *)

Planned == {plan[i].task : i \in DOMAIN plan}

\* Mutant of Unplanned: the chosen tasks stay in the pool.
UnplannedForgetsChosen == queue

Unplanned == queue \ Planned

CanBoost(t) == Fits(simulated, MaximumRanks(t))

\* The boosted candidate that leaves the fewest ranks free, and of those the
\* first of the boost pool.
BestBoost(t) ==
  \A u \in Unplanned \ {t} : CanBoost(u) =>
    \/ MaximumRanks(t) > MaximumRanks(u)
    \/ MaximumRanks(t) = MaximumRanks(u) /\ Precedes(t, u)

\* Mutant of CanPlace: a task is placed with its boosted ranks or not at all.
CanPlaceBoostedOnly(t) == Fits(simulated, MaximumRanks(t))

CanPlace(t) == Fits(simulated, MinimumRanks(t))

BestPlacement(t) ==
  \A u \in Unplanned \ {t} : CanPlace(u) =>
    \/ MinimumRanks(t) > MinimumRanks(u)
    \/ MinimumRanks(t) = MinimumRanks(u) /\ Precedes(t, u)

NextInPlan(t, ranks) ==
  \/ ranks = MaximumRanks(t) /\ CanBoost(t) /\ BestBoost(t)
  \/ /\ \A u \in Unplanned : ~CanBoost(u)
     /\ ranks = MinimumRanks(t) /\ CanPlace(t) /\ BestPlacement(t)

\* Extend the plan by one task, with the interval it is expected to get.
PlanTask(t, ranks) ==
  /\ pc = "plan"
  /\ t \in Unplanned
  /\ NextInPlan(t, ranks)
  /\ \E iv \in simulated :
       /\ IsFirstFit(iv, simulated, ranks)
       /\ simulated' = TakeFrom(iv, simulated, ranks)
       /\ plan' = Append(plan, [task |-> t, offset |-> iv.start, ranks |-> ranks,
                                updated |-> simulated'])
  /\ UNCHANGED <<memory, pc, queue, free, running, unpolled, successful,
                 failed, process, status>>

\* No candidate fits any more.  With no launch planned the round goes on to
\* poll, which the code does only if something runs.
EndPlan ==
  /\ pc = "plan"
  /\ \A t \in Unplanned : ~CanBoost(t) /\ ~CanPlace(t)
  /\ plan # <<>> \/ running # {}
  /\ pc' = IF plan = <<>> THEN "poll" ELSE "launch"
  /\ unpolled' = IF plan = <<>> THEN running ELSE {}
  /\ UNCHANGED <<memory, queue, plan, simulated, free, running, successful,
                 failed, process, status>>

-----------------------------------------------------------------------------
(* Launching: the entry leaves the queue and takes its ranks from the real *)
(* free list before the process is started.                                *)

\* Mutant of TakeRanks: the entry is not removed from the queue.
TakeRanksKeepsQueue(entry) ==
  /\ pc = "launch"
  /\ plan # <<>>
  /\ entry = Head(plan)
  /\ plan' = Tail(plan)
  /\ queue' = queue

TakeRanks(entry) ==
  /\ pc = "launch"
  /\ plan # <<>>
  /\ entry = Head(plan)
  /\ plan' = Tail(plan)
  /\ queue' = queue \ {entry.task}

Launch ==
  /\ plan # <<>>
  /\ LET entry == Head(plan) IN
       /\ TakeRanks(entry)
       /\ \E iv \in free :
            /\ IsFirstFit(iv, free, entry.ranks)
            /\ free' = TakeFrom(iv, free, entry.ranks)
            /\ running' = running \cup
                 {[task |-> entry.task, offset |-> iv.start, ranks |-> entry.ranks]}
       /\ process' = [process EXCEPT ![entry.task] = "alive"]
  /\ pc' = IF Len(plan) = 1 THEN "poll" ELSE "launch"
  /\ unpolled' = IF Len(plan) = 1 THEN running' ELSE {}
  /\ UNCHANGED <<memory, simulated, successful, failed>>
  /\ WriteStatus("running", {})

\* The log file cannot be opened or Popen raises: the exception leaves run()
\* with the ranks taken, the task in no list and the other processes alive.
LaunchError ==
  /\ plan # <<>>
  /\ LET entry == Head(plan) IN
       /\ TakeRanks(entry)
       /\ \E iv \in free :
            /\ IsFirstFit(iv, free, entry.ranks)
            /\ free' = TakeFrom(iv, free, entry.ranks)
  /\ pc' = "crashed"
  /\ UNCHANGED <<memory, simulated, running, unpolled, successful, failed,
                 process, status>>

-----------------------------------------------------------------------------
(* Polling.  An entry that is found finished leaves self.running at the    *)
(* end of the loop in the code, and at once here: nothing reads the list   *)
(* in between.                                                             *)

PollAlive(entry) ==
  /\ pc = "poll"
  /\ entry \in unpolled
  /\ process[entry.task] = "alive"
  /\ unpolled' = unpolled \ {entry}
  /\ UNCHANGED <<memory, pc, queue, plan, simulated, free, running, successful,
                 failed, process, status>>

\* Mutant of PollFinished: a task that failed keeps its ranks.
PollFinishedLosesRanks(entry) ==
  /\ pc = "poll"
  /\ entry \in unpolled
  /\ process[entry.task] # "alive"
  /\ unpolled' = unpolled \ {entry}
  /\ running' = running \ {entry}
  /\ \/ /\ process[entry.task] = "exited"
        /\ free' = FreeInterval(free, entry.offset, entry.ranks)
        /\ successful' = successful \cup {entry.task}
        /\ UNCHANGED failed
     \/ /\ process[entry.task] # "exited"
        /\ failed' = failed \cup {entry.task}
        /\ UNCHANGED <<free, successful>>
  /\ UNCHANGED <<memory, pc, queue, plan, simulated, process, status>>

PollFinished(entry) ==
  /\ pc = "poll"
  /\ entry \in unpolled
  /\ process[entry.task] # "alive"
  /\ unpolled' = unpolled \ {entry}
  /\ running' = running \ {entry}
  /\ free' = FreeInterval(free, entry.offset, entry.ranks)
  /\ successful' = successful \cup
       {t \in {entry.task} : process[t] = "exited"}
  /\ failed' = failed \cup {t \in {entry.task} : process[t] # "exited"}
  /\ UNCHANGED <<memory, pc, queue, plan, simulated, process, status>>

\* Mutant of ToleranceExceeded: off by one.
ToleranceExceededTooLate ==
  /\ FailureTolerance # NoTolerance
  /\ Cardinality(failed) > FailureTolerance + 1

ToleranceExceeded ==
  /\ FailureTolerance # NoTolerance
  /\ Cardinality(failed) > FailureTolerance

\* Mutant of FinalState: the end of the loop is success.
FinalStateIgnoresFailures == "complete"

FinalState == IF failed # {} THEN "failed" ELSE "complete"

EndPoll ==
  /\ pc = "poll"
  /\ unpolled = {}
  /\ ~ToleranceExceeded
  /\ UNCHANGED <<memory, queue, free, running, unpolled, successful, failed, process>>
  /\ plan' = <<>>
  /\ simulated' = free
  /\ \/ /\ queue # {} \/ running # {}
        /\ pc' = "plan"
        /\ WriteStatus("running", {})
     \/ /\ queue = {} /\ running = {}
        /\ pc' = "done"
        /\ WriteStatus(FinalState, {})

\* _abort: stop every process that is listed as running, whether or not it
\* has exited since it was polled, and end with SystemExit.
Abort ==
  /\ pc = "poll"
  /\ unpolled = {}
  /\ ToleranceExceeded
  /\ pc' = "aborted"
  /\ process' = [t \in TaskIndices |->
                   IF t \in RunningTasks /\ process[t] = "alive" THEN "killed"
                                                                 ELSE process[t]]
  /\ running' = {}
  /\ UNCHANGED <<memory, queue, plan, simulated, free, unpolled, successful, failed>>
  /\ WriteStatus("failed", RunningTasks)

-----------------------------------------------------------------------------
(* The process of a task ends by itself, with return code 0 or another.    *)

TaskExits(t) ==
  /\ process[t] = "alive"
  /\ \E outcome \in {"exited", "error"} :
       process' = [process EXCEPT ![t] = outcome]
  /\ UNCHANGED <<memory, pc, queue, plan, simulated, free, running, unpolled,
                 successful, failed, status>>

Scheduler ==
  \/ \E t \in TaskIndices, ranks \in 1 .. MaxRanksPerTask : PlanTask(t, ranks)
  \/ EndPlan
  \/ Launch
  \/ LaunchError
  \/ \E entry \in unpolled : PollAlive(entry)
  \/ \E entry \in unpolled : PollFinished(entry)
  \/ EndPoll
  \/ Abort

Finished ==
  /\ pc \in Ended
  /\ \A t \in TaskIndices : process[t] # "alive"
  /\ UNCHANGED vars

Next ==
  \/ Scheduler
  \/ \E t \in TaskIndices : TaskExits(t)
  \/ Finished

\* The scheduler is a running process, and a solver process terminates.
Fairness ==
  /\ WF_vars(Scheduler)
  /\ \A t \in TaskIndices : WF_vars(TaskExits(t))

Spec == Init /\ [][Next]_vars /\ Fairness
=============================================================================
