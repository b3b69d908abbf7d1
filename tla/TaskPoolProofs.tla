--------------------------- MODULE TaskPoolProofs ---------------------------
(***************************************************************************)
(* The adaptive scheduler implements the task pool: its initial state is   *)
(* an initial state of the pool, and each of its steps starts a task,      *)
(* settles one, gives up, or changes nothing that the pool can see.        *)
(***************************************************************************)
EXTENDS AdaptiveSchedulerProofs

\* Tasks are listed as aborted only by a scheduler that has aborted.
AbortedAtEnd == status.aborted # {} => pc = "aborted"

\* What the simulation needs to know of a reachable state.
SimulationInv == IInv /\ LaunchesAreTolerable /\ AbortedAtEnd

LEMMA AbortedInit == Init => AbortedAtEnd
BY DEF Init, AbortedAtEnd

LEMMA AbortedNext == AbortedAtEnd /\ [Next]_vars => AbortedAtEnd'
<1> SUFFICES ASSUME AbortedAtEnd, [Next]_vars PROVE AbortedAtEnd'
  OBVIOUS
<1>1. CASE Launch
  BY <1>1 DEF Launch, WriteStatus, AbortedAtEnd
<1>2. CASE EndPoll
  BY <1>2 DEF EndPoll, WriteStatus, AbortedAtEnd
<1>3. CASE Abort
  BY <1>3 DEF Abort, AbortedAtEnd
<1>4. CASE UNCHANGED status /\ (pc = "aborted" => pc' = "aborted")
  BY <1>4 DEF AbortedAtEnd
<1> QED
  BY <1>1, <1>2, <1>3, <1>4 DEF Next, Scheduler, Finished, PlanTask, EndPlan, LaunchError,
     TakeRanks, PollAlive, PollFinished, TaskExits, vars

LEMMA SimulationInvariant == Spec => []SimulationInv
BY InitIInv, NextIInv, ToleratedInit, ToleratedNext, AbortedInit, AbortedNext, PTL
   DEF Spec, SimulationInv

-----------------------------------------------------------------------------
(* The pool seen through the mapping.                                      *)

\* The failures the pool counts are those of the scheduler.
LEMMA MappedFailures == IInv => TaskPool!Failures = failed
<1> SUFFICES ASSUME IInv PROVE TaskPool!Failures = failed
  OBVIOUS
<1>1. failed \subseteq TaskIndices /\ failed \cap successful = {}
  BY DEF IInv, TypeOK, TasksPartitioned
<1>2. {t \in TaskIndices : PoolState[t] = "failed"} = failed
  BY <1>1 DEF PoolState
<1> QED
  BY <1>2 DEF TaskPool!Failures

LEMMA InitSimulates == Init => TaskPool!PoolInit
BY DEF Init, TaskPool!PoolInit, PoolState, PoolHeld, RunningTasks

LEMMA Stutters ==
  ASSUME UNCHANGED <<running, successful, failed>>, status'.aborted = status.aborted
  PROVE  UNCHANGED TaskPool!poolVars
BY DEF TaskPool!poolVars, PoolState, PoolHeld, RunningTasks, EntrySpan

\* What the mapping says of a task that is in one of the lists.
LEMMA MappedStates ==
  ASSUME SimulationInv, NEW t \in TaskIndices
  PROVE  /\ t \in RunningTasks => PoolState[t] = "running"
         /\ t \in queue /\ pc # "aborted" => PoolState[t] = "waiting"
         /\ PoolState[t] = "stopped" => pc = "aborted"
BY DEF SimulationInv, IInv, TypeOK, TasksPartitioned, AbortedAtEnd, PoolState

LEMMA LaunchSimulates ==
  ASSUME SimulationInv, Launch
  PROVE  \E t \in TaskIndices : \E ranks \in SUBSET (0 .. (Pool - 1)) :
           TaskPool!Start(t, ranks)
<1> DEFINE entry == Head(plan)
<1>1. PICK iv \in free :
        /\ IsFirstFit(iv, free, entry.ranks)
        /\ running' = running \cup
             {[task |-> entry.task, offset |-> iv.start, ranks |-> entry.ranks]}
  BY DEF Launch
<1> DEFINE new == [task |-> entry.task, offset |-> iv.start, ranks |-> entry.ranks]
           ranks == Span(iv.start, entry.ranks)
<1>2. /\ pc = "launch" /\ plan # <<>> /\ UNCHANGED <<successful, failed>>
      /\ status'.aborted = {}
  BY DEF Launch, TakeRanks, WriteStatus
<1>3. plan \in Seq(Launching) /\ 1 \in DOMAIN plan /\ entry = plan[1]
  BY <1>2 DEF SimulationInv, IInv, TypeOK
<1>4. entry \in Launching /\ entry.task \in queue
  BY <1>3 DEF SimulationInv, IInv, PlanFeasible, Planned
<1>5. /\ entry.task \in TaskIndices /\ entry.ranks \in Nat \ {0}
      /\ entry.task \notin RunningTasks \cup successful \cup failed
  BY <1>4 DEF Launching, SimulationInv, IInv, TasksPartitioned
<1>6. /\ iv.start \in Nat /\ ranks \subseteq RanksOf(free)
      /\ ranks # {} /\ ranks \subseteq 0 .. (Pool - 1)
  <2>1. iv.start \in Nat /\ ranks \subseteq RanksOf(free)
    BY <1>1, <1>5, TakenRanks DEF SimulationInv, IInv, TypeOK, RanksPartitioned
  <2>2. iv.start \in ranks
    BY <1>5, <2>1 DEF Span
  <2>3. RanksOf(free) \subseteq 0 .. (Pool - 1)
    BY <1>2 DEF SimulationInv, IInv, RanksPartitioned
  <2> QED
    BY <2>1, <2>2, <2>3
<1>7. new.task = entry.task /\ EntrySpan(new) = ranks /\ running' = running \cup {new}
  BY <1>1 DEF EntrySpan
<1> HIDE DEF entry, new, ranks
<1>8. PoolState[entry.task] = "waiting" /\ \A u \in TaskIndices : PoolState[u] # "stopped"
  BY <1>2, <1>4, <1>5, MappedStates
<1>9. PoolTolerates(TaskPool!Failures)
  BY <1>2, MappedFailures DEF SimulationInv, LaunchesAreTolerable, PoolTolerates
<1>10. \A u \in TaskIndices : PoolHeld[u] \cap ranks = {}
  BY <1>6 DEF PoolHeld, SimulationInv, IInv, RanksPartitioned
<1>11. PoolState' = [PoolState EXCEPT ![entry.task] = "running"]
  <2>1. RunningTasks' = RunningTasks \cup {entry.task}
    BY <1>7 DEF RunningTasks
  <2>2. \A u \in TaskIndices : u \in status.aborted => FALSE
    BY <1>2 DEF SimulationInv, AbortedAtEnd
  <2> QED
    BY <1>2, <1>5, <2>1, <2>2 DEF PoolState
<1>12. PoolHeld' = [PoolHeld EXCEPT ![entry.task] = ranks]
  <2>1. \A u \in TaskIndices :
          {e \in running' : e.task = u} =
            IF u = entry.task THEN {new} ELSE {e \in running : e.task = u}
    BY <1>5, <1>7 DEF RunningTasks
  <2>2. \A u \in TaskIndices : PoolHeld'[u] = IF u = entry.task THEN ranks ELSE PoolHeld[u]
    BY <1>7, <2>1 DEF PoolHeld, EntrySpan
  <2>3. PoolHeld' = [u \in TaskIndices |-> PoolHeld'[u]]
    BY DEF PoolHeld
  <2>4. PoolHeld = [u \in TaskIndices |-> PoolHeld[u]]
    BY DEF PoolHeld
  <2> QED
    BY <2>2, <2>3, <2>4
<1>13. TaskPool!Start(entry.task, ranks)
  BY <1>6, <1>8, <1>9, <1>10, <1>11, <1>12 DEF TaskPool!Start
<1> QED
  BY <1>5, <1>6, <1>13

LEMMA PollFinishedSimulates ==
  ASSUME SimulationInv, NEW entry \in unpolled, PollFinished(entry)
  PROVE  \E t \in TaskIndices : \E outcome \in {"succeeded", "failed"} :
           TaskPool!Settle(t, outcome)
<1> DEFINE t == entry.task
           outcome == IF process[t] = "exited" THEN "succeeded" ELSE "failed"
<1>1. /\ pc = "poll" /\ UNCHANGED status
      /\ running' = running \ {entry}
      /\ successful' = IF process[t] = "exited" THEN successful \cup {t} ELSE successful
      /\ failed' = IF process[t] = "exited" THEN failed ELSE failed \cup {t}
  BY DEF PollFinished
<1>2. entry \in running /\ t \in TaskIndices /\ t \in RunningTasks
  BY DEF SimulationInv, IInv, TypeOK, Entry, RunningTasks
<1>3. /\ t \notin successful /\ t \notin failed
      /\ \A e \in running : e.task = t => e = entry
      /\ status.aborted = {} /\ status'.aborted = {}
  BY <1>1, <1>2 DEF SimulationInv, IInv, TasksPartitioned, AbortedAtEnd
<1>4. PoolState[t] = "running"
  BY <1>2, MappedStates
<1>5. RunningTasks' = RunningTasks \ {t}
  BY <1>1, <1>2, <1>3 DEF RunningTasks
<1> HIDE DEF t
<1>6. PoolState' = [PoolState EXCEPT ![t] = outcome]
  BY <1>1, <1>2, <1>3, <1>5 DEF PoolState
<1>7. PoolHeld' = [PoolHeld EXCEPT ![t] = {}]
  <2>1. \A u \in TaskIndices :
          {e \in running' : e.task = u} =
            IF u = t THEN {} ELSE {e \in running : e.task = u}
    BY <1>1, <1>3 DEF t
  <2>2. \A u \in TaskIndices : PoolHeld'[u] = IF u = t THEN {} ELSE PoolHeld[u]
    BY <2>1 DEF PoolHeld, EntrySpan
  <2>3. PoolHeld' = [u \in TaskIndices |-> PoolHeld'[u]]
    BY DEF PoolHeld
  <2>4. PoolHeld = [u \in TaskIndices |-> PoolHeld[u]]
    BY DEF PoolHeld
  <2> QED
    BY <2>2, <2>3, <2>4
<1>8. TaskPool!Settle(t, outcome)
  BY <1>4, <1>6, <1>7 DEF TaskPool!Settle
<1> QED
  BY <1>2, <1>8

LEMMA AbortSimulates == SimulationInv /\ Abort => TaskPool!GiveUp
<1> SUFFICES ASSUME SimulationInv, Abort PROVE TaskPool!GiveUp
  OBVIOUS
<1>1. /\ pc = "poll" /\ ToleranceExceeded /\ running' = {}
      /\ UNCHANGED <<successful, failed>> /\ status'.aborted = RunningTasks
  BY DEF Abort, WriteStatus
<1>2. ~PoolTolerates(TaskPool!Failures)
  <2>1. Cardinality(failed) \in Nat
    BY FailedCardinality DEF SimulationInv
  <2>2. FailureTolerance \in Nat /\ Cardinality(failed) > FailureTolerance
    BY <1>1, ConfigAssumption DEF ToleranceExceeded
  <2> QED
    BY <2>1, <2>2, <1>1, MappedFailures
    DEF SimulationInv, PoolTolerates, TolerableFailures, ToleranceExceeded
<1>3. status.aborted = {} /\ RunningTasks' = {}
  BY <1>1 DEF SimulationInv, AbortedAtEnd, RunningTasks
<1>4. PoolState' = [t \in TaskIndices |->
                     IF PoolState[t] = "running" THEN "stopped" ELSE PoolState[t]]
  BY <1>1, <1>3 DEF PoolState
<1>5. PoolHeld' = [t \in TaskIndices |-> {}]
  BY <1>1 DEF PoolHeld
<1> QED
  BY <1>2, <1>4, <1>5 DEF TaskPool!GiveUp

LEMMA NextSimulates ==
  SimulationInv /\ [Next]_vars => [TaskPool!PoolNext]_(TaskPool!poolVars)
<1> SUFFICES ASSUME SimulationInv, [Next]_vars
             PROVE  TaskPool!PoolNext \/ UNCHANGED TaskPool!poolVars
  OBVIOUS
<1>1. CASE Launch
  BY <1>1, LaunchSimulates DEF TaskPool!PoolNext
<1>2. ASSUME NEW entry \in unpolled, PollFinished(entry)
      PROVE  TaskPool!PoolNext
  BY <1>2, PollFinishedSimulates DEF TaskPool!PoolNext
<1>3. CASE Abort
  BY <1>3, AbortSimulates DEF TaskPool!PoolNext
<1>4. CASE EndPoll
  <2>1. status.aborted = {}
    BY <1>4 DEF EndPoll, SimulationInv, AbortedAtEnd
  <2>2. status'.aborted = {} /\ UNCHANGED <<running, successful, failed>>
    BY <1>4 DEF EndPoll, WriteStatus
  <2> QED
    BY <2>1, <2>2, Stutters
<1>5. CASE UNCHANGED <<running, successful, failed, status>>
  BY <1>5, Stutters
<1> QED
  BY <1>1, <1>2, <1>3, <1>4, <1>5 DEF Next, Scheduler, Finished, PlanTask, EndPlan,
     LaunchError, PollAlive, TaskExits, vars

\* The scheduler implements the task pool, whatever it plans: each task is
\* started at most once, alone on its ranks, its outcome is final, and nothing
\* starts once the failures exceed the tolerance.
THEOREM SchedulerImplementsTaskPool == Spec => ImplementsTaskPool
<1>1. Init => TaskPool!PoolInit
  BY InitSimulates
<1>2. SimulationInv /\ [Next]_vars => [TaskPool!PoolNext]_(TaskPool!poolVars)
  BY NextSimulates
<1> QED
  BY <1>1, <1>2, SimulationInvariant, PTL DEF Spec, ImplementsTaskPool, TaskPool!PoolSpec
=============================================================================
