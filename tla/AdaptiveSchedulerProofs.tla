---------------------- MODULE AdaptiveSchedulerProofs ----------------------
(***************************************************************************)
(* Safety of the adaptive scheduler, for every set of tasks, allocation,   *)
(* configuration and vector of memory estimates.                           *)
(*                                                                         *)
(* RanksPartitioned, TasksPartitioned and PlanFeasible depend on each      *)
(* other: ranks are freed where a running task says it holds them, and a   *)
(* launch finds its interval only because the plan was made from the list  *)
(* it is carried out on.  The inductive invariant is their conjunction,    *)
(* with the phases in which a plan or a final status can exist.            *)
(***************************************************************************)
EXTENDS AdaptiveSchedulerProps, RankIntervalsProofs, FiniteSetTheorems

\* Between rounds there is no plan, and a final state is published only by a
\* scheduler that has ended.
PhasesInOrder ==
  /\ pc = "poll" => plan = <<>>
  /\ status.state # "running" => pc \in {"done", "aborted"}

IInv ==
  /\ TypeOK
  /\ RanksPartitioned
  /\ TasksPartitioned
  /\ PlanFeasible
  /\ PhasesInOrder

-----------------------------------------------------------------------------

LEMMA LimitTypes ==
  /\ MaxRanksPerTask \in Nat \ {0}
  /\ Pool \in Nat \ {0}
  /\ 1 .. MaxRanksPerTask \subseteq Nat \ {0}
<1>1. MaxRanksPerTask \in Nat \ {0}
  BY ConfigAssumption DEF MaxRanksPerTask, AtMost, AtLeast
<1> QED
  BY <1>1, ConfigAssumption DEF Pool

\* The first fit is unique, so that the launch takes the interval of the plan.
LEMMA FirstFitUnique ==
  ASSUME NEW ivs \in SUBSET Interval, Separated(ivs), NEW ranks \in Nat,
         NEW iv, NEW other,
         IsFirstFit(iv, ivs, ranks), IsFirstFit(other, ivs, ranks)
  PROVE  iv = other
<1>1. iv \in ivs /\ other \in ivs /\ iv.start = other.start
  BY DEF IsFirstFit, Interval
<1>2. /\ iv.start < End(iv) /\ other.start < End(other)
      /\ iv.start \in Nat /\ End(iv) \in Nat /\ other.start \in Nat /\ End(other) \in Nat
  BY <1>1 DEF Interval, End
<1> QED
  BY <1>1, <1>2 DEF Separated

\* Taking a placement's interval from the free list for an entry that then
\* runs on it keeps the partition of the ranks.
LEMMA TakenRanks ==
  ASSUME free \in SUBSET Interval, Separated(free),
         NEW iv, NEW ranks \in Nat \ {0}, IsFirstFit(iv, free, ranks)
  PROVE  /\ TakeFrom(iv, free, ranks) \subseteq Interval
         /\ Separated(TakeFrom(iv, free, ranks))
         /\ iv.start \in Nat
         /\ Span(iv.start, ranks) \subseteq RanksOf(free)
         /\ RanksOf(TakeFrom(iv, free, ranks)) = RanksOf(free) \ Span(iv.start, ranks)
<1>1. iv \in free /\ iv.length >= ranks
  BY DEF IsFirstFit
<1>2. iv.start \in Nat
  BY <1>1 DEF Interval
<1> QED
  BY <1>1, <1>2, TakeFromTakesRanks

-----------------------------------------------------------------------------

LEMMA InitIInv == Init => IInv
<1> SUFFICES ASSUME Init PROVE IInv
  OBVIOUS
<1>1. WholePool \subseteq Interval
  BY LimitTypes DEF WholePool, Interval
<1>2. TypeOK
  <2>1. memory \in [TaskIndices -> Nat]
    <3>1. MemoryEstimates \subseteq Nat
      BY ConfigAssumption
    <3>2. PICK estimates \in {{0}, MemoryEstimates} :
            memory \in [TaskIndices -> estimates]
      BY DEF Init
    <3>3. estimates \subseteq Nat
      BY <3>1
    <3> QED
      BY <3>2, <3>3
  <2> QED
    BY <1>1, <2>1 DEF Init, TypeOK, Entry, Launching, Outcomes, Ended
<1>3. RanksPartitioned
  <2>1. RanksOf(free) = 0 .. (Pool - 1)
    <3>1. RanksOf(WholePool) = Span(0, Pool)
      BY DEF RanksOf, WholePool
    <3> QED
      BY <3>1, LimitTypes DEF Init, Span
  <2>2. Separated(free)
    BY DEF Init, WholePool, Separated
  <2> QED
    BY <2>1, <2>2 DEF Init, RanksPartitioned
<1>4. TasksPartitioned
  BY DEF Init, TasksPartitioned, RunningTasks
<1>5. PlanFeasible
  BY DEF Init, PlanFeasible, Planned
<1>6. PhasesInOrder
  BY DEF Init, PhasesInOrder
<1> QED
  BY <1>2, <1>3, <1>4, <1>5, <1>6 DEF IInv

-----------------------------------------------------------------------------

LEMMA PlanTaskIInv ==
  ASSUME IInv, NEW t \in TaskIndices, NEW ranks \in 1 .. MaxRanksPerTask,
         PlanTask(t, ranks)
  PROVE  IInv'
<1>1. ranks \in Nat \ {0}
  BY LimitTypes
<1>2. PICK iv \in simulated :
        /\ IsFirstFit(iv, simulated, ranks)
        /\ simulated' = TakeFrom(iv, simulated, ranks)
        /\ plan' = Append(plan, [task |-> t, offset |-> iv.start, ranks |-> ranks,
                                 updated |-> simulated'])
  BY DEF PlanTask
<1> DEFINE entry == [task |-> t, offset |-> iv.start, ranks |-> ranks,
                     updated |-> simulated']
<1>3. UNCHANGED <<memory, pc, queue, free, running, unpolled, successful,
                  failed, process, status>>
  BY DEF PlanTask
<1>4. iv \in Interval /\ iv.length >= ranks
  BY <1>2 DEF IInv, TypeOK, IsFirstFit
<1>5. simulated' \subseteq Interval
  <2>1. iv.length # ranks =>
          [start |-> iv.start + ranks, length |-> iv.length - ranks] \in Interval
    BY <1>1, <1>4 DEF Interval
  <2> QED
    BY <2>1, <1>2 DEF TakeFrom, IInv, TypeOK
<1>6. entry \in Launching
  BY <1>1, <1>4, <1>5 DEF Launching, Interval
<1>7. plan \in Seq(Launching) /\ plan' \in Seq(Launching) /\ plan' # <<>>
  BY <1>2, <1>6 DEF IInv, TypeOK
<1>8. /\ Len(plan') = Len(plan) + 1
      /\ \A i \in 1 .. Len(plan) : plan'[i] = plan[i]
      /\ plan'[Len(plan) + 1] = entry
      /\ DOMAIN plan' = 1 .. (Len(plan) + 1)
      /\ DOMAIN plan = 1 .. Len(plan)
      /\ Len(plan) \in Nat
  BY <1>2, <1>6, <1>7
<1>9. TypeOK'
  BY <1>3, <1>5, <1>7 DEF IInv, TypeOK
<1>10. RanksPartitioned'
  BY <1>3 DEF IInv, RanksPartitioned, EntrySpan
<1>11. TasksPartitioned'
  BY <1>3 DEF IInv, TasksPartitioned, RunningTasks
<1>12. PlanFeasible'
  <2>1. pc = "plan" /\ t \in queue /\ t \notin Planned
    BY DEF PlanTask, Unplanned
  <2>2. simulated = IF plan = <<>> THEN free ELSE plan[Len(plan)].updated
    BY <2>1 DEF IInv, PlanFeasible
  <2>3. entry.task = t /\ entry.updated = simulated' /\ entry.ranks = ranks
        /\ entry.offset = iv.start
    OBVIOUS
  <2>4. IsPlacement(entry, simulated)
    BY <1>2, <2>3 DEF IsPlacement
  <2> HIDE DEF entry
  <2>5. Planned' = Planned \cup {t}
    BY <1>8, <2>3 DEF Planned
  <2>6. \A i \in DOMAIN plan : plan[i].task # t
    BY <2>1 DEF Planned
  <2>7. \A i, j \in DOMAIN plan' : plan'[i].task = plan'[j].task => i = j
    <3> SUFFICES ASSUME NEW i \in DOMAIN plan', NEW j \in DOMAIN plan',
                        plan'[i].task = plan'[j].task
                 PROVE  i = j
      OBVIOUS
    <3>1. CASE i \in DOMAIN plan /\ j \in DOMAIN plan
      BY <3>1, <1>8 DEF IInv, PlanFeasible
    <3>2. CASE i = Len(plan) + 1
      BY <3>2, <1>8, <2>3, <2>6
    <3>3. CASE j = Len(plan) + 1
      BY <3>3, <1>8, <2>3, <2>6
    <3> QED
      BY <3>1, <3>2, <3>3, <1>8
  <2>8. IsPlacement(plan'[1], free')
    <3>1. CASE plan = <<>>
      <4>1. Len(plan) = 0 /\ simulated = free
        BY <3>1, <2>2
      <4> QED
        BY <4>1, <1>3, <1>8, <2>4
    <3>2. CASE plan # <<>>
      <4>1. 1 \in 1 .. Len(plan)
        BY <3>2, <1>7
      <4>2. IsPlacement(plan[1], free)
        BY <3>2 DEF IInv, PlanFeasible
      <4> QED
        BY <4>1, <4>2, <1>3, <1>8
    <3> QED
      BY <3>1, <3>2
  <2>9. ASSUME NEW i \in 1 .. (Len(plan') - 1)
        PROVE  IsPlacement(plan'[i + 1], plan'[i].updated)
    <3>1. i \in 1 .. Len(plan)
      BY <1>8
    <3>2. CASE i = Len(plan)
      <4>1. plan # <<>> /\ simulated = plan[i].updated
        BY <3>1, <3>2, <2>2, <1>7
      <4> QED
        BY <4>1, <3>1, <3>2, <2>4, <1>8
    <3>3. CASE i # Len(plan)
      <4>0. Len(plan) \in Nat
        BY <1>8
      <4>1. i \in 1 .. (Len(plan) - 1) /\ i + 1 \in 1 .. Len(plan)
        BY <3>1, <3>3, <4>0
      <4>2. IsPlacement(plan[i + 1], plan[i].updated)
        BY <4>1 DEF IInv, PlanFeasible
      <4> QED
        BY <4>1, <4>2, <3>1, <1>8
    <3> QED
      BY <3>2, <3>3
  <2>10. plan'[Len(plan')].updated = simulated'
    BY <1>8, <2>3
  <2> QED
    BY <2>1, <2>5, <2>7, <2>8, <2>9, <2>10, <1>3, <1>7 DEF IInv, PlanFeasible
<1>13. PhasesInOrder'
  BY <1>3 DEF PlanTask, IInv, PhasesInOrder
<1> QED
  BY <1>9, <1>10, <1>11, <1>12, <1>13 DEF IInv

LEMMA EndPlanIInv == IInv /\ EndPlan => IInv'
<1> SUFFICES ASSUME IInv, EndPlan PROVE IInv'
  OBVIOUS
<1>1. UNCHANGED <<memory, queue, plan, simulated, free, running, successful,
                  failed, process, status>>
  BY DEF EndPlan
<1>2. pc = "plan" /\ pc' \in {"poll", "launch"} /\ (pc' = "poll" => plan = <<>>)
  BY DEF EndPlan
<1>3. unpolled' \subseteq running'
  BY <1>1 DEF EndPlan
<1>4. TypeOK'
  BY <1>1, <1>2, <1>3 DEF IInv, TypeOK
<1>5. RanksPartitioned'
  BY <1>1, <1>2 DEF IInv, RanksPartitioned, EntrySpan
<1>6. TasksPartitioned'
  BY <1>1, <1>2 DEF IInv, TasksPartitioned, RunningTasks
<1>7. PlanFeasible'
  BY <1>1, <1>2 DEF IInv, PlanFeasible, Planned
<1>8. PhasesInOrder'
  BY <1>1, <1>2 DEF IInv, PhasesInOrder
<1> QED
  BY <1>4, <1>5, <1>6, <1>7, <1>8 DEF IInv

-----------------------------------------------------------------------------
(* Launching.                                                              *)

\* What TakeRanks leaves of the plan can still be carried out: the interval
\* that is taken from the real list is the planned one.
LEMMA TakeRanksFeasible ==
  ASSUME IInv, NEW iv, TakeRanks(Head(plan)),
         IsFirstFit(iv, free, Head(plan).ranks),
         free' = TakeFrom(iv, free, Head(plan).ranks),
         simulated' = simulated, pc' # "plan"
  PROVE  /\ plan \in Seq(Launching) /\ plan # <<>> /\ plan' = Tail(plan)
         /\ Head(plan) \in Launching
         /\ Head(plan).task \in queue
         /\ plan' \in Seq(Launching)
         /\ PlanFeasible'
<1>1. plan \in Seq(Launching) /\ plan # <<>> /\ plan' = Tail(plan)
      /\ pc = "launch" /\ queue' = queue \ {Head(plan).task}
  BY DEF TakeRanks, IInv, TypeOK
<1>2. Head(plan) = plan[1] /\ Head(plan) \in Launching /\ Len(plan) \in Nat \ {0}
      /\ DOMAIN plan = 1 .. Len(plan)
  BY <1>1
<1>3. /\ plan' \in Seq(Launching) /\ Len(plan') = Len(plan) - 1
      /\ DOMAIN plan' = 1 .. (Len(plan) - 1)
      /\ \A i \in 1 .. (Len(plan) - 1) : plan'[i] = plan[i + 1]
  BY <1>1, <1>2
<1>4. Planned \subseteq queue
  BY DEF IInv, PlanFeasible
<1>5. \A i, j \in DOMAIN plan : plan[i].task = plan[j].task => i = j
  BY DEF IInv, PlanFeasible
<1>6. Head(plan).task \in queue
  BY <1>2, <1>4 DEF Planned
<1>7. free' = plan[1].updated
  <2>1. PICK planned \in free :
          /\ IsFirstFit(planned, free, plan[1].ranks)
          /\ plan[1].updated = TakeFrom(planned, free, plan[1].ranks)
    BY <1>1 DEF IInv, PlanFeasible, IsPlacement
  <2>2. plan[1].ranks \in Nat
    BY <1>2 DEF Launching
  <2>3. planned = iv
    BY <1>2, <2>1, <2>2, FirstFitUnique DEF IInv, TypeOK, RanksPartitioned
  <2> QED
    BY <2>1, <2>3, <1>2
<1>8. Planned' \subseteq queue'
  <2> SUFFICES ASSUME NEW i \in 1 .. (Len(plan) - 1) PROVE plan'[i].task \in queue'
    BY <1>3 DEF Planned
  <2>1. i + 1 \in DOMAIN plan /\ 1 \in DOMAIN plan /\ i + 1 # 1
    BY <1>2
  <2>2. plan[i + 1].task \in queue /\ plan[i + 1].task # plan[1].task
    BY <2>1, <1>4, <1>5 DEF Planned
  <2> QED
    BY <2>2, <1>1, <1>2, <1>3
<1>9. \A i, j \in DOMAIN plan' : plan'[i].task = plan'[j].task => i = j
  <2> SUFFICES ASSUME NEW i \in 1 .. (Len(plan) - 1), NEW j \in 1 .. (Len(plan) - 1),
                      plan[i + 1].task = plan[j + 1].task
               PROVE  i = j
    BY <1>3
  <2>1. i + 1 \in DOMAIN plan /\ j + 1 \in DOMAIN plan
    BY <1>2
  <2>2. i + 1 = j + 1
    BY <2>1, <1>5
  <2> QED
    BY <2>2
<1>10. plan' # <<>> => IsPlacement(plan'[1], free')
  <2> SUFFICES ASSUME plan' # <<>> PROVE IsPlacement(plan'[1], free')
    OBVIOUS
  <2>1. 1 \in 1 .. (Len(plan) - 1)
    BY <1>2, <1>3
  <2>2. IsPlacement(plan[1 + 1], plan[1].updated)
    BY <2>1 DEF IInv, PlanFeasible
  <2> QED
    BY <2>1, <2>2, <1>3, <1>7
<1>11. \A i \in 1 .. (Len(plan') - 1) : IsPlacement(plan'[i + 1], plan'[i].updated)
  <2> SUFFICES ASSUME NEW i \in 1 .. (Len(plan') - 1)
               PROVE  IsPlacement(plan'[i + 1], plan'[i].updated)
    OBVIOUS
  <2>1. Len(plan) \in Nat /\ Len(plan') = Len(plan) - 1
    BY <1>2, <1>3
  <2>2. i \in 1 .. (Len(plan) - 1) /\ i + 1 \in 1 .. (Len(plan) - 1)
    BY <2>1
  <2>3. IsPlacement(plan[(i + 1) + 1], plan[i + 1].updated)
    BY <2>2 DEF IInv, PlanFeasible
  <2> QED
    BY <2>2, <2>3, <1>3
<1>12. PlanFeasible'
  BY <1>8, <1>9, <1>10, <1>11 DEF PlanFeasible
<1> QED
  BY <1>1, <1>2, <1>3, <1>6, <1>12

LEMMA LaunchIInv == IInv /\ Launch => IInv'
<1> SUFFICES ASSUME IInv, Launch PROVE IInv'
  OBVIOUS
<1> DEFINE entry == Head(plan)
<1>1. PICK iv \in free :
        /\ IsFirstFit(iv, free, entry.ranks)
        /\ free' = TakeFrom(iv, free, entry.ranks)
        /\ running' = running \cup
             {[task |-> entry.task, offset |-> iv.start, ranks |-> entry.ranks]}
  BY DEF Launch
<1> DEFINE new == [task |-> entry.task, offset |-> iv.start, ranks |-> entry.ranks]
<1>2. /\ TakeRanks(entry) /\ plan # <<>> /\ pc = "launch" /\ pc' \in {"poll", "launch"}
      /\ queue' = queue \ {entry.task}
      /\ process' = [process EXCEPT ![entry.task] = "alive"]
      /\ UNCHANGED <<memory, simulated, successful, failed>>
  BY DEF Launch, TakeRanks
<1>3. /\ plan \in Seq(Launching) /\ plan' = Tail(plan) /\ entry \in Launching
      /\ entry.task \in queue
      /\ plan' \in Seq(Launching)
      /\ PlanFeasible'
  BY <1>1, <1>2, TakeRanksFeasible
<1>4. entry.ranks \in Nat \ {0} /\ entry.task \in TaskIndices
  BY <1>3 DEF Launching
<1>5. /\ free' \subseteq Interval
      /\ Separated(free')
      /\ iv.start \in Nat
      /\ Span(iv.start, entry.ranks) \subseteq RanksOf(free)
      /\ RanksOf(free') = RanksOf(free) \ Span(iv.start, entry.ranks)
  BY <1>1, <1>4, TakenRanks DEF IInv, TypeOK, RanksPartitioned
<1>6. new \in Entry /\ new.task = entry.task /\ new.offset = iv.start
      /\ new.ranks = entry.ranks
  BY <1>4, <1>5 DEF Entry
<1>7. running' = running \cup {new}
  BY <1>1
<1>8. status' = [state |-> "running", running |-> RunningTasks',
                 successful |-> successful, failed |-> failed, aborted |-> {}]
  BY <1>2 DEF Launch, WriteStatus, RunningTasks
<1>9. RunningTasks' = RunningTasks \cup {entry.task}
  BY <1>6, <1>7 DEF RunningTasks
<1> HIDE DEF new, entry
<1>10. TypeOK'
  <2>1. RunningTasks' \subseteq TaskIndices
    <3>1. RunningTasks \subseteq TaskIndices
      BY DEF IInv, TypeOK, RunningTasks, Entry
    <3> QED
      BY <3>1, <1>9, <1>4
  <2>2. status' \in [state : {"running", "failed", "complete"},
                     running : SUBSET TaskIndices, successful : SUBSET TaskIndices,
                     failed : SUBSET TaskIndices, aborted : SUBSET TaskIndices]
    BY <1>8, <2>1 DEF IInv, TypeOK
  <2>3. process' \in [TaskIndices -> Outcomes]
    BY <1>2, <1>4 DEF IInv, TypeOK, Outcomes
  <2>4. unpolled' \subseteq running'
    BY DEF Launch
  <2>5. running' \subseteq Entry
    BY <1>6, <1>7 DEF IInv, TypeOK
  <2> QED
    BY <1>2, <1>3, <1>5, <2>2, <2>3, <2>4, <2>5 DEF IInv, TypeOK
<1>11. RanksPartitioned'
  <2>1. EntrySpan(new) = Span(iv.start, entry.ranks)
    BY <1>6 DEF EntrySpan
  <2>2. \A e \in running : EntrySpan(e) \cap EntrySpan(new) = {}
    BY <2>1, <1>5 DEF IInv, RanksPartitioned
  <2>3. \A e, other \in running' : e # other => EntrySpan(e) \cap EntrySpan(other) = {}
    BY <2>2, <1>7 DEF IInv, RanksPartitioned
  <2>4. \A e \in running' : EntrySpan(e) \cap RanksOf(free') = {}
    BY <2>1, <1>5, <1>7 DEF IInv, RanksPartitioned
  <2>5. UNION {EntrySpan(e) : e \in running'}
          = (UNION {EntrySpan(e) : e \in running}) \cup EntrySpan(new)
    BY <1>7
  <2>6. RanksOf(free') \cup UNION {EntrySpan(e) : e \in running'} = 0 .. (Pool - 1)
    <3>1. RanksOf(free) \cup UNION {EntrySpan(e) : e \in running} = 0 .. (Pool - 1)
      BY <1>2 DEF IInv, RanksPartitioned
    <3> QED
      BY <3>1, <2>1, <2>5, <1>5
  <2> QED
    BY <2>3, <2>4, <2>6, <1>5 DEF RanksPartitioned, EntrySpan
<1>12. TasksPartitioned'
  <2>1. entry.task \notin RunningTasks /\ entry.task \notin successful \cup failed
    BY <1>3 DEF IInv, TasksPartitioned
  <2>2. \A e, other \in running' : e.task = other.task => e = other
    BY <2>1, <1>6, <1>7 DEF IInv, TasksPartitioned, RunningTasks
  <2>3. \A u \in TaskIndices : process'[u] = IF u = entry.task THEN "alive" ELSE process[u]
    BY <1>2, <1>4 DEF IInv, TypeOK
  <2>4. RunningTasks \subseteq TaskIndices
    BY DEF IInv, TypeOK, RunningTasks, Entry
  <2> QED
    BY <2>1, <2>2, <2>3, <2>4, <1>2, <1>3, <1>4, <1>9 DEF IInv, TypeOK, TasksPartitioned
<1>13. PhasesInOrder'
  <2>1. pc' = "poll" => Len(plan) = 1
    BY DEF Launch
  <2>2. Len(plan) = 1 => Tail(plan) = <<>>
    BY <1>3
  <2> QED
    BY <2>1, <2>2, <1>3, <1>8 DEF PhasesInOrder
<1> QED
  BY <1>3, <1>10, <1>11, <1>12, <1>13 DEF IInv

LEMMA LaunchErrorIInv == IInv /\ LaunchError => IInv'
<1> SUFFICES ASSUME IInv, LaunchError PROVE IInv'
  OBVIOUS
<1> DEFINE entry == Head(plan)
<1>1. PICK iv \in free :
        /\ IsFirstFit(iv, free, entry.ranks)
        /\ free' = TakeFrom(iv, free, entry.ranks)
  BY DEF LaunchError
<1>2. /\ TakeRanks(entry) /\ plan # <<>> /\ pc' = "crashed" /\ queue' = queue \ {entry.task}
      /\ UNCHANGED <<memory, simulated, running, unpolled, successful, failed,
                     process, status>>
  BY DEF LaunchError, TakeRanks
<1>3. /\ entry \in Launching /\ plan' \in Seq(Launching) /\ PlanFeasible'
  BY <1>1, <1>2, TakeRanksFeasible
<1>4. entry.ranks \in Nat \ {0}
  BY <1>3 DEF Launching
<1>5. /\ free' \subseteq Interval
      /\ Separated(free')
      /\ RanksOf(free') \subseteq RanksOf(free)
  BY <1>1, <1>4, TakenRanks DEF IInv, TypeOK, RanksPartitioned
<1>6. TypeOK'
  BY <1>2, <1>3, <1>5 DEF IInv, TypeOK, Ended
<1>7. RanksPartitioned'
  BY <1>2, <1>5 DEF IInv, RanksPartitioned, EntrySpan
<1>8. TasksPartitioned'
  BY <1>2 DEF IInv, TasksPartitioned, RunningTasks
<1>9. status'.state = "running"
  BY <1>2 DEF IInv, PhasesInOrder, TakeRanks
<1>10. PhasesInOrder'
  BY <1>2, <1>9 DEF PhasesInOrder
<1> QED
  BY <1>3, <1>6, <1>7, <1>8, <1>10 DEF IInv

-----------------------------------------------------------------------------
(* Polling.                                                                *)

LEMMA PollAliveIInv ==
  ASSUME IInv, NEW entry \in unpolled, PollAlive(entry)
  PROVE  IInv'
<1>1. UNCHANGED <<memory, pc, queue, plan, simulated, free, running, successful,
                  failed, process, status>>
  BY DEF PollAlive
<1>2. TypeOK'
  BY <1>1 DEF PollAlive, IInv, TypeOK
<1>3. RanksPartitioned'
  BY <1>1 DEF IInv, RanksPartitioned, EntrySpan
<1>4. TasksPartitioned'
  BY <1>1 DEF IInv, TasksPartitioned, RunningTasks
<1>5. PlanFeasible'
  BY <1>1 DEF IInv, PlanFeasible, Planned
<1>6. PhasesInOrder'
  BY <1>1 DEF IInv, PhasesInOrder
<1> QED
  BY <1>2, <1>3, <1>4, <1>5, <1>6 DEF IInv

LEMMA PollFinishedIInv ==
  ASSUME IInv, NEW entry \in unpolled, PollFinished(entry)
  PROVE  IInv'
<1>1. /\ pc = "poll" /\ plan = <<>>
      /\ process[entry.task] # "alive"
      /\ unpolled' = unpolled \ {entry}
      /\ running' = running \ {entry}
      /\ free' = FreeInterval(free, entry.offset, entry.ranks)
      /\ UNCHANGED <<memory, pc, queue, plan, simulated, process, status>>
  BY DEF PollFinished, IInv, PhasesInOrder
<1>2. entry \in running /\ entry.task \in TaskIndices /\ entry.offset \in Nat
      /\ entry.ranks \in Nat \ {0}
  BY DEF IInv, TypeOK, Entry
<1>3. EntrySpan(entry) = Span(entry.offset, entry.ranks)
  BY DEF EntrySpan
<1>4. EntrySpan(entry) \cap RanksOf(free) = {}
  BY <1>2 DEF IInv, RanksPartitioned
<1>5. /\ free' \subseteq Interval
      /\ Separated(free')
      /\ RanksOf(free') = RanksOf(free) \cup EntrySpan(entry)
  BY <1>1, <1>2, <1>3, <1>4, FreeIntervalFreesRanks DEF IInv, TypeOK, RanksPartitioned
<1>6. process[entry.task] \in {"exited", "error"}
  BY <1>1, <1>2 DEF IInv, TasksPartitioned, RunningTasks
<1>7. \/ /\ process[entry.task] = "exited"
         /\ successful' = successful \cup {entry.task} /\ failed' = failed
      \/ /\ process[entry.task] = "error"
         /\ successful' = successful /\ failed' = failed \cup {entry.task}
  BY <1>6 DEF PollFinished
<1>8. successful' \cup failed' = successful \cup failed \cup {entry.task}
  BY <1>7
<1>9. TypeOK'
  BY <1>1, <1>2, <1>5, <1>7 DEF IInv, TypeOK
<1>10. RanksPartitioned'
  <2>1. \A e \in running' : EntrySpan(e) \cap EntrySpan(entry) = {}
    BY <1>1, <1>2 DEF IInv, RanksPartitioned
  <2>2. \A e \in running' : EntrySpan(e) \cap RanksOf(free') = {}
    BY <2>1, <1>1, <1>5 DEF IInv, RanksPartitioned
  <2>3. \A e, other \in running' : e # other => EntrySpan(e) \cap EntrySpan(other) = {}
    BY <1>1 DEF IInv, RanksPartitioned
  <2>4. UNION {EntrySpan(e) : e \in running}
          = (UNION {EntrySpan(e) : e \in running'}) \cup EntrySpan(entry)
    BY <1>1, <1>2
  <2>5. RanksOf(free) \cup UNION {EntrySpan(e) : e \in running} = 0 .. (Pool - 1)
    BY <1>1 DEF IInv, RanksPartitioned
  <2>6. RanksOf(free') \cup UNION {EntrySpan(e) : e \in running'} = 0 .. (Pool - 1)
    BY <2>4, <2>5, <1>5
  <2> QED
    BY <2>2, <2>3, <2>6, <1>5 DEF RanksPartitioned, EntrySpan
<1>11. TasksPartitioned'
  <2>1. RunningTasks' \subseteq RunningTasks /\ RunningTasks \subseteq RunningTasks' \cup {entry.task}
    BY <1>1 DEF RunningTasks
  <2>2. entry.task \notin RunningTasks'
    BY <1>1, <1>2 DEF RunningTasks, IInv, TasksPartitioned
  <2>3. entry.task \in RunningTasks
    BY <1>2 DEF RunningTasks
  <2>4. \A e, other \in running' : e.task = other.task => e = other
    BY <1>1 DEF IInv, TasksPartitioned
  <2>5. /\ \A t \in queue' : process'[t] = "none"
        /\ \A t \in RunningTasks' : process'[t] \in {"alive", "exited", "error"}
    BY <2>1, <1>1 DEF IInv, TasksPartitioned
  <2>6. /\ \A t \in successful' : process'[t] = "exited"
        /\ \A t \in failed' : process'[t] = "error"
    BY <1>1, <1>7 DEF IInv, TasksPartitioned
  <2>7. queue' \cap RunningTasks' = {}
    BY <2>1, <1>1 DEF IInv, TasksPartitioned
  <2>8. RunningTasks' \cap (successful' \cup failed') = {}
    BY <2>1, <2>2, <1>8 DEF IInv, TasksPartitioned
  <2>9. queue' \cup RunningTasks' \cup successful' \cup failed' = TaskIndices
    <3>1. queue \cup RunningTasks \cup successful \cup failed = TaskIndices
      BY <1>1 DEF IInv, TasksPartitioned
    <3> QED
      BY <3>1, <2>1, <2>3, <1>1, <1>8
  <2> QED
    BY <2>4, <2>5, <2>6, <2>7, <2>8, <2>9 DEF TasksPartitioned, RunningTasks
<1>12. PlanFeasible'
  BY <1>1 DEF PlanFeasible, Planned
<1>13. PhasesInOrder'
  BY <1>1 DEF IInv, PhasesInOrder
<1> QED
  BY <1>9, <1>10, <1>11, <1>12, <1>13 DEF IInv

LEMMA EndPollIInv == IInv /\ EndPoll => IInv'
<1> SUFFICES ASSUME IInv, EndPoll PROVE IInv'
  OBVIOUS
<1>1. /\ UNCHANGED <<memory, queue, free, running, unpolled, successful, failed, process>>
      /\ pc = "poll" /\ plan' = <<>> /\ simulated' = free
      /\ pc' \in {"plan", "done"}
  BY DEF EndPoll
<1>2. \E state \in {"running", "failed", "complete"} :
        /\ status' = [state |-> state, running |-> RunningTasks, successful |-> successful,
                      failed |-> failed, aborted |-> {}]
        /\ state # "running" => pc' = "done"
  BY <1>1 DEF EndPoll, WriteStatus, FinalState, RunningTasks
<1>3. RunningTasks \subseteq TaskIndices
  BY DEF IInv, TypeOK, RunningTasks, Entry
<1>4. TypeOK'
  BY <1>1, <1>2, <1>3 DEF IInv, TypeOK, Ended
<1>5. RanksPartitioned'
  BY <1>1 DEF IInv, RanksPartitioned, EntrySpan
<1>6. TasksPartitioned'
  BY <1>1 DEF IInv, TasksPartitioned, RunningTasks
<1>7. PlanFeasible'
  BY <1>1 DEF PlanFeasible, Planned
<1>8. PhasesInOrder'
  BY <1>1, <1>2 DEF PhasesInOrder
<1> QED
  BY <1>4, <1>5, <1>6, <1>7, <1>8 DEF IInv

LEMMA AbortIInv == IInv /\ Abort => IInv'
<1> SUFFICES ASSUME IInv, Abort PROVE IInv'
  OBVIOUS
<1>1. /\ UNCHANGED <<memory, queue, plan, simulated, free, unpolled, successful, failed>>
      /\ pc = "poll" /\ pc' = "aborted" /\ running' = {} /\ unpolled = {} /\ plan = <<>>
      /\ process' = [t \in TaskIndices |->
                       IF t \in RunningTasks /\ process[t] = "alive" THEN "killed"
                                                                     ELSE process[t]]
  BY DEF Abort, IInv, PhasesInOrder
<1>2. status' = [state |-> "failed", running |-> RunningTasks', successful |-> successful,
                 failed |-> failed, aborted |-> RunningTasks]
  BY <1>1 DEF Abort, WriteStatus, RunningTasks
<1>3. RunningTasks \subseteq TaskIndices /\ RunningTasks' = {}
  BY <1>1 DEF IInv, TypeOK, RunningTasks, Entry
<1>4. TypeOK'
  <2>1. process' \in [TaskIndices -> Outcomes]
    BY <1>1 DEF IInv, TypeOK, Outcomes
  <2> QED
    BY <2>1, <1>1, <1>2, <1>3 DEF IInv, TypeOK, Ended
<1>5. RanksPartitioned'
  BY <1>1 DEF IInv, RanksPartitioned
<1>6. TasksPartitioned'
  BY <1>1, <1>3 DEF IInv, TypeOK, TasksPartitioned
<1>7. PlanFeasible'
  BY <1>1 DEF PlanFeasible, Planned
<1>8. PhasesInOrder'
  BY <1>1 DEF PhasesInOrder
<1> QED
  BY <1>4, <1>5, <1>6, <1>7, <1>8 DEF IInv

LEMMA TaskExitsIInv ==
  ASSUME IInv, NEW t \in TaskIndices, TaskExits(t)
  PROVE  IInv'
<1>1. /\ UNCHANGED <<memory, pc, queue, plan, simulated, free, running, unpolled,
                     successful, failed, status>>
      /\ process[t] = "alive"
      /\ \E outcome \in {"exited", "error"} : process' = [process EXCEPT ![t] = outcome]
  BY DEF TaskExits
<1>2. TypeOK'
  BY <1>1 DEF IInv, TypeOK, Outcomes
<1>3. RanksPartitioned'
  BY <1>1 DEF IInv, RanksPartitioned, EntrySpan
<1>4. TasksPartitioned'
  <2>1. RunningTasks' = RunningTasks
    BY <1>1 DEF RunningTasks
  <2>2. \A u \in TaskIndices : process'[u] = process[u]
                              \/ (process[u] = "alive" /\ process'[u] \in {"exited", "error"})
    BY <1>1 DEF IInv, TypeOK
  <2>3. RunningTasks \subseteq TaskIndices
    BY DEF IInv, TypeOK, RunningTasks, Entry
  <2> QED
    BY <2>1, <2>2, <2>3, <1>1 DEF IInv, TypeOK, TasksPartitioned
<1>5. PlanFeasible'
  BY <1>1 DEF IInv, PlanFeasible, Planned
<1>6. PhasesInOrder'
  BY <1>1 DEF IInv, PhasesInOrder
<1> QED
  BY <1>2, <1>3, <1>4, <1>5, <1>6 DEF IInv

-----------------------------------------------------------------------------

LEMMA NextIInv == IInv /\ [Next]_vars => IInv'
<1> SUFFICES ASSUME IInv, [Next]_vars PROVE IInv'
  OBVIOUS
<1>1. ASSUME NEW t \in TaskIndices, NEW ranks \in 1 .. MaxRanksPerTask, PlanTask(t, ranks)
      PROVE  IInv'
  BY <1>1, PlanTaskIInv
<1>2. ASSUME NEW entry \in unpolled, PollAlive(entry) PROVE IInv'
  BY <1>2, PollAliveIInv
<1>3. ASSUME NEW entry \in unpolled, PollFinished(entry) PROVE IInv'
  BY <1>3, PollFinishedIInv
<1>4. ASSUME NEW t \in TaskIndices, TaskExits(t) PROVE IInv'
  BY <1>4, TaskExitsIInv
<1>5. CASE UNCHANGED vars
  <2>1. TypeOK'
    BY <1>5 DEF vars, IInv, TypeOK
  <2>2. RanksPartitioned'
    BY <1>5 DEF vars, IInv, RanksPartitioned, EntrySpan
  <2>3. TasksPartitioned'
    BY <1>5 DEF vars, IInv, TasksPartitioned, RunningTasks
  <2>4. PlanFeasible'
    BY <1>5 DEF vars, IInv, PlanFeasible, Planned
  <2>5. PhasesInOrder'
    BY <1>5 DEF vars, IInv, PhasesInOrder
  <2> QED
    BY <2>1, <2>2, <2>3, <2>4, <2>5 DEF IInv
<1> QED
  BY <1>1, <1>2, <1>3, <1>4, <1>5, EndPlanIInv, LaunchIInv, LaunchErrorIInv,
     EndPollIInv, AbortIInv
  DEF Next, Scheduler, Finished

\* The inductive invariant holds in every reachable state.
THEOREM SchedulerInvariant == Spec => []IInv
BY InitIInv, NextIInv, PTL DEF Spec

\* The state of the scheduler always has the type its code gives it.
THEOREM SchedulerTypes == Spec => []TypeOK
<1>1. IInv => TypeOK
  BY DEF IInv
<1> QED
  BY <1>1, SchedulerInvariant, PTL

\* Running tasks never share a rank and no rank is lost, whatever the order in
\* which tasks of whatever width start and end.
THEOREM SchedulerPartitionsRanks == Spec => []RanksPartitioned
<1>1. IInv => RanksPartitioned
  BY DEF IInv
<1> QED
  BY <1>1, SchedulerInvariant, PTL

\* Every task is in exactly one list of the scheduler, and the lists agree
\* with the processes.
THEOREM SchedulerPartitionsTasks == Spec => []TasksPartitioned
<1>1. IInv => TasksPartitioned
  BY DEF IInv
<1> QED
  BY <1>1, SchedulerInvariant, PTL

\* A plan made on the copy of the free list can always be carried out: the
\* exception "Adaptive scheduler allocation mismatch" cannot be raised.
THEOREM SchedulerCarriesOutPlans == Spec => []PlanFeasible
<1>1. IInv => PlanFeasible
  BY DEF IInv
<1> QED
  BY <1>1, SchedulerInvariant, PTL

-----------------------------------------------------------------------------
(* The status file, and what the failure tolerance forbids.                *)

\* While the scheduler may still launch, the failures are tolerable.
LaunchesAreTolerable ==
  pc \in {"plan", "launch"} => TolerableFailures(Cardinality(failed))

LEMMA FailedCardinality == IInv => Cardinality(failed) \in Nat
<1> SUFFICES ASSUME IInv PROVE Cardinality(failed) \in Nat
  OBVIOUS
<1>1. failed \in SUBSET TaskIndices /\ IsFiniteSet(TaskIndices)
  BY ConfigAssumption DEF IInv, TypeOK
<1> QED
  BY <1>1, FS_Subset, FS_CardinalityType

LEMMA ToleratedInit == Init => LaunchesAreTolerable
<1> SUFFICES ASSUME Init PROVE TolerableFailures(Cardinality(failed))
  BY DEF LaunchesAreTolerable
<1>1. Cardinality(failed) = 0
  BY FS_EmptySet DEF Init
<1> QED
  BY <1>1, ConfigAssumption DEF TolerableFailures

LEMMA ToleratedNext ==
  IInv /\ LaunchesAreTolerable /\ [Next]_vars => LaunchesAreTolerable'
<1> SUFFICES ASSUME IInv, LaunchesAreTolerable, [Next]_vars,
                    pc' \in {"plan", "launch"}
             PROVE  TolerableFailures(Cardinality(failed'))
  BY DEF LaunchesAreTolerable, TolerableFailures
<1>1. CASE EndPoll
  <2>1. failed' = failed /\ ~ToleranceExceeded
    BY <1>1 DEF EndPoll
  <2>2. Cardinality(failed) \in Nat
    BY FailedCardinality
  <2> QED
    BY <2>1, <2>2, ConfigAssumption DEF ToleranceExceeded, TolerableFailures
<1>2. CASE \E entry \in unpolled : PollAlive(entry) \/ PollFinished(entry)
  BY <1>2 DEF PollAlive, PollFinished
<1>3. CASE Launch \/ EndPlan
  BY <1>3 DEF Launch, TakeRanks, EndPlan, LaunchesAreTolerable
<1>4. CASE LaunchError \/ Abort
  BY <1>4 DEF LaunchError, Abort
<1>5. CASE \/ UNCHANGED vars
           \/ \E t \in TaskIndices : TaskExits(t)
           \/ \E t \in TaskIndices, ranks \in 1 .. MaxRanksPerTask : PlanTask(t, ranks)
  <2>1. UNCHANGED <<pc, failed>>
    BY <1>5 DEF vars, TaskExits, PlanTask
  <2> QED
    BY <2>1 DEF LaunchesAreTolerable
<1> QED
  BY <1>1, <1>2, <1>3, <1>4, <1>5 DEF Next, Scheduler, Finished

\* Only Launch starts a process.
LEMMA LaunchesOnly ==
  ASSUME IInv, [Next]_vars, NEW t \in TaskIndices,
         process[t] = "none", process'[t] = "alive"
  PROVE  pc = "launch"
<1>1. CASE Launch
  BY <1>1 DEF Launch, TakeRanks
<1>2. CASE Abort
  BY <1>2 DEF Abort
<1>3. CASE \E u \in TaskIndices : TaskExits(u)
  <2>1. PICK u \in TaskIndices : process[u] = "alive" /\
               \E outcome \in {"exited", "error"} :
                  process' = [process EXCEPT ![u] = outcome]
    BY <1>3 DEF TaskExits
  <2>2. u # t
    BY <2>1
  <2> QED
    BY <2>1, <2>2 DEF IInv, TypeOK
<1>4. CASE process' = process
  BY <1>4
<1>5. \/ Launch \/ Abort \/ (\E u \in TaskIndices : TaskExits(u)) \/ process' = process
  BY DEF Next, Scheduler, Finished, vars, PlanTask, EndPlan, LaunchError, PollAlive,
         PollFinished, EndPoll
<1> QED
  BY <1>1, <1>2, <1>3, <1>4, <1>5

\* No process is started once the failures exceed the tolerance.
THEOREM SchedulerHonoursTolerance == Spec => LaunchWithinTolerance
<1>1. IInv /\ LaunchesAreTolerable /\ [Next]_vars =>
        [(\E t \in TaskIndices : process[t] = "none" /\ process'[t] = "alive")
           => TolerableFailures(Cardinality(failed))]_vars
  BY LaunchesOnly DEF LaunchesAreTolerable
<1> QED
  BY <1>1, InitIInv, NextIInv, ToleratedInit, ToleratedNext, PTL
  DEF Spec, LaunchWithinTolerance

LEMMA StatusNext == IInv /\ StatusTruthful /\ [Next]_vars => StatusTruthful'
<1> SUFFICES ASSUME IInv, StatusTruthful, [Next]_vars PROVE StatusTruthful'
  OBVIOUS
<1>1. CASE EndPoll
  <2>1. /\ UNCHANGED <<queue, running, successful, failed, process>> /\ pc = "poll"
        /\ \/ status'.state = "running"
           \/ queue = {} /\ running = {} /\ status'.state = FinalState
    BY <1>1 DEF EndPoll, WriteStatus
  <2>2. CASE status'.state = "running"
    BY <2>2 DEF StatusTruthful
  <2>3. CASE queue = {} /\ running = {} /\ status'.state = FinalState
    <3>1. \A t \in TaskIndices : t \in successful \/ t \in failed
      BY <2>1, <2>3 DEF IInv, TasksPartitioned, RunningTasks
    <3>2. /\ \A t \in successful : process[t] = "exited"
          /\ \A t \in failed : process[t] = "error"
      BY DEF IInv, TasksPartitioned
    <3>3. /\ \A t \in TaskIndices : process[t] # "alive"
          /\ failed = {} => \A t \in TaskIndices : process[t] = "exited"
      BY <3>1, <3>2
    <3>4. process' = process /\ failed' = failed
      BY <2>1
    <3>5. /\ \A t \in TaskIndices : process'[t] # "alive"
          /\ failed' = {} => \A t \in TaskIndices : process'[t] = "exited"
      BY <3>3, <3>4
    <3>6. status'.state = IF failed' # {} THEN "failed" ELSE "complete"
      BY <2>3, <3>4 DEF FinalState
    <3> QED
      BY <3>5, <3>6 DEF StatusTruthful
  <2> QED
    BY <2>1, <2>2, <2>3
<1>2. CASE Abort
  <2>1. /\ status'.state = "failed" /\ failed' = failed /\ pc = "poll" /\ ToleranceExceeded
        /\ process' = [t \in TaskIndices |->
                         IF t \in RunningTasks /\ process[t] = "alive" THEN "killed"
                                                                       ELSE process[t]]
    BY <1>2 DEF Abort, WriteStatus
  <2>2. failed # {}
    <3>1. Cardinality({}) = 0
      BY FS_EmptySet
    <3> QED
      BY <3>1, <2>1, ConfigAssumption DEF ToleranceExceeded
  <2>3. \A t \in TaskIndices : process[t] = "alive" => t \in RunningTasks
    BY <2>1 DEF IInv, TasksPartitioned
  <2> QED
    BY <2>1, <2>2, <2>3 DEF StatusTruthful
<1>3. CASE Launch
  BY <1>3 DEF Launch, WriteStatus, StatusTruthful
<1>4. CASE \E entry \in unpolled : PollFinished(entry)
  <2>1. UNCHANGED <<status, process>> /\ pc = "poll"
    BY <1>4 DEF PollFinished
  <2> QED
    BY <2>1 DEF IInv, PhasesInOrder, TypeOK, StatusTruthful
<1>5. CASE \E t \in TaskIndices : TaskExits(t)
  <2>1. PICK t \in TaskIndices : TaskExits(t)
    BY <1>5
  <2>2. UNCHANGED <<status, failed>> /\ process[t] = "alive"
        /\ \A u \in TaskIndices \ {t} : process'[u] = process[u]
    BY <2>1 DEF TaskExits, IInv, TypeOK
  <2> QED
    BY <2>2 DEF StatusTruthful
<1>6. CASE UNCHANGED <<status, process, failed>>
  BY <1>6 DEF StatusTruthful
<1>7. \/ EndPoll \/ Abort \/ Launch \/ (\E entry \in unpolled : PollFinished(entry))
      \/ (\E t \in TaskIndices : TaskExits(t)) \/ UNCHANGED <<status, process, failed>>
  BY DEF Next, Scheduler, Finished, vars, PlanTask, EndPlan, LaunchError, PollAlive
<1> QED
  BY <1>1, <1>2, <1>3, <1>4, <1>5, <1>6, <1>7

\* A final state in the status file is true of the processes for ever after.
THEOREM SchedulerStatusTruthful == Spec => []StatusTruthful
<1>1. Init => StatusTruthful
  BY DEF Init, StatusTruthful
<1> QED
  BY <1>1, InitIInv, NextIInv, StatusNext, PTL DEF Spec

-----------------------------------------------------------------------------
(* How many ranks the scheduler gives to a task, and that it leaves none   *)
(* idle that a waiting task could have.  Whatever way a task entered the   *)
(* plan, boosted or placed, it is granted at least its minimum, which      *)
(* covers its estimate or is all that a task may have; and a launcher that *)
(* cannot share is granted the whole pool.                                 *)

Granted(t, ranks) ==
  /\ ranks >= MinimumRanks(t)
  /\ Exclusive => ranks = MaxRanksPerTask

\* The inductive invariant, together with IInv.
GrantsKept ==
  /\ \A i \in DOMAIN plan : Granted(plan[i].task, plan[i].ranks)
  /\ \A entry \in running : Granted(entry.task, entry.ranks)

-----------------------------------------------------------------------------
(* Numbers of ranks.                                                       *)

LEMMA CeilDivCovers ==
  ASSUME NEW x \in Nat, NEW y \in Nat \ {0}
  PROVE  CeilDiv(x, y) \in Nat /\ CeilDiv(x, y) * y >= x
<1> DEFINE n == x + y - 1
           q == n \div y
           r == n % y
<1>1. n \in Nat
  OBVIOUS
<1>2. q \in Nat /\ r \in 0 .. (y - 1)
  BY <1>1
<1>3. n = y * q + r
  BY <1>1, <1>2
<1>4. q * y \in Nat /\ q * y = y * q
  BY <1>2
<1>5. q * y >= x
  <2> HIDE DEF q, r
  <2> QED BY <1>2, <1>3, <1>4
<1> QED
  BY <1>2, <1>5 DEF CeilDiv

LEMMA RoundUpCovers ==
  ASSUME NEW x \in Nat, NEW base \in Nat
  PROVE  RoundUp(x, base) \in Nat /\ RoundUp(x, base) >= x
<1>1. CASE base <= 1
  BY <1>1 DEF RoundUp
<1>2. CASE base > 1
  <2>1. CeilDiv(x, base) \in Nat /\ CeilDiv(x, base) * base >= x
    BY <1>2, CeilDivCovers
  <2>2. CeilDiv(x, base) * base \in Nat
    BY <2>1
  <2> QED
    BY <1>2, <2>1, <2>2 DEF RoundUp
<1> QED
  BY <1>1, <1>2

\* The minimum of a task covers its estimate, or is all that a task may have.
LEMMA MinimumCovers ==
  ASSUME memory \in [TaskIndices -> Nat], NEW t \in TaskIndices
  PROVE  /\ MinimumRanks(t) \in Nat
         /\ MinimumRanks(t) <= MaxRanksPerTask /\ MinimumRanks(t) <= TotalRanks
         /\ \/ MinimumRanks(t) * MemPerRank >= memory[t]
            \/ MinimumRanks(t) >= AtMost(MaxRanksPerTask, TotalRanks)
         /\ Exclusive => MinimumRanks(t) = MaxRanksPerTask
<1> DEFINE share   == CeilDiv(memory[t], MemPerRank)
           needed  == AtLeast(share, MinRanks)
           limited == AtMost(AtMost(needed, MaxRanksPerTask), TotalRanks)
           rounded == RoundUp(limited, RoundTo)
<1>1. /\ TotalRanks \in Nat \ {0} /\ MemPerRank \in Nat \ {0} /\ MinRanks \in Nat
      /\ RoundTo \in Nat /\ MaxRanksPerTask \in Nat \ {0} /\ memory[t] \in Nat
  BY ConfigAssumption, LimitTypes
<1>2. share \in Nat /\ share * MemPerRank >= memory[t]
  BY <1>1, CeilDivCovers
<1>3. CASE Exclusive
  <2>1. MaxRanksPerTask <= TotalRanks
    BY <1>1, <1>3, ConfigAssumption DEF MaxRanksPerTask, AtMost
  <2>2. ChooseBaseRanks(t) = MaxRanksPerTask
    BY <1>3 DEF ChooseBaseRanks
  <2>3. MinimumRanks(t) = MaxRanksPerTask
    <3> HIDE DEF share, needed, limited, rounded
    <3> QED
      BY <1>1, <2>1, <2>2 DEF MinimumRanks, AtMost, AtLeast
  <2> QED
    <3> HIDE DEF share, needed, limited, rounded
    <3> QED
      BY <1>1, <2>1, <2>3 DEF AtMost
<1>4. CASE ~Exclusive
  <2> HIDE DEF share
  <2>1. needed \in Nat /\ needed >= share
    BY <1>1, <1>2 DEF AtLeast
  <2>2. limited \in Nat /\ limited <= MaxRanksPerTask /\ limited <= TotalRanks
    BY <1>1, <2>1 DEF AtMost
  <2>3. limited >= share \/ limited >= AtMost(MaxRanksPerTask, TotalRanks)
    BY <1>1, <1>2, <2>1 DEF AtMost
  <2>4. rounded \in Nat /\ rounded >= limited
    BY <1>1, <2>2, RoundUpCovers
  <2> DEFINE base == AtMost(AtMost(AtLeast(rounded, MinRanks), TotalRanks), MaxRanksPerTask)
  <2>5. base = ChooseBaseRanks(t)
    BY <1>4 DEF ChooseBaseRanks, share
  <2>6. base \in Nat /\ base >= limited
    <3> HIDE DEF limited, rounded
    <3> QED
      BY <1>1, <2>2, <2>4 DEF AtMost, AtLeast
  <2>7. /\ MinimumRanks(t) \in Nat /\ MinimumRanks(t) >= limited
        /\ MinimumRanks(t) <= MaxRanksPerTask /\ MinimumRanks(t) <= TotalRanks
    <3> HIDE DEF limited, base
    <3> QED
      BY <1>1, <2>2, <2>5, <2>6 DEF MinimumRanks, AtMost, AtLeast
  <2>8. CASE limited >= share
    <3>1. MinimumRanks(t) >= share
      <4> HIDE DEF limited
      <4> QED
        BY <1>2, <2>2, <2>7, <2>8
    <3>2. MinimumRanks(t) * MemPerRank >= share * MemPerRank
      BY <1>1, <1>2, <2>7, <3>1
    <3>3. MinimumRanks(t) * MemPerRank \in Nat /\ share * MemPerRank \in Nat
      BY <1>1, <1>2, <2>7
    <3> QED
      BY <1>1, <1>2, <1>4, <2>7, <3>2, <3>3
  <2>9. CASE limited >= AtMost(MaxRanksPerTask, TotalRanks)
    <3> HIDE DEF limited
    <3>1. AtMost(MaxRanksPerTask, TotalRanks) \in Nat
      BY <1>1 DEF AtMost
    <3> QED
      BY <1>4, <2>2, <2>7, <2>9, <3>1
  <2> QED
    BY <2>3, <2>8, <2>9
<1> QED
  BY <1>3, <1>4

\* Every task that enters the plan is granted its minimum, boosted or not.
LEMMA NextInPlanGranted ==
  ASSUME memory \in [TaskIndices -> Nat], NEW t \in TaskIndices,
         NEW ranks \in 1 .. MaxRanksPerTask, NextInPlan(t, ranks)
  PROVE  Granted(t, ranks)
<1>1. /\ MaxRanksPerTask \in Nat \ {0} /\ TotalRanks \in Nat \ {0}
      /\ ranks \in Nat /\ ranks <= MaxRanksPerTask /\ MinimumRanks(t) \in Nat
      /\ Exclusive => MinimumRanks(t) = MaxRanksPerTask
  BY LimitTypes, MinimumCovers, ConfigAssumption
<1>2. MinimumRanks(t) <= MaxRanksPerTask /\ MinimumRanks(t) <= TotalRanks
  BY MinimumCovers
<1>3. CASE ranks = MinimumRanks(t)
  BY <1>1, <1>3 DEF Granted
<1>4. CASE ranks = MaximumRanks(t)
  <2>1. PICK boosted :
          ranks = AtMost(AtMost(AtLeast(boosted, MinimumRanks(t)), MaxRanksPerTask), TotalRanks)
    BY <1>4 DEF MaximumRanks
  <2>2. ranks >= MinimumRanks(t)
    <3>1. CASE boosted >= MinimumRanks(t)
      BY <1>1, <1>2, <2>1, <3>1 DEF AtMost, AtLeast
    <3>2. CASE ~(boosted >= MinimumRanks(t))
      BY <1>1, <1>2, <2>1, <3>2 DEF AtMost, AtLeast
    <3> QED
      BY <3>1, <3>2
  <2> QED
    BY <1>1, <2>2 DEF Granted
<1> QED
  BY <1>3, <1>4 DEF NextInPlan

-----------------------------------------------------------------------------
(* The grants are kept from the plan to the end of the task.               *)

LEMMA GrantsInit == Init => GrantsKept
BY DEF Init, GrantsKept

LEMMA PlanTaskGrants ==
  ASSUME IInv, GrantsKept, NEW t \in TaskIndices, NEW ranks \in 1 .. MaxRanksPerTask,
         PlanTask(t, ranks)
  PROVE  GrantsKept'
<1>1. UNCHANGED <<memory, running>>
  BY DEF PlanTask
<1>2. PICK offset, updated :
        plan' = Append(plan, [task |-> t, offset |-> offset, ranks |-> ranks,
                              updated |-> updated])
  BY DEF PlanTask
<1>3. Granted(t, ranks)
  BY NextInPlanGranted DEF PlanTask, IInv, TypeOK
<1>4. \A u, r : Granted(u, r) => Granted(u, r)'
  BY <1>1 DEF Granted, MinimumRanks, ChooseBaseRanks
<1>5. plan \in Seq(Launching)
  BY DEF IInv, TypeOK
<1>6. ASSUME NEW i \in DOMAIN plan' PROVE Granted(plan'[i].task, plan'[i].ranks)
  <2>1. CASE i \in DOMAIN plan
    <3>1. plan'[i] = plan[i]
      BY <1>2, <1>5, <2>1
    <3> QED
      BY <2>1, <3>1 DEF GrantsKept
  <2>2. CASE i \notin DOMAIN plan
    <3>1. i = Len(plan) + 1
      BY <1>2, <1>5, <1>6, <2>2
    <3>2. plan'[i].task = t /\ plan'[i].ranks = ranks
      BY <1>2, <1>5, <3>1
    <3> QED
      BY <1>3, <3>2
  <2> QED
    BY <2>1, <2>2
<1> QED
  BY <1>1, <1>4, <1>6 DEF GrantsKept

\* A launch hands the grant of the plan over to the running entry.
LEMMA TakeRanksGrants ==
  ASSUME IInv, GrantsKept, TakeRanks(Head(plan)), UNCHANGED memory,
         \A entry \in running' :
           entry \in running \/ (entry.task = plan[1].task /\ entry.ranks = plan[1].ranks)
  PROVE  GrantsKept'
<1>1. plan \in Seq(Launching) /\ plan # <<>> /\ plan' = Tail(plan)
  BY DEF TakeRanks, IInv, TypeOK
<1>2. \A u, r : Granted(u, r) => Granted(u, r)'
  BY DEF Granted, MinimumRanks, ChooseBaseRanks
<1>3. ASSUME NEW i \in DOMAIN plan' PROVE Granted(plan'[i].task, plan'[i].ranks)
  <2>1. i + 1 \in DOMAIN plan /\ plan'[i] = plan[i + 1]
    BY <1>1, <1>3
  <2> QED
    BY <2>1 DEF GrantsKept
<1>4. 1 \in DOMAIN plan
  BY <1>1
<1>5. \A entry \in running' : Granted(entry.task, entry.ranks)
  BY <1>4 DEF GrantsKept
<1> QED
  BY <1>2, <1>3, <1>5 DEF GrantsKept

LEMMA GrantsNext == IInv /\ GrantsKept /\ [Next]_vars => GrantsKept'
<1> SUFFICES ASSUME IInv, GrantsKept, [Next]_vars PROVE GrantsKept'
  OBVIOUS
<1>1. ASSUME NEW t \in TaskIndices, NEW ranks \in 1 .. MaxRanksPerTask, PlanTask(t, ranks)
      PROVE  GrantsKept'
  BY <1>1, PlanTaskGrants
<1>2. ASSUME Launch \/ LaunchError PROVE GrantsKept'
  <2>1. TakeRanks(Head(plan)) /\ UNCHANGED memory
    BY <1>2 DEF Launch, LaunchError
  <2>2. plan \in Seq(Launching) /\ plan # <<>>
    BY <2>1 DEF TakeRanks, IInv, TypeOK
  <2>3. Head(plan) = plan[1]
    BY <2>2
  <2>4. \A entry \in running' :
           entry \in running \/ (entry.task = plan[1].task /\ entry.ranks = plan[1].ranks)
    BY <1>2, <2>3 DEF Launch, LaunchError
  <2> QED
    BY <2>1, <2>4, TakeRanksGrants
<1>3. ASSUME UNCHANGED memory, plan' \in {plan, <<>>}, running' \subseteq running
      PROVE  GrantsKept'
  <2>1. \A u, r : Granted(u, r) => Granted(u, r)'
    BY <1>3 DEF Granted, MinimumRanks, ChooseBaseRanks
  <2> QED
    BY <1>3, <2>1 DEF GrantsKept
<1>4. EndPlan \/ EndPoll \/ Abort \/ UNCHANGED vars
        => UNCHANGED memory /\ plan' \in {plan, <<>>} /\ running' \subseteq running
  BY DEF EndPlan, EndPoll, Abort, vars
<1>5. ASSUME NEW entry \in unpolled, PollAlive(entry) \/ PollFinished(entry)
      PROVE  UNCHANGED memory /\ plan' \in {plan, <<>>} /\ running' \subseteq running
  BY <1>5 DEF PollAlive, PollFinished
<1>6. ASSUME NEW t \in TaskIndices, TaskExits(t)
      PROVE  UNCHANGED memory /\ plan' \in {plan, <<>>} /\ running' \subseteq running
  BY <1>6 DEF TaskExits
<1> QED
  BY <1>1, <1>2, <1>3, <1>4, <1>5, <1>6 DEF Next, Scheduler, Finished

-----------------------------------------------------------------------------

\* Every running task has the ranks its estimate asks for, or as many as a
\* task may have, for every estimate, allocation and rounding.
THEOREM SchedulerProvidesMemory == Spec => []MemoryProvided
<1>1. IInv /\ GrantsKept => MemoryProvided
  <2> SUFFICES ASSUME IInv, GrantsKept, NEW entry \in running
               PROVE  \/ entry.ranks * MemPerRank >= memory[entry.task]
                      \/ entry.ranks >= AtMost(MaxRanksPerTask, TotalRanks)
    BY DEF MemoryProvided
  <2> DEFINE low == MinimumRanks(entry.task)
             all == AtMost(MaxRanksPerTask, TotalRanks)
  <2>1. /\ entry.task \in TaskIndices /\ entry.ranks \in Nat
        /\ memory \in [TaskIndices -> Nat]
    BY DEF IInv, TypeOK, Entry
  <2>2. /\ MemPerRank \in Nat /\ memory[entry.task] \in Nat /\ low \in Nat /\ all \in Nat
        /\ low * MemPerRank >= memory[entry.task] \/ low >= all
    BY <2>1, MinimumCovers, LimitTypes, ConfigAssumption DEF AtMost
  <2>3. entry.ranks >= low
    BY DEF GrantsKept, Granted
  <2> HIDE DEF low, all
  <2>4. entry.ranks * MemPerRank >= low * MemPerRank
    BY <2>1, <2>2, <2>3
  <2>5. entry.ranks * MemPerRank \in Nat /\ low * MemPerRank \in Nat
    BY <2>1, <2>2
  <2>6. entry.ranks * MemPerRank >= memory[entry.task] \/ entry.ranks >= all
    <3>1. CASE low * MemPerRank >= memory[entry.task]
      BY <2>2, <2>4, <2>5, <3>1
    <3>2. CASE low >= all
      BY <2>1, <2>2, <2>3, <3>2
    <3> QED
      BY <2>2, <3>1, <3>2
  <2> QED
    BY <2>6 DEF all
<1> QED
  BY <1>1, InitIInv, NextIInv, GrantsInit, GrantsNext, PTL DEF Spec

-----------------------------------------------------------------------------
(* mpiexec and mpirun.                                                     *)

LEMMA AloneInit == Init => LauncherAlone
BY DEF Init, LauncherAlone

LEMMA AloneNext ==
  IInv /\ IInv' /\ GrantsKept' /\ LauncherAlone /\ [Next]_vars => LauncherAlone'
<1> SUFFICES ASSUME IInv, IInv', GrantsKept', LauncherAlone, [Next]_vars, Exclusive
             PROVE  LauncherAlone'
  BY DEF LauncherAlone
<1>1. CASE pc' \notin {"aborted", "crashed"}
  <2>1. ASSUME NEW entry \in running'
        PROVE  /\ entry.ranks = MaxRanksPerTask /\ entry.offset = 0
               /\ 0 \in EntrySpan(entry)
    <3>1. Pool = MaxRanksPerTask /\ Pool \in Nat \ {0}
      BY LimitTypes DEF Pool
    <3>2. entry.ranks = Pool /\ entry.offset \in Nat
      BY <3>1 DEF GrantsKept, Granted, IInv, TypeOK, Entry
    <3>3. EntrySpan(entry) \subseteq 0 .. (Pool - 1)
      BY <1>1 DEF IInv, RanksPartitioned, EntrySpan
    <3>4. entry.offset + Pool - 1 \in EntrySpan(entry)
      BY <3>1, <3>2 DEF EntrySpan, Span
    <3>5. entry.offset = 0
      BY <3>1, <3>2, <3>3, <3>4
    <3> QED
      BY <3>1, <3>2, <3>5 DEF EntrySpan, Span
  <2>2. ASSUME NEW entry \in running', NEW other \in running' PROVE entry = other
    BY <2>1 DEF IInv, RanksPartitioned, EntrySpan
  <2> QED
    BY <2>1, <2>2 DEF LauncherAlone
<1>2. CASE pc' \in {"aborted", "crashed"}
  <2>1. running' \subseteq running
    BY <1>2 DEF Next, Scheduler, Finished, PlanTask, EndPlan, Launch, LaunchError, PollAlive,
       PollFinished, EndPoll, Abort, TaskExits, vars
  <2> QED
    BY <2>1 DEF LauncherAlone
<1> QED
  BY <1>1, <1>2

\* A task that mpiexec or mpirun launches is alone, on the whole pool, so that
\* _launch_command never ends the sweep.
THEOREM SchedulerIsolatesLauncher == Spec => []LauncherAlone
BY InitIInv, NextIInv, GrantsInit, GrantsNext, AloneInit, AloneNext, PTL DEF Spec

-----------------------------------------------------------------------------
(* Work conservation.                                                      *)

\* In the middle of the launches, no task that stays behind would fit into
\* what the last of them leaves.
PlanExhausted ==
  pc = "launch" =>
    /\ plan # <<>>
    /\ \A t \in Unplanned : ~Fits(plan[Len(plan)].updated, MinimumRanks(t))

LEMMA ExhaustedInit == Init => PlanExhausted
BY DEF Init, PlanExhausted

LEMMA EndPlanExhausted ==
  ASSUME IInv, EndPlan
  PROVE  /\ PlanExhausted'
         /\ pc' = "poll" => \A t \in queue' : ~Fits(free', MinimumRanks(t))
<1>1. /\ pc = "plan" /\ UNCHANGED <<memory, queue, plan, free>>
      /\ \A t \in Unplanned : ~Fits(simulated, MinimumRanks(t))
      /\ pc' = IF plan = <<>> THEN "poll" ELSE "launch"
  BY DEF EndPlan, CanPlace
<1>2. simulated = IF plan = <<>> THEN free ELSE plan[Len(plan)].updated
  BY <1>1 DEF IInv, PlanFeasible
<1>3. Unplanned' = Unplanned /\ \A t : MinimumRanks(t)' = MinimumRanks(t)
  BY <1>1 DEF Unplanned, Planned, MinimumRanks, ChooseBaseRanks
<1>4. CASE plan = <<>>
  <2>1. Unplanned = queue
    BY <1>4 DEF Unplanned, Planned
  <2> QED
    BY <1>1, <1>2, <1>4, <2>1 DEF PlanExhausted
<1>5. CASE plan # <<>>
  BY <1>1, <1>2, <1>3, <1>5 DEF PlanExhausted
<1> QED
  BY <1>4, <1>5

LEMMA LaunchExhausted ==
  ASSUME IInv, PlanExhausted, Launch
  PROVE  /\ PlanExhausted'
         /\ pc' = "poll" => \A t \in queue' : ~Fits(free', MinimumRanks(t))
<1>1. /\ pc = "launch" /\ plan # <<>> /\ plan' = Tail(plan) /\ UNCHANGED memory
      /\ queue' = queue \ {Head(plan).task}
      /\ pc' = IF Len(plan) = 1 THEN "poll" ELSE "launch"
  BY DEF Launch, TakeRanks
<1>2. plan \in Seq(Launching) /\ Len(plan) \in Nat \ {0} /\ Head(plan) = plan[1]
  BY <1>1 DEF IInv, TypeOK
<1>3. \A t : MinimumRanks(t)' = MinimumRanks(t)
  BY <1>1 DEF MinimumRanks, ChooseBaseRanks
<1>4. \A t \in Unplanned : ~Fits(plan[Len(plan)].updated, MinimumRanks(t))
  BY <1>1 DEF PlanExhausted
<1>5. Unplanned' \subseteq Unplanned
  <2> SUFFICES ASSUME NEW t \in Unplanned', t \in Planned PROVE FALSE
    BY <1>1 DEF Unplanned
  <2>1. PICK i \in DOMAIN plan : t = plan[i].task
    BY DEF Planned
  <2>2. i # 1
    BY <1>1, <1>2, <2>1 DEF Unplanned
  <2>3. i - 1 \in DOMAIN plan' /\ plan'[i - 1] = plan[i]
    BY <1>1, <1>2, <2>1, <2>2
  <2> QED
    BY <2>1, <2>3 DEF Unplanned, Planned
<1>6. CASE Len(plan) = 1
  <2>1. Unplanned' = queue'
    BY <1>1, <1>2, <1>6 DEF Unplanned, Planned
  <2>2. PICK placed \in free :
          /\ IsFirstFit(placed, free, plan[1].ranks)
          /\ plan[1].updated = TakeFrom(placed, free, plan[1].ranks)
    BY <1>1 DEF IInv, PlanFeasible, IsPlacement, IsFirstFit
  <2>3. PICK iv \in free :
          /\ IsFirstFit(iv, free, plan[1].ranks)
          /\ free' = TakeFrom(iv, free, plan[1].ranks)
    BY <1>2 DEF Launch
  <2>4. plan[1].ranks \in Nat
    <3>1. plan[1] \in Launching
      BY <1>2
    <3> QED
      BY <3>1 DEF Launching
  <2>5. iv = placed
    BY <2>2, <2>3, <2>4, FirstFitUnique DEF IInv, TypeOK, RanksPartitioned
  <2>6. free' = plan[Len(plan)].updated
    BY <1>6, <2>2, <2>3, <2>5
  <2> QED
    BY <1>1, <1>3, <1>4, <1>5, <1>6, <2>1, <2>6 DEF PlanExhausted
<1>7. CASE Len(plan) # 1
  <2>1. plan' \in Seq(Launching) /\ Len(plan') = Len(plan) - 1 /\ Len(plan') \in Nat \ {0}
    BY <1>1, <1>2, <1>7
  <2>2. plan'[Len(plan')] = plan[Len(plan') + 1]
    BY <1>1, <1>2, <2>1
  <2>3. plan' # <<>> /\ plan'[Len(plan')] = plan[Len(plan)]
    BY <1>2, <2>1, <2>2
  <2> QED
    BY <1>1, <1>3, <1>4, <1>5, <1>7, <2>3 DEF PlanExhausted
<1> QED
  BY <1>6, <1>7

LEMMA ExhaustedNext ==
  ASSUME IInv, PlanExhausted, [Next]_vars
  PROVE  /\ PlanExhausted'
         /\ pc # "poll" /\ pc' = "poll" => \A t \in queue' : ~Fits(free', MinimumRanks(t))
<1>1. CASE EndPlan
  BY <1>1, EndPlanExhausted
<1>2. CASE Launch
  BY <1>2, LaunchExhausted
<1>3. CASE pc' # "launch" /\ (pc' = "poll" => pc = "poll")
  BY <1>3 DEF PlanExhausted
<1>4. CASE UNCHANGED <<memory, pc, queue, plan>>
  BY <1>4 DEF PlanExhausted, Unplanned, Planned, MinimumRanks, ChooseBaseRanks
<1> QED
  BY <1>1, <1>2, <1>3, <1>4 DEF Next, Scheduler, Finished, PlanTask, LaunchError, PollAlive,
     PollFinished, EndPoll, Abort, TaskExits, vars

\* When the scheduler starts to poll, no queued task would fit into the ranks
\* that are left, for every number of tasks and every mix of estimates.
THEOREM SchedulerConservesWork == Spec => WorkConserving
<1>1. IInv /\ PlanExhausted /\ [Next]_vars =>
        [pc # "poll" /\ pc' = "poll" => \A t \in queue' : ~Fits(free', MinimumRanks(t))]_vars
  BY ExhaustedNext
<1>2. IInv /\ PlanExhausted /\ [Next]_vars => PlanExhausted'
  BY ExhaustedNext
<1> QED
  BY <1>1, <1>2, InitIInv, NextIInv, ExhaustedInit, PTL DEF Spec, WorkConserving
=============================================================================
