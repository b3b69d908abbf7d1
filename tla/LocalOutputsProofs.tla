-------------------------- MODULE LocalOutputsProofs --------------------------
(***************************************************************************)
(* What a local run has on disk when it completes.                         *)
(***************************************************************************)
EXTENDS LocalRunProofs

-----------------------------------------------------------------------------
(* The postprocess step reads outputs nobody writes                        *)

Finished(r) == run[r].polled \in {"completed", "failed"}
Solves(r) == Submitted(r) \cap (Tasks \cup {"post"})

\* A run is judged after a poll found it complete; only jobs that need a postprocess
\* step submit one.
FuturesInv ==
  \A r \in Runs :
    /\ run[r].pc = "mesh" => run[r].polled = None
    /\ run[r].pc \in {"pack", "judge", "judged"} => Finished(r)
    /\ run[r].future["post"] # None => Post(r)

\* Runs are submitted in turn, those of a job one after the other.
Sequential ==
  \A q, r \in Runs : q < r /\ run[r].pc # "idle" =>
    /\ run[q].pc # "idle"
    /\ Job(q) = Job(r) => run[q].result # None \/ run[q].cancelled

\* Unless a run of the job was cut short, its tasks are over when its postprocess step
\* is submitted, and both are over when the run is.
EndedInv ==
  \A r \in Runs : ~Interrupted(Job(r)) =>
    /\ run[r].future["post"] # None => Terminal(r, TaskFutures(r))
    /\ Finished(r) \/ run[r].pc = "over" => Terminal(r, Solves(r))

QuietInv == FuturesInv /\ Sequential /\ EndedInv

\* What is over stays over, and what cannot be read stays so.
Settled ==
  \A s \in Runs, k \in Steps :
    /\ ex[s][k].state \in Over => ex'[s][k].state \in Over
    /\ ex[s][k].state \in {"error", "cancelled"} => ex'[s][k].state \in {"error", "cancelled"}

LEMMA LetGoSettled ==
  ASSUME IInv, NEW r \in Runs, run[r].pc # "idle", NEW C \in SUBSET Steps, NEW R,
         LetGo(r, C, R)
  PROVE  Settled
<1>1. TypeOK /\ Job(r) \in Jobs
      BY DEF IInv, HandlesInv
<1>2. \A s \in Runs, k \in Steps :
        ex'[s][k].state = ex[s][k].state \/ ex'[s][k].state = "cancelled"
      BY <1>1, LetGoType
<1> QED BY <1>2 DEF Settled, Over

LEMMA SubmitSettled ==
  ASSUME IInv, NEW r \in Runs, NEW h \in Handles, h.job \in Jobs, NEW K \in SUBSET Steps,
         SubmitFutures(r, h, K), \A k \in K : run[r].future[k] = None
  PROVE  Settled
<1>1. TypeOK
      BY DEF IInv
<1>2. \A s \in Runs, k \in Steps : ex'[s][k] = ex[s][k] \/ (s = r /\ k \in K)
      BY <1>1, SubmitFuturesType
<1>3. \A k \in K : ex[r][k].state = "none"
      BY LocalAssumption DEF IInv, ReadsInv
<1> QED BY <1>2, <1>3 DEF Settled, Over

LEMMA SameSettled == ASSUME UNCHANGED dask PROVE Settled
BY DEF dask, Settled

LEMMA TerminalKept ==
  ASSUME IInv, Settled, NEW r \in Runs, NEW K \in SUBSET Submitted(r), Terminal(r, K),
         \A k \in K : run'[r].future[k] = run[r].future[k]
  PROVE  Terminal(r, K)'
<1>1. \A k \in K : k \in Steps /\ run[r].future[k] \in Runs
      BY DEF Submitted, IInv, TypeOK, Handles
<1> QED BY <1>1 DEF Terminal, Execution, Settled

\* A job whose run was cut short remains one.
LEMMA InterruptedKept ==
  ASSUME IInv, Settled, NEW r \in Runs, HandleStep(r), run[r].result = None,
         run[r].cancelled => run'[r].cancelled, NEW j \in Jobs, Interrupted(j)
  PROVE  Interrupted(j)'
<1>1. PICK q \in Runs : /\ Job(q) = j
                        /\ \/ run[q].cancelled \/ run[q].result = "timeout"
                           \/ \E k \in Submitted(q) : Unreadable(q, {k})
      BY DEF Interrupted
<1>2. run'[q].job = j
  <2>1. run[q].pc # "idle"
        BY <1>1, LocalAssumption DEF IInv, HandlesInv, NoRun, Job
  <2> QED BY <1>1, <2>1 DEF HandleStep, Job
<1>3. run[q].cancelled \/ run[q].result = "timeout" =>
        run'[q].cancelled \/ run'[q].result = "timeout"
      BY LocalAssumption DEF HandleStep
<1>4. ASSUME NEW k \in Submitted(q), Unreadable(q, {k})
      PROVE  k \in Submitted(q)' /\ Unreadable(q, {k})'
  <2>1. k \in Steps /\ run[q].future[k] \in Runs /\ run[q].future[k] # None
        BY DEF Submitted, IInv, TypeOK, Handles
  <2>2. run'[q].future[k] = run[q].future[k]
        BY <2>1 DEF HandleStep
  <2> QED BY <1>4, <2>1, <2>2 DEF Submitted, Unreadable, Execution, Settled
<1> QED BY <1>1, <1>2, <1>3, <1>4 DEF Interrupted, Job

\* A step of r that keeps the invariant: the handle was waited on, and when a poll found
\* its tasks over, or it ends, they are.
EndsWhenOver(r) ==
  /\ run[r].future["post"] # None => Terminal(r, TaskFutures(r))
  /\ Finished(r) \/ run[r].pc = "over" => Terminal(r, Solves(r))
Progress(r) ==
  /\ run[r].result = None
  /\ run[r].cancelled => run'[r].cancelled
  /\ run'[r].pc = "mesh" => run'[r].polled = None
  /\ run'[r].pc \in {"pack", "judge", "judged"} => Finished(r)'
  /\ run'[r].future["post"] # None => run'[r].job \in PostJobs
  /\ run[r].pc = "idle" =>
       \A q \in Runs : q < r =>
         /\ run[q].pc # "idle"
         /\ Job(q) = run'[r].job => run[q].result # None \/ run[q].cancelled

LEMMA ProgressQuiet ==
  ASSUME IInv, QuietInv, Settled, NEW r \in Runs, HandleStep(r), Progress(r),
         ~Interrupted(Job(r))' => EndsWhenOver(r)'
  PROVE  QuietInv'
<1>1. FuturesInv'
      BY DEF QuietInv, FuturesInv, HandleStep, Progress, Finished, Post, Job
<1>2. Sequential'
  <2> SUFFICES ASSUME NEW q \in Runs, NEW p \in Runs, q < p, run'[p].pc # "idle"
               PROVE  /\ run'[q].pc # "idle"
                      /\ run'[q].job = run'[p].job => run'[q].result # None \/ run'[q].cancelled
      BY DEF Sequential, Job
  <2>1. q # p
    <3>1. q \in Nat /\ p \in Nat
          BY LocalAssumption
    <3> QED BY <3>1
  <2>2. CASE p = r
        BY <2>1, <2>2 DEF QuietInv, Sequential, HandleStep, Progress, Job
  <2>3. CASE q = r
    <3>1. run[r].pc # "idle" /\ (Job(r) = Job(p) => run[r].cancelled)
          BY <2>1, <2>3 DEF QuietInv, Sequential, HandleStep, Progress
    <3> QED BY <2>1, <2>3, <3>1 DEF HandleStep, Progress, Job
  <2>4. CASE p # r /\ q # r
        BY <2>4 DEF QuietInv, Sequential, HandleStep, Job
  <2> QED BY <2>2, <2>3, <2>4
<1>3. EndedInv'
  <2> SUFFICES ASSUME NEW q \in Runs, ~Interrupted(Job(q))'
               PROVE  EndsWhenOver(q)'
      BY DEF EndedInv, EndsWhenOver
  <2>1. CASE q = r
        BY <2>1
  <2>2. CASE q # r
    <3>1. run'[q] = run[q]
          BY <2>2 DEF HandleStep
    <3>2. CASE run[q].pc = "idle"
      <4>1. run[q] = NoRun
            BY <3>2 DEF IInv, HandlesInv
      <4>2. run'[q].future["post"] = None /\ ~Finished(q)' /\ run'[q].pc # "over"
            BY <3>1, <4>1, StepsNames, LocalAssumption DEF NoRun, Finished
      <4> QED BY <4>2 DEF EndsWhenOver
    <3>3. CASE run[q].pc # "idle"
      <4>1. Job(q) \in Jobs /\ Job(q)' = Job(q)
            BY <3>1, <3>3 DEF IInv, HandlesInv, Job
      <4>2. Interrupted(Job(q)) => Interrupted(Job(q))'
        <5>1. ASSUME NEW j \in Jobs, Interrupted(j)
              PROVE  Interrupted(j)'
              BY <5>1, InterruptedKept DEF Progress
        <5> QED BY <4>1, <5>1 DEF Interrupted
      <4>3. EndsWhenOver(q)
            BY <4>2 DEF QuietInv, EndedInv, EndsWhenOver
      <4>4. /\ TaskFutures(q)' = TaskFutures(q) /\ Solves(q)' = Solves(q)
            /\ Finished(q)' = Finished(q)
            BY <3>1 DEF TaskFutures, Solves, Submitted, Finished
      <4>5. TaskFutures(q) \subseteq Submitted(q) /\ Solves(q) \subseteq Submitted(q)
            BY StepsNames DEF TaskFutures, Solves, Submitted
      <4>6. /\ Terminal(q, TaskFutures(q)) => Terminal(q, TaskFutures(q))'
            /\ Terminal(q, Solves(q)) => Terminal(q, Solves(q))'
        <5>1. ASSUME NEW K \in SUBSET Submitted(q), Terminal(q, K)
              PROVE  \A k \in K : Execution(q, k)'.state \in Over
              BY <3>1, <5>1, TerminalKept DEF Terminal
        <5> QED BY <4>4, <4>5, <5>1 DEF Terminal
      <4> QED BY <3>1, <4>3, <4>4, <4>6 DEF EndsWhenOver
    <3> QED BY <3>2, <3>3
  <2> QED BY <2>1, <2>2
<1> QED BY <1>1, <1>2, <1>3 DEF QuietInv

\* A handle that goes on with the futures it has, or ends.
LEMMA KeepQuiet ==
  ASSUME IInv, QuietInv, Settled, NEW r \in Runs, run[r].pc \notin {"idle", "over"},
         HandleStep(r), run'[r].future = run[r].future,
         run[r].cancelled => run'[r].cancelled, run'[r].pc # "mesh",
         run'[r].pc \in {"pack", "judge", "judged"} => Finished(r)',
         Finished(r)' \/ run'[r].pc = "over" =>
           \/ Finished(r) \/ run[r].pc = "mesh" \/ run'[r].result = "timeout"
           \/ Terminal(r, Solves(r)) \/ \E k \in Submitted(r) : Unreadable(r, {k})
  PROVE  QuietInv'
<1>1. run[r].result = None /\ Job(r) \in Jobs /\ Job(r)' = Job(r)
      BY DEF IInv, HandlesInv, HandleStep, Job
<1>2. Progress(r)
      BY <1>1 DEF Progress, QuietInv, FuturesInv, Post, Job
<1>3. Interrupted(Job(r)) => Interrupted(Job(r))'
  <2>1. ASSUME NEW j \in Jobs, Interrupted(j)
        PROVE  Interrupted(j)'
        BY <1>1, <2>1, InterruptedKept
  <2> QED BY <1>1, <2>1 DEF Interrupted, Job
<1>4. /\ TaskFutures(r)' = TaskFutures(r) /\ Solves(r)' = Solves(r)
      /\ TaskFutures(r) \subseteq Submitted(r) /\ Solves(r) \subseteq Submitted(r)
      BY StepsNames DEF TaskFutures, Solves, Submitted
<1>5. /\ Terminal(r, TaskFutures(r)) => Terminal(r, TaskFutures(r))'
      /\ Terminal(r, Solves(r)) => Terminal(r, Solves(r))'
  <2>1. ASSUME NEW K \in SUBSET Submitted(r), Terminal(r, K)
        PROVE  \A k \in K : Execution(r, k)'.state \in Over
        BY <2>1, TerminalKept DEF Terminal
  <2> QED BY <1>4, <2>1 DEF Terminal
<1>6. ASSUME ~Interrupted(Job(r)) PROVE EndsWhenOver(r)
      BY <1>6 DEF QuietInv, EndedInv, EndsWhenOver
<1>7. ASSUME NEW k \in Submitted(r), Unreadable(r, {k})
      PROVE  Interrupted(Job(r))
      BY <1>7 DEF Interrupted
<1>8. run'[r].result = "timeout" => Interrupted(Job(r))'
      BY DEF Interrupted
<1>9. run[r].pc = "mesh" => Terminal(r, Solves(r))
      BY StepsNames DEF IInv, HandlesInv, Solves, Submitted, Terminal
<1>10. ~Interrupted(Job(r))' => EndsWhenOver(r)'
  <2> SUFFICES ASSUME ~Interrupted(Job(r))'
               PROVE  EndsWhenOver(r)'
      OBVIOUS
  <2>1. ~Interrupted(Job(r))
        BY <1>1, <1>3 DEF Interrupted, Job
  <2>2. run'[r].future["post"] # None => Terminal(r, TaskFutures(r))'
        BY <1>5, <1>6, <2>1 DEF EndsWhenOver
  <2>3. Finished(r)' \/ run'[r].pc = "over" => Terminal(r, Solves(r))'
        BY <1>5, <1>6, <1>7, <1>8, <1>9, <2>1 DEF EndsWhenOver
  <2> QED BY <2>2, <2>3 DEF EndsWhenOver
<1> QED BY <1>2, <1>10, ProgressQuiet

\* A handle that hands the steps K to Dask.
LEMMA SubmitQuiet ==
  ASSUME IInv, QuietInv, NEW r \in Runs, NEW h \in Handles, h.job \in Jobs,
         NEW K \in SUBSET Steps,
         SubmitFutures(r, h, K), h.result = None, h.pc \notin {"idle", "over"},
         run[r].pc # "idle" => h.job = Job(r),
         \A k \in K : run[r].future[k] = None, \A k \in Steps : h.future[k] = run[r].future[k],
         h.pc = "mesh" => K = {"mesh"} /\ \A k \in Steps : h.future[k] = None,
         h.pc = "active" => "pack" \notin K /\ h.future["pack"] = None,
         run[r].pc # "over", run[r].cancelled => h.cancelled,
         h.pc = "mesh" => h.polled = None,
         h.pc \in {"pack", "judge", "judged"} => h.polled \in {"completed", "failed"},
         "post" \in K => /\ run[r].pc # "idle" /\ h.job \in PostJobs
                         /\ Terminal(r, TaskFutures(r)),
         K \cap Tasks # {} => run[r].pc = "mesh" /\ "post" \notin K,
         h.polled \in {"completed", "failed"} => Finished(r) /\ K = {"pack"},
         run[r].pc = "idle" =>
           \A q \in Runs : q < r =>
             /\ run[q].pc # "idle"
             /\ Job(q) = h.job => run[q].result # None \/ run[q].cancelled
  PROVE  QuietInv'
<1>1. /\ HandleStep(r) /\ run'[r].job = h.job /\ run'[r].pc = h.pc /\ run'[r].result = None
      /\ run'[r].polled = h.polled /\ run'[r].cancelled = h.cancelled
      BY SubmitHandle
<1>2. Settled
      BY SubmitSettled
<1>3. TypeOK
      BY DEF IInv
<1>4. \A k \in Steps : IF k \in K THEN run'[r].future[k] \in Runs
                                  ELSE run'[r].future[k] = run[r].future[k]
      BY <1>3, SubmitFuturesType
<1>5. run[r].result = None
      BY DEF IInv, HandlesInv
<1>6. Progress(r)
  <2>1. run'[r].future["post"] # None => h.job \in PostJobs
    <3>1. CASE "post" \in K
          BY <3>1
    <3>2. CASE "post" \notin K
      <4>1. run'[r].future["post"] = run[r].future["post"]
            BY <1>4, <3>2, StepsNames
      <4>2. run[r].future["post"] # None => run[r].pc # "idle" /\ Job(r) \in PostJobs
            BY StepsNames DEF IInv, HandlesInv, NoRun, QuietInv, FuturesInv, Post
      <4> QED BY <4>1, <4>2
    <3> QED BY <3>1, <3>2
  <2> QED BY <1>1, <1>5, <2>1 DEF Progress, Finished
<1>7. Interrupted(Job(r)) /\ run[r].pc # "idle" => Interrupted(Job(r))'
  <2>1. ASSUME NEW j \in Jobs, Interrupted(j)
        PROVE  Interrupted(j)'
        BY <1>1, <1>2, <1>5, <2>1, InterruptedKept
  <2> QED BY <1>1, <2>1 DEF Interrupted, Job
<1>8. ASSUME ~Interrupted(Job(r))'
      PROVE  EndsWhenOver(r)'
  <2>1. ASSUME run'[r].future["post"] # None
        PROVE  Terminal(r, TaskFutures(r))'
    <3>1. run[r].pc # "idle" /\ Terminal(r, TaskFutures(r)) /\ K \cap Tasks = {}
      <4>1. CASE "post" \in K
        <5>1. K \cap Tasks = {}
              BY <4>1
        <5>2. run[r].pc # "idle"
              BY <4>1
        <5> QED BY <4>1, <5>1, <5>2
      <4>2. CASE "post" \notin K
        <5>1. run[r].future["post"] # None
              BY <1>4, <2>1, <4>2, StepsNames
        <5>2. run[r].pc # "idle" /\ run[r].pc # "mesh"
              BY <5>1, StepsNames DEF IInv, HandlesInv, NoRun
        <5>3. ~Interrupted(Job(r))
              BY <1>1, <1>7, <1>8, <5>2 DEF Interrupted, Job
        <5> QED BY <5>1, <5>2, <5>3 DEF QuietInv, EndedInv
      <4> QED BY <4>1, <4>2
    <3>2. \A k \in Tasks : run'[r].future[k] = run[r].future[k]
          BY <1>4, <3>1, StepsNames
    <3>3. TaskFutures(r)' = TaskFutures(r) /\ TaskFutures(r) \subseteq Submitted(r)
          BY <3>2, StepsNames DEF TaskFutures, Submitted
    <3>4. Terminal(r, TaskFutures(r))' <=> \A k \in TaskFutures(r) : Execution(r, k)'.state \in Over
          BY <3>3 DEF Terminal
    <3>5. \A k \in TaskFutures(r) : Execution(r, k)'.state \in Over
          BY <1>2, <3>1, <3>2, <3>3, TerminalKept DEF Terminal, TaskFutures
    <3> QED BY <3>4, <3>5
  <2>2. ASSUME Finished(r)' \/ run'[r].pc = "over"
        PROVE  Terminal(r, Solves(r))'
    <3>1. Finished(r) /\ K = {"pack"}
          BY <1>1, <2>2 DEF Finished
    <3>2. \A k \in Tasks \cup {"post"} : run'[r].future[k] = run[r].future[k] /\ k \in Steps
          BY <1>4, <3>1, StepsNames
    <3>3. Solves(r)' = Solves(r) /\ Solves(r) \subseteq Submitted(r)
          BY <3>2 DEF Solves, Submitted
    <3>4. run[r].pc # "idle"
          BY <3>1, LocalAssumption DEF Finished, IInv, HandlesInv, NoRun
    <3>5. ~Interrupted(Job(r))
          BY <1>1, <1>7, <1>8, <3>4 DEF Interrupted, Job
    <3>6. Terminal(r, Solves(r))
          BY <3>1, <3>5 DEF QuietInv, EndedInv
    <3>7. Terminal(r, Solves(r))' <=> \A k \in Solves(r) : Execution(r, k)'.state \in Over
          BY <3>3 DEF Terminal
    <3>8. \A k \in Solves(r) : Execution(r, k)'.state \in Over
          BY <1>2, <3>2, <3>3, <3>6, TerminalKept, ZenonT(60) DEF Terminal, Solves
    <3> QED BY <3>7, <3>8
  <2> QED BY <2>1, <2>2 DEF EndsWhenOver
<1> QED BY <1>1, <1>2, <1>6, <1>8, ProgressQuiet

LEMMA EndQuiet ==
  ASSUME IInv, QuietInv, NEW r \in Runs, run[r].pc \notin {"idle", "over"},
         NEW state \in Final \cup {"raised"}, End(r, state), Settled,
         state = "timeout" \/ run[r].pc = "mesh" \/ Finished(r)
  PROVE  QuietInv'
<1>1. /\ HandleStep(r) /\ run'[r].future = run[r].future
      /\ run'[r].pc = "over" /\ run'[r].result = state
      BY EndHandle
<1>2. run[r].cancelled => run'[r].cancelled
      BY DEF End, IInv, TypeOK, Handles
<1> QED BY <1>1, <1>2, KeepQuiet

LEMMA FailQuiet ==
  ASSUME IInv, QuietInv, NEW r \in Runs, run[r].pc \notin {"idle", "over"}, Finished(r),
         NEW C \in SUBSET Steps, Fail(r, C)
  PROVE  QuietInv'
<1>1. End(r, "failed") /\ "failed" \in Final
      BY DEF Fail, Final
<1>2. \E R : LetGo(r, C, R)
      BY DEF Fail
<1>3. Settled
      BY <1>2, LetGoSettled
<1> QED BY <1>1, <1>3, EndQuiet

LEMMA PollQuiet ==
  ASSUME IInv, QuietInv, NEW r \in Runs, Poll(r)
  PROVE  QuietInv'
<1> DEFINE T == TaskFutures(r)
           n == Cardinality({t \in T : Failed(r, t)})
           b == Unreadable(r, T)
           h == [run[r] EXCEPT !.errors = b, !.failed = n]
<1>1. run[r].pc = "active"
      BY DEF Poll, Waiting
<1>2. /\ run[r] \in Handles /\ Job(r) \in Jobs /\ run[r].job = Job(r)
      /\ run[r].result = None /\ run[r].future["pack"] = None
      /\ T \subseteq Submitted(r) /\ Solves(r) \subseteq T \cup {"post"}
      BY <1>1, HandleFacts, StepsNames DEF TaskFutures, Submitted, Solves
<1>3. n \in Nat /\ b \in BOOLEAN
  <2>1. IsFiniteSet({t \in T : Failed(r, t)})
        BY FS_Subset, LocalAssumption DEF TaskFutures
  <2> QED BY <2>1, FS_CardinalityType DEF Unreadable
<1> DEFINE Goes(g) == /\ g \in Handles /\ g.job = Job(r) /\ g.future = run[r].future
                      /\ g.pc = "active" /\ g.result = None /\ g.cancelled = run[r].cancelled
<1>4. Goes(run[r])
      BY <1>1, <1>2
<1>5. h.errors = b
      BY <1>2 DEF Handles
<1> HIDE DEF n, b
<1>6. Goes(h)
      BY <1>1, <1>2, <1>3 DEF Handles
<1> HIDE DEF h
<1>7. ASSUME NEW g, Goes(g), NEW p \in {"running", "completed", "failed"}
      PROVE  Goes([g EXCEPT !.polled = p]) /\ [g EXCEPT !.polled = p].polled = p
      BY <1>7 DEF Handles
<1>8. ASSUME NEW g, Goes(g), NEW p \in {"completed", "failed"}, NEW x \in {"ok", "bad"}
      PROVE  Goes([g EXCEPT !.polled = p, !.smooth = x])
      BY <1>8, ZenonT(60) DEF Handles
<1>9. ASSUME NEW g, Goes(g), Polled(r, g),
             \/ g.polled = "running"
             \/ Terminal(r, Solves(r)) \/ \E k \in Submitted(r) : Unreadable(r, {k})
      PROVE  QuietInv'
  <2>1. run' = [run EXCEPT ![r] = g] /\ UNCHANGED <<disk, dask>>
        BY <1>9 DEF Polled
  <2>2. HandleStep(r) /\ run'[r] = g
        BY <1>1, <1>9, <2>1, NextHandle
  <2>3. Settled
        BY <2>1, SameSettled DEF dask
  <2> QED BY <1>1, <1>9, <2>2, <2>3, KeepQuiet DEF Finished
<1> HIDE DEF Goes
<1>10. CASE Polled(r, [run[r] EXCEPT !.polled = "running"])
      BY <1>4, <1>7, <1>9, <1>10
<1>11. CASE /\ Terminal(r, T) /\ (Unreadable(r, T) \/ ~Post(r))
            /\ Polled(r, [h EXCEPT !.polled = IF h.errors THEN "failed" ELSE "completed"])
  <2>1. Terminal(r, Solves(r)) \/ \E k \in Submitted(r) : Unreadable(r, {k})
    <3>1. CASE Unreadable(r, T)
          BY <1>2, <3>1 DEF Unreadable
    <3>2. CASE ~Post(r)
      <4>1. Solves(r) \subseteq T
            BY <1>2, <3>2 DEF QuietInv, FuturesInv, Solves, Submitted
      <4> QED BY <1>11, <4>1 DEF Terminal
    <3> QED BY <1>11, <3>1, <3>2
  <2>2. \E p \in {"completed", "failed"} : Polled(r, [h EXCEPT !.polled = p])
        BY <1>11
  <2> QED BY <1>6, <1>7, <1>9, <2>1, <2>2
<1>12. CASE /\ Terminal(r, T) /\ Post(r) /\ run[r].future["post"] = None
            /\ SubmitFutures(r, [h EXCEPT !.polled = "running"], {"post"})
  <2> DEFINE g == [h EXCEPT !.polled = "running"]
  <2>1. Goes(g) /\ g.polled = "running"
        BY <1>6, <1>7
  <2>2. SubmitFutures(r, g, {"post"})
        BY <1>12
  <2> HIDE DEF g
  <2>3. /\ {"post"} \in SUBSET Steps /\ \A k \in {"post"} : run[r].future[k] = None
        /\ {"post"} \cap Tasks = {} /\ "pack" \notin {"post"}
        BY <1>12, StepsNames
  <2>4. /\ g \in Handles /\ g.job = Job(r) /\ g.future = run[r].future
        /\ g.pc = "active" /\ g.result = None /\ g.cancelled = run[r].cancelled
        BY <2>1 DEF Goes
  <2>5. g.job \in Jobs /\ g.job \in PostJobs /\ \A k \in Steps : g.future[k] = run[r].future[k]
        BY <1>2, <1>12, <2>4 DEF Post
  <2>6. g.future["pack"] = None
        BY <1>2, <2>4
  <2> QED BY <1>1, <1>12, <2>1, <2>2, <2>3, <2>4, <2>5, <2>6, SubmitQuiet
<1>13. CASE /\ Terminal(r, T)
            /\ Polled(r, CASE ~Terminal(r, {"post"}) -> [h EXCEPT !.polled = "running"]
                           [] Succeeded(r, "post") ->
                                [h EXCEPT !.polled = "completed", !.smooth = "ok"]
                           [] Failed(r, "post") ->
                                [h EXCEPT !.polled = "failed", !.smooth = "bad"]
                           [] OTHER -> [h EXCEPT !.polled = "failed"])
  <2> DEFINE a == [h EXCEPT !.polled = "running"]
             c == [h EXCEPT !.polled = "completed", !.smooth = "ok"]
             d == [h EXCEPT !.polled = "failed", !.smooth = "bad"]
             e == [h EXCEPT !.polled = "failed"]
             g == CASE ~Terminal(r, {"post"}) -> a [] Succeeded(r, "post") -> c
                    [] Failed(r, "post") -> d [] OTHER -> e
  <2>1. Goes(a) /\ Goes(c) /\ Goes(d) /\ Goes(e) /\ a.polled = "running"
        BY <1>6, <1>7, <1>8, Zenon
  <2>2. Polled(r, g)
        BY <1>13
  <2> HIDE DEF a, c, d, e
  <2>3. g = a \/ (Terminal(r, {"post"}) /\ g \in {c, d, e})
        BY DEF Terminal, Succeeded, Failed, Over
  <2> HIDE DEF g
  <2>4. Terminal(r, {"post"}) => Terminal(r, Solves(r))
        BY <1>2, <1>13 DEF Terminal
  <2> QED BY <1>9, <2>1, <2>2, <2>3, <2>4, SMTT(30)
<1> QED BY <1>10, <1>11, <1>12, <1>13 DEF Poll, h, n, b

LEMMA AdvanceQuiet ==
  ASSUME IInv, QuietInv, NEW r \in Runs, Advance(r) \/ Timeout(r) \/ WatchTimeout(r) \/ Cancel(r)
  PROVE  QuietInv'
<1>1. run[r].pc \in {"mesh", "active", "pack", "judge", "judged"} /\ {} \in SUBSET Steps
      BY DEF Advance, SubmitTasks, MeshFailed, Poll, Waiting, Collect, Packed, PublishCompleted,
             Judge, Timeout, WatchTimeout, Cancel
<1>2. /\ run[r] \in Handles /\ Job(r) \in Jobs /\ run[r].job = Job(r) /\ run[r].result = None
      /\ TaskFutures(r) \in SUBSET Steps /\ Submitted(r) \in SUBSET Steps
      /\ run[r].pc = "mesh" => \A k \in Steps \ {"mesh"} : run[r].future[k] = None
      /\ run[r].pc = "active" => run[r].future["pack"] = None
      BY <1>1, HandleFacts
<1>3. \A state \in {"completed", "timeout", "raised"} : state \in Final \cup {"raised"}
      BY DEF Final
<1>4. /\ run[r].pc \in {"pack", "judge", "judged"} => Finished(r)
      /\ run[r].pc = "mesh" => run[r].polled = None
      BY DEF QuietInv, FuturesInv
<1>5. ASSUME NEW pc \in {"judge", "judged"}, run' = [run EXCEPT ![r].pc = pc], Finished(r),
             UNCHANGED dask, run[r].pc # "mesh"
      PROVE  QuietInv'
  <2> DEFINE h == [run[r] EXCEPT !.pc = pc]
  <2>1. /\ h \in Handles /\ h.job = Job(r) /\ h.future = run[r].future /\ h.pc = pc
        /\ h.result = None /\ h.polled = run[r].polled /\ h.cancelled = run[r].cancelled
        BY <1>2 DEF Handles
  <2>2. run' = [run EXCEPT ![r] = h]
        BY <1>5
  <2> HIDE DEF h
  <2>3. HandleStep(r) /\ run'[r] = h
        BY <1>1, <2>1, <2>2, NextHandle
  <2>4. Settled
        BY <1>5, SameSettled
  <2> QED BY <1>1, <1>5, <2>1, <2>3, <2>4, KeepQuiet DEF Finished
<1>6. CASE SubmitTasks(r)
  <2> DEFINE h == [run[r] EXCEPT !.pc = "active"]
  <2>1. run[r].pc = "mesh" /\ SubmitFutures(r, h, run[r].pending)
        BY <1>6 DEF SubmitTasks
  <2>2. /\ h \in Handles /\ h.job = Job(r) /\ h.pc = "active" /\ h.result = None
        /\ h.future = run[r].future /\ h.cancelled = run[r].cancelled /\ h.polled = run[r].polled
        BY <1>2 DEF Handles
  <2>3. /\ run[r].pending \in SUBSET Steps /\ "pack" \notin run[r].pending
        /\ "post" \notin run[r].pending /\ \A k \in run[r].pending : k # "mesh"
        BY <1>2, StepsNames DEF Handles
  <2>4. \A k \in run[r].pending : run[r].future[k] = None
        BY <1>2, <2>1, <2>3
  <2>5. h.future["pack"] = None /\ h.polled \notin {"completed", "failed"}
        BY <1>2, <1>4, <2>1, <2>2, StepsNames, LocalAssumption
  <2> HIDE DEF h
  <2> QED BY <1>2, <2>1, <2>2, <2>3, <2>4, <2>5, SubmitQuiet
<1>7. CASE MeshFailed(r)
  <2>1. run[r].pc = "mesh" /\ LetGo(r, {}, {"mesh"}) /\ End(r, "raised")
        BY <1>7 DEF MeshFailed
  <2>2. Settled
        BY <1>1, <2>1, LetGoSettled
  <2> QED BY <2>1, <2>2, EndQuiet
<1>8. CASE Poll(r)
      BY <1>8, PollQuiet
<1>9. CASE Collect(r)
  <2>1. run[r].pc = "active" /\ Finished(r)
        BY <1>9 DEF Collect, Finished
  <2>2. CASE Fail(r, {}) \/ Fail(r, Submitted(r))
        BY <1>1, <1>2, <2>1, <2>2, FailQuiet
  <2>3. CASE SubmitFutures(r, [run[r] EXCEPT !.pc = "pack"], {"pack"})
    <3> DEFINE h == [run[r] EXCEPT !.pc = "pack"]
    <3>1. /\ h \in Handles /\ h.job = Job(r) /\ h.future = run[r].future /\ h.pc = "pack"
          /\ h.result = None /\ h.polled = run[r].polled /\ h.cancelled = run[r].cancelled
          BY <1>2 DEF Handles
    <3>2. SubmitFutures(r, h, {"pack"})
          BY <2>3
    <3> HIDE DEF h
    <3>3. /\ {"pack"} \in SUBSET Steps /\ \A k \in {"pack"} : run[r].future[k] = None
          /\ {"pack"} \cap Tasks = {} /\ "post" \notin {"pack"}
          BY <1>2, <2>1, StepsNames
    <3>4. h.polled \in {"completed", "failed"}
          BY <2>1, <3>1 DEF Finished
    <3> QED BY <1>2, <2>1, <3>1, <3>2, <3>3, <3>4, SubmitQuiet
  <2>4. CASE run' = [run EXCEPT ![r].pc = "judge"] /\ UNCHANGED <<disk, dask>>
        BY <1>5, <2>1, <2>4
  <2> QED BY <1>9, <2>2, <2>3, <2>4 DEF Collect
<1>10. CASE Packed(r)
  <2>1. run[r].pc = "pack" /\ Finished(r)
        BY <1>4, <1>10 DEF Packed
  <2>2. CASE Fail(r, {}) \/ Fail(r, Submitted(r))
        BY <1>1, <1>2, <2>1, <2>2, FailQuiet
  <2>3. CASE LetGo(r, {}, Submitted(r)) /\ End(r, "completed")
    <3>1. Settled
          BY <1>1, <2>3, LetGoSettled
    <3> QED BY <1>1, <1>3, <2>1, <2>3, <3>1, EndQuiet
  <2>4. CASE run' = [run EXCEPT ![r].pc = "judge"] /\ UNCHANGED <<disk, dask>>
        BY <1>5, <2>1, <2>4
  <2> QED BY <1>10, <2>2, <2>3, <2>4 DEF Packed
<1>11. CASE PublishCompleted(r)
      BY <1>4, <1>5, <1>11 DEF PublishCompleted
<1>12. CASE Judge(r)
  <2>1. run[r].pc = "judged" /\ Finished(r)
        BY <1>4, <1>12 DEF Judge
  <2>2. CASE Fail(r, {})
        BY <1>1, <2>1, <2>2, FailQuiet
  <2>3. CASE LetGo(r, {}, Submitted(r)) /\ End(r, "completed")
    <3>1. Settled
          BY <1>1, <2>3, LetGoSettled
    <3> QED BY <1>1, <1>3, <2>1, <2>3, <3>1, EndQuiet
  <2> QED BY <1>12, <2>2, <2>3 DEF Judge
<1>13. CASE Timeout(r)
  <2>1. /\ LetGo(r, TaskFutures(r), TaskFutures(r)) /\ End(r, "timeout")
        BY <1>13 DEF Timeout
  <2>2. Settled
        BY <1>1, <1>2, <2>1, LetGoSettled
  <2> QED BY <1>1, <1>3, <2>1, <2>2, EndQuiet
<1>14. CASE WatchTimeout(r)
  <2>1. End(r, "timeout") /\ Settled
        BY <1>14, SameSettled DEF WatchTimeout, dask
  <2> QED BY <1>1, <1>3, <2>1, EndQuiet
<1>15. CASE Cancel(r)
  <2> DEFINE h == [run[r] EXCEPT !.cancelled = TRUE]
  <2>1. /\ LetGo(r, TaskFutures(r), TaskFutures(r)) /\ run' = [run EXCEPT ![r] = h]
        /\ run[r].pc # "mesh"
        BY <1>15 DEF Cancel
  <2>2. /\ h \in Handles /\ h.job = Job(r) /\ h.future = run[r].future /\ h.pc = run[r].pc
        /\ h.result = None /\ h.polled = run[r].polled /\ h.cancelled
        BY <1>2, ZenonT(60) DEF Handles
  <2> HIDE DEF h
  <2>3. HandleStep(r) /\ run'[r] = h
        BY <1>1, <1>2, <2>1, <2>2, NextHandle, LocalAssumption
  <2>4. Settled
        BY <1>1, <1>2, <2>1, LetGoSettled
  <2> QED BY <1>1, <1>4, <2>1, <2>2, <2>3, <2>4, KeepQuiet DEF Finished
<1> QED BY <1>6, <1>7, <1>8, <1>9, <1>10, <1>11, <1>12, <1>13, <1>14, <1>15 DEF Advance

LEMMA MeshQuiet ==
  ASSUME IInv, QuietInv, NEW r \in Runs, run[r].pc = "idle",
         NEW g \in Handles, g.job \in Jobs, g.pc = "mesh", g.result = None, g.polled = None,
         \A k \in Steps : g.future[k] = None, SubmitFutures(r, g, {"mesh"}),
         \A q \in Runs : q < r =>
           /\ run[q].pc # "idle"
           /\ Job(q) = g.job => run[q].result # None \/ run[q].cancelled
  PROVE  QuietInv'
<1> DEFINE K == {"mesh"}
<1>1. run[r] = NoRun
      BY DEF IInv, HandlesInv
<1>2. /\ NoRun.future = [k \in Steps |-> None]
      /\ NoRun.result = None /\ ~NoRun.cancelled
      BY DEF NoRun
<1>3. (\A k \in Steps : run[r].future[k] = None) /\ ~run[r].cancelled
      BY <1>1, <1>2
<1>4. g.polled \notin {"completed", "failed"}
      BY LocalAssumption
<1>5. K \in SUBSET Steps /\ K \cap Tasks = {} /\ "post" \notin K /\ "pack" \notin K
      BY StepsNames
<1>6. /\ SubmitFutures(r, g, K) /\ K = {"mesh"}
      /\ \A k \in K : run[r].future[k] = None
      /\ \A k \in Steps : g.future[k] = run[r].future[k]
      BY <1>3, <1>5
<1> HIDE DEF K
<1> QED BY <1>3, <1>4, <1>5, <1>6, SubmitQuiet

\* A run that starts out hands nothing to Dask, or its mesh step.
LEMMA BeginQuiet ==
  ASSUME IInv, QuietInv, NEW r \in Runs, NEW j \in Jobs, NEW v, MaySubmit(r, j, v),
         NEW h, NewHandle(h, j), ~h.cancelled, h.polled = None,
         \/ /\ UNCHANGED dask
            /\ \/ run' = [run EXCEPT ![r] = [h EXCEPT !.pc = "over", !.result = "skipped"]]
               \/ run' = [run EXCEPT ![r] = [h EXCEPT !.pc = "active"]]
               \/ run' = [run EXCEPT ![r] = [h EXCEPT !.pc = "active", !.postOnly = TRUE]]
         \/ \E P \in SUBSET Tasks :
              SubmitFutures(r, [h EXCEPT !.pc = "mesh", !.pending = P], {"mesh"})
  PROVE  QuietInv'
<1>1. /\ run[r].pc = "idle" /\ run[r] = NoRun /\ run \in [Runs -> Handles]
      /\ \A q \in Runs : q < r => /\ run[q].pc # "idle"
                                  /\ Job(q) = j => run[q].result # None \/ run[q].cancelled
      BY DEF MaySubmit, IInv, HandlesInv, TypeOK
<1>2. /\ \A k \in Steps : run[r].future[k] = None
      /\ run[r].result = None /\ ~run[r].cancelled
  <2>1. /\ NoRun.future = [k \in Steps |-> None]
        /\ NoRun.result = None /\ ~NoRun.cancelled
        BY DEF NoRun
  <2> QED BY <1>1, <2>1
<1>3. ASSUME NEW g, NEW pc \in {"active", "over"}, NEW result, StartedHandle(g, j, pc, result),
             g.polled = None, run' = [run EXCEPT ![r] = g], UNCHANGED dask,
             pc = "over" <=> result # None
      PROVE  QuietInv'
  <2>1. run' \in [Runs -> Handles] /\ run'[r] = g /\ \A s \in Runs \ {r} : run'[s] = run[s]
        BY <1>1, <1>3 DEF StartedHandle
  <2>2. HandleStep(r)
        BY <1>1, <1>2, <1>3, <2>1, StepsNames DEF HandleStep, StartedHandle
  <2>3. Settled
        BY <1>3, SameSettled
  <2>4. run'[r].future["post"] = None
        BY <1>3, <2>1, StepsNames DEF StartedHandle
  <2>5. Progress(r)
        BY <1>1, <1>2, <1>3, <2>1, <2>4 DEF Progress, StartedHandle
  <2>6. Solves(r)' = {}
        BY <1>3, <2>1 DEF Solves, Submitted, StartedHandle
  <2>7. EndsWhenOver(r)'
        BY <2>4, <2>6 DEF EndsWhenOver, Terminal
  <2> QED BY <2>2, <2>3, <2>5, <2>7, ProgressQuiet
<1>4. /\ [h EXCEPT !.pc = "over", !.result = "skipped"].polled = None
      /\ [h EXCEPT !.pc = "active"].polled = None
      /\ [h EXCEPT !.pc = "active", !.postOnly = TRUE].polled = None
      BY DEF NewHandle, Handles
<1>5. "skipped" # None
      BY LocalAssumption
<1>6. CASE /\ UNCHANGED dask
           /\ run' = [run EXCEPT ![r] = [h EXCEPT !.pc = "over", !.result = "skipped"]]
  <2> DEFINE g == [h EXCEPT !.pc = "over", !.result = "skipped"]
  <2>1. StartedHandle(g, j, "over", "skipped")
        BY StartHandle
  <2>2. g.polled = None /\ run' = [run EXCEPT ![r] = g]
        BY <1>4, <1>6
  <2> HIDE DEF g
  <2> QED BY <1>3, <1>5, <1>6, <2>1, <2>2
<1>7. CASE UNCHANGED dask /\ run' = [run EXCEPT ![r] = [h EXCEPT !.pc = "active"]]
  <2> DEFINE g == [h EXCEPT !.pc = "active"]
  <2>1. StartedHandle(g, j, "active", None)
        BY StartHandle
  <2>2. g.polled = None /\ run' = [run EXCEPT ![r] = g]
        BY <1>4, <1>7
  <2> HIDE DEF g
  <2> QED BY <1>3, <1>7, <2>1, <2>2
<1>8. CASE /\ UNCHANGED dask
           /\ run' = [run EXCEPT ![r] = [h EXCEPT !.pc = "active", !.postOnly = TRUE]]
  <2> DEFINE g == [h EXCEPT !.pc = "active", !.postOnly = TRUE]
  <2>1. StartedHandle(g, j, "active", None)
        BY StartHandle
  <2>2. g.polled = None /\ run' = [run EXCEPT ![r] = g]
        BY <1>4, <1>8
  <2> HIDE DEF g
  <2> QED BY <1>3, <1>8, <2>1, <2>2
<1>9. ASSUME NEW P \in SUBSET Tasks,
             SubmitFutures(r, [h EXCEPT !.pc = "mesh", !.pending = P], {"mesh"})
      PROVE  QuietInv'
  <2> DEFINE g == [h EXCEPT !.pc = "mesh", !.pending = P]
  <2>1. StartedHandle(g, j, "mesh", None)
        BY StartHandle
  <2>2. g.polled = None /\ g.cancelled = h.cancelled
        BY DEF NewHandle, Handles
  <2>3. SubmitFutures(r, g, {"mesh"})
        BY <1>9
  <2> HIDE DEF g
  <2>5. /\ g \in Handles /\ g.job = j /\ g.pc = "mesh" /\ g.result = None
        /\ \A k \in Steps : g.future[k] = None
        BY <2>1 DEF StartedHandle
  <2> QED BY <1>1, <2>2, <2>3, <2>5, MeshQuiet
<1> QED BY <1>6, <1>7, <1>8, <1>9

LEMMA SubmissionQuiet ==
  ASSUME IInv, QuietInv, NEW r \in Runs, NEW j \in Jobs, NEW v \in Contents,
         NEW fresh \in BOOLEAN, NEW shutdown \in BOOLEAN,
         \/ \E n \in Nat : Submit(r, j, v, fresh, shutdown, n)
         \/ SubmitPostprocess(r, j, v, fresh, shutdown)
  PROVE  QuietInv'
<1>1. ASSUME NEW n \in Nat, Submit(r, j, v, fresh, shutdown, n)
      PROVE  QuietInv'
  <2> DEFINE h == [NoRun EXCEPT !.job = j, !.fresh = fresh, !.shutdown = shutdown,
                                !.tolerance = n, !.version = v]
             pending == {t \in Tasks : fresh \/ ~CurrentTask(j, t, v)}
  <2>1. NewHandle(h, j)
    <3>1. h \in Handles /\ h.job = j
          BY NoRunType DEF Handles
    <3>2. h.result = None /\ h.future = [k \in Steps |-> None]
          BY DEF NoRun
    <3> QED BY <3>1, <3>2 DEF NewHandle
  <2>2. ~h.cancelled /\ h.polled = None
        BY DEF NoRun
  <2>3. pending \in SUBSET Tasks
        OBVIOUS
  <2>4. /\ MaySubmit(r, j, v)
        /\ \/ /\ UNCHANGED dask
              /\ \/ run' = [run EXCEPT ![r] = [h EXCEPT !.pc = "over", !.result = "skipped"]]
                 \/ run' = [run EXCEPT ![r] = [h EXCEPT !.pc = "active", !.postOnly = TRUE]]
           \/ SubmitFutures(r, [h EXCEPT !.pc = "mesh", !.pending = pending], {"mesh"})
        BY <1>1 DEF Submit, Skip
  <2> HIDE DEF h, pending
  <2> QED BY <2>1, <2>2, <2>3, <2>4, BeginQuiet
<1>2. CASE SubmitPostprocess(r, j, v, fresh, shutdown)
  <2> DEFINE h == [NoRun EXCEPT !.job = j, !.fresh = fresh, !.shutdown = shutdown,
                                !.version = v, !.postOnly = TRUE]
  <2>1. NewHandle(h, j)
    <3>1. h \in Handles /\ h.job = j
          BY NoRunType, ZenonT(60) DEF Handles
    <3>2. h.result = None /\ h.future = [k \in Steps |-> None]
          BY DEF NoRun
    <3> QED BY <3>1, <3>2 DEF NewHandle
  <2>2. ~h.cancelled /\ h.polled = None
        BY DEF NoRun
  <2>3. /\ MaySubmit(r, j, v) /\ UNCHANGED dask
        /\ \/ run' = [run EXCEPT ![r] = [h EXCEPT !.pc = "over", !.result = "skipped"]]
           \/ run' = [run EXCEPT ![r] = [h EXCEPT !.pc = "active"]]
        BY <1>2 DEF SubmitPostprocess, Skip, dask
  <2> HIDE DEF h
  <2> QED BY <2>1, <2>2, <2>3, BeginQuiet
<1> QED BY <1>1, <1>2

\* What a worker makes of an execution.
Started(s, k) ==
  /\ Start(s, k) /\ ex[s][k].state = "queued" /\ ex'[s][k].state = "running"
  /\ UNCHANGED <<shard, product>>
  /\ k \in Tasks => ex'[s][k].read = file[Job(s)]
  /\ k = "post" => ex'[s][k].read = [t \in Tasks |-> shard[Job(s)][t].part]
HasSolved(s, k, ok) ==
  /\ ex[s][k].solver /\ ~ex'[s][k].solver
  /\ IF ex[s][k].state = "running" THEN ex'[s][k].state = "done" /\ ex'[s][k].ok = ok
                                   ELSE ex'[s][k].state = ex[s][k].state
HasLost(s, k) ==
  /\ ex[s][k].state = "running" /\ ex'[s][k].state = "error" /\ UNCHANGED <<shard, product>>

LEMMA Worked ==
  ASSUME IInv, NEW s \in Runs, NEW k \in Steps, Work(s, k) \/ WorkerLost(s, k)
  PROVE  /\ UNCHANGED <<run, file, key, held>>
         /\ \A r \in Runs, i \in Steps : r # s \/ i # k => ex'[r][i] = ex[r][i]
         /\ \/ Started(s, k)
            \/ SolverSucceeds(s, k) /\ HasSolved(s, k, TRUE)
            \/ SolverFails(s, k) /\ HasSolved(s, k, FALSE)
            \/ HasLost(s, k)
<1>1. /\ ex = [r \in Runs |-> [i \in Steps |-> ex[r][i]]]
      /\ ex[s][k] \in Executions(k) /\ UNCHANGED <<run, file, key, held>>
      BY DEF IInv, TypeOK, Work, Start, SolverSucceeds, SolverFails, WorkerLost, disk
<1>2. ASSUME NEW e, ex' = [ex EXCEPT ![s][k] = e]
      PROVE  \A r \in Runs, i \in Steps : ex'[r][i] = IF r = s /\ i = k THEN e ELSE ex[r][i]
      BY <1>1, <1>2
<1>3. CASE Start(s, k)
  <2> DEFINE x == CASE k \in Tasks -> file[Job(s)]
                    [] k = "post" -> [t \in Tasks |-> shard[Job(s)][t].part]
                    [] OTHER -> None
             e == [ex[s][k] EXCEPT !.state = "running", !.solver = TRUE, !.read = x]
  <2>1. ex' = [ex EXCEPT ![s][k] = e] /\ ex[s][k].state = "queued" /\ UNCHANGED <<shard, product>>
        BY <1>3 DEF Start, disk
  <2>2. /\ k \in Tasks => x = file[Job(s)]
        /\ k = "post" => x = [t \in Tasks |-> shard[Job(s)][t].part]
        BY StepsNames
  <2> HIDE DEF x
  <2>3. e.state = "running" /\ e.read = x
        BY <1>1 DEF Executions
  <2> HIDE DEF e
  <2> QED BY <1>1, <1>2, <1>3, <2>1, <2>2, <2>3 DEF Started
<1>4. ASSUME NEW ok \in BOOLEAN, Solved(s, k, ok), ex[s][k].solver
      PROVE  /\ HasSolved(s, k, ok)
             /\ \A r \in Runs, i \in Steps : r # s \/ i # k => ex'[r][i] = ex[r][i]
  <2> DEFINE b == ok /\ ex[s][k].state = "running"
             x == IF ex[s][k].state = "running" THEN "done" ELSE ex[s][k].state
             e == [ex[s][k] EXCEPT !.solver = FALSE, !.read = None, !.ok = b, !.state = x]
  <2>1. ex' = [ex EXCEPT ![s][k] = e]
        BY <1>4 DEF Solved
  <2>2. IF ex[s][k].state = "running" THEN x = "done" /\ b = ok ELSE x = ex[s][k].state
        BY <1>4
  <2> HIDE DEF b, x
  <2>3. e.state = x /\ e.ok = b /\ ~e.solver
        BY <1>1 DEF Executions
  <2> HIDE DEF e
  <2>4. \A r \in Runs, i \in Steps : ex'[r][i] = IF r = s /\ i = k THEN e ELSE ex[r][i]
        BY <1>2, <2>1, Zenon
  <2>5. ex'[s][k] = e
        BY <2>4
  <2>6. HasSolved(s, k, ok)
    <3>1. CASE ex[s][k].state = "running"
          BY <1>4, <2>2, <2>3, <2>5, <3>1, Zenon DEF HasSolved
    <3>2. CASE ex[s][k].state # "running"
          BY <1>4, <2>2, <2>3, <2>5, <3>2, Zenon DEF HasSolved
    <3> QED BY <3>1, <3>2
  <2> QED BY <2>4, <2>6, Zenon
<1>5. CASE WorkerLost(s, k)
  <2> DEFINE e == [ex[s][k] EXCEPT !.state = "error"]
  <2>1. /\ ex' = [ex EXCEPT ![s][k] = e] /\ ex[s][k].state = "running"
        /\ UNCHANGED <<shard, product>>
        BY <1>5 DEF WorkerLost, disk
  <2>2. e.state = "error"
        BY <1>1 DEF Executions
  <2> HIDE DEF e
  <2> QED BY <1>1, <1>2, <2>1, <2>2 DEF HasLost
<1> QED BY <1>1, <1>3, <1>4, <1>5 DEF Work, SolverSucceeds, SolverFails

LEMMA WorkSettled ==
  ASSUME IInv, NEW s \in Runs, NEW k \in Steps, Work(s, k) \/ WorkerLost(s, k)
  PROVE  Settled /\ \A j : Interrupted(j) => Interrupted(j)'
<1>1. /\ run' = run /\ \A r \in Runs, i \in Steps : r # s \/ i # k => ex'[r][i] = ex[r][i]
      /\ \/ Started(s, k) \/ HasSolved(s, k, TRUE) \/ HasSolved(s, k, FALSE)
         \/ HasLost(s, k)
      BY Worked, Zenon
<1>2. /\ ex[s][k].state \in Over => ex'[s][k].state \in Over
      /\ ex[s][k].state \in {"error", "cancelled"} => ex'[s][k].state \in {"error", "cancelled"}
      BY <1>1, Zenon DEF Started, HasSolved, HasLost, Over
<1>3. Settled
      BY <1>1, <1>2, Zenon DEF Settled
<1>4. ASSUME NEW q \in Runs, NEW i \in Submitted(q), Unreadable(q, {i})
      PROVE  i \in Submitted(q)' /\ Unreadable(q, {i})'
  <2>1. i \in Steps /\ run[q].future[i] \in Runs
        BY DEF Submitted, IInv, TypeOK, Handles
  <2> QED BY <1>1, <1>3, <1>4, <2>1 DEF Submitted, Unreadable, Execution, Settled
<1> QED BY <1>1, <1>3, <1>4 DEF Interrupted, Job

LEMMA WorkQuiet ==
  ASSUME IInv, QuietInv, NEW s \in Runs, NEW k \in Steps, Work(s, k) \/ WorkerLost(s, k)
  PROVE  QuietInv'
<1>1. run' = run
      BY Worked
<1>2. Settled /\ \A j : Interrupted(j) => Interrupted(j)'
      BY WorkSettled
<1>3. FuturesInv' /\ Sequential'
      BY <1>1 DEF QuietInv, FuturesInv, Sequential, Finished, Post, Job
<1>4. EndedInv'
  <2> SUFFICES ASSUME NEW r \in Runs, ~Interrupted(Job(r))'
               PROVE  EndsWhenOver(r)'
      BY DEF EndedInv, EndsWhenOver
  <2>1. /\ TaskFutures(r)' = TaskFutures(r) /\ Solves(r)' = Solves(r)
        /\ TaskFutures(r) \subseteq Submitted(r) /\ Solves(r) \subseteq Submitted(r)
        BY <1>1, StepsNames DEF TaskFutures, Solves, Submitted
  <2>2. ~Interrupted(Job(r))
        BY <1>1, <1>2 DEF Interrupted, Job
  <2>3. EndsWhenOver(r)
        BY <2>2 DEF QuietInv, EndedInv, EndsWhenOver
  <2>4. ASSUME NEW K \in SUBSET Submitted(r), Terminal(r, K)
        PROVE  \A i \in K : Execution(r, i)'.state \in Over
        BY <1>1, <1>2, <2>4, TerminalKept DEF Terminal
  <2>5. /\ Terminal(r, TaskFutures(r)) => Terminal(r, TaskFutures(r))'
        /\ Terminal(r, Solves(r)) => Terminal(r, Solves(r))'
        BY <2>1, <2>4 DEF Terminal
  <2> QED BY <1>1, <2>3, <2>5 DEF EndsWhenOver, Finished
<1> QED BY <1>3, <1>4 DEF QuietInv

LEMMA QuietInitially == ASSUME Init PROVE QuietInv
<1>1. \A r \in Runs : run[r] = NoRun
      BY DEF Init
<1>2. /\ NoRun.pc = "idle" /\ NoRun.polled = None /\ NoRun.future = [k \in Steps |-> None]
      BY DEF NoRun
<1>3. \A r \in Runs : /\ run[r].pc = "idle" /\ ~Finished(r)
                      /\ \A k \in Steps : run[r].future[k] = None
      BY <1>1, <1>2, LocalAssumption DEF Finished
<1> QED BY <1>3, StepsNames DEF QuietInv, FuturesInv, Sequential, EndedInv

LEMMA NextQuiet == ASSUME IInv, QuietInv, Next PROVE QuietInv'
<1>1. ASSUME NEW r \in Runs, NEW j \in Jobs, NEW v \in 0 .. MaxVersion, NEW fresh \in Forces,
             NEW shutdown \in Shutdowns,
             \/ \E n \in Tolerances : Submit(r, j, v, fresh, shutdown, n)
             \/ SubmitPostprocess(r, j, v, fresh, shutdown)
      PROVE  QuietInv'
  <2>1. v \in Contents /\ fresh \in BOOLEAN /\ shutdown \in BOOLEAN /\ Tolerances \subseteq Nat
        BY LocalAssumption DEF Contents
  <2> QED BY <1>1, <2>1, SubmissionQuiet, SMTT(30)
<1> QED BY <1>1, AdvanceQuiet, WorkQuiet DEF Next

LEMMA SameQuiet == ASSUME QuietInv, UNCHANGED vars PROVE QuietInv'
BY DEF vars, disk, dask, QuietInv, FuturesInv, Sequential, EndedInv, Finished, Post, Job,
       Interrupted, Submitted, Unreadable, Execution, Terminal, TaskFutures, Solves

LEMMA QuietInvariance == Spec => [](IInv /\ QuietInv)
<1>1. Init => IInv /\ QuietInv
      BY InitInv, QuietInitially
<1>2. (IInv /\ QuietInv) /\ [Next]_vars => (IInv /\ QuietInv)'
      BY NextQuiet, SameQuiet, NextInv
<1> QED BY <1>1, <1>2, PTL DEF Spec

\* The postprocess step starts on outputs no solver of the job is writing: its run waited
\* for its tasks (_poll_local_run), and the runs of a job follow each other.
THEOREM LocalPostReadsQuietShards == Spec => PostReadsQuietShards
<1>1. ASSUME IInv, QuietInv, NEW s \in Runs, Start(s, "post"), ~Interrupted(Job(s)),
             NEW q \in Runs, NEW t \in Tasks, Job(q) = Job(s), ex[q][t].solver
      PROVE  FALSE
  <2>1. "post" \in Steps /\ t \in Steps
        BY StepsNames
  <2>2. run[s].pc # "idle" /\ run[s].future["post"] = s /\ ex[s]["post"].state = "queued"
        BY <1>1, <2>1 DEF IInv, ReadsInv, Start
  <2>3. /\ run[q].pc # "idle" /\ run[q].future[t] = q
        /\ ex[q][t].state \in {"running", "error", "cancelled"}
        BY <1>1, <2>1 DEF IInv, ReadsInv
  <2>4. s # None /\ q # None /\ s \in Nat /\ q \in Nat
        BY LocalAssumption
  <2>5. t \in Submitted(q) /\ t \in TaskFutures(q) /\ t \in Solves(q) /\ "post" \in Solves(s)
        BY <2>1, <2>2, <2>3, <2>4 DEF Submitted, TaskFutures, Solves
  <2>6. Execution(q, t) = ex[q][t] /\ Execution(s, "post") = ex[s]["post"]
        BY <2>2, <2>3 DEF Execution
  <2>7. ~Unreadable(q, {t}) /\ ~run[q].cancelled /\ ~run[s].cancelled
        BY <1>1, <2>5 DEF Interrupted
  <2>8. ex[q][t].state \notin Over /\ ex[s]["post"].state \notin Over
        BY <2>2, <2>3, <2>6, <2>7 DEF Unreadable, Over
  <2>9. run[q].result = None /\ run[s].result = None
    <3>1. ~Terminal(q, Solves(q)) /\ ~Terminal(s, Solves(s))
          BY <2>5, <2>6, <2>8 DEF Terminal
    <3>2. run[q].pc # "over" /\ run[s].pc # "over"
          BY <1>1, <3>1 DEF QuietInv, EndedInv
    <3> QED BY <1>1, <3>2 DEF IInv, HandlesInv
  <2>10. ~(q < s) /\ ~(s < q)
        BY <1>1, <2>2, <2>3, <2>7, <2>9 DEF QuietInv, Sequential
  <2>11. q = s
        BY <2>4, <2>10
  <2>12. Terminal(s, TaskFutures(s))
        BY <1>1, <2>2, <2>4 DEF QuietInv, EndedInv
  <2> QED BY <2>5, <2>6, <2>8, <2>11, <2>12 DEF Terminal
<1>2. IInv /\ QuietInv /\ [Next]_vars =>
        [\A s \in Runs : Start(s, "post") /\ ~Interrupted(Job(s)) =>
           \A q \in Runs, t \in Tasks : Job(q) = Job(s) => ~ex[q][t].solver]_vars
      BY <1>1
<1> QED BY <1>2, QuietInvariance, PTL DEF Spec, PostReadsQuietShards

-----------------------------------------------------------------------------
(* Whose executions they are                                               *)

\* What Dask knows is wanted by a run that holds a future of it.
WantedInv ==
  \A p \in Keys : key[p] # None =>
    \E h \in held : KeyOf(h[1], h[2]) = p /\ run[h[1]].future[h[2]] = key[p]

\* Unless a run of the job was cut short, a run that is over holds nothing.
HeldInv ==
  \A h \in held :
    /\ run[h[1]].future[h[2]] # None
    /\ ~Interrupted(Job(h[1])) => run[h[1]].result = None

ErrorsInv == \A r \in Runs : run[r].errors => Interrupted(Job(r))

OwnInv == WantedInv /\ HeldInv /\ ErrorsInv

\* A run submits nothing Dask would share with a run before it.
LEMMA NotShared ==
  ASSUME IInv, QuietInv, OwnInv, NEW r \in Runs, NEW j \in Jobs, ~Interrupted(j),
         \/ run[r].pc # "idle" /\ Job(r) = j /\ run[r].result = None
         \/ /\ run[r].pc = "idle"
            /\ \A q \in Runs : q < r /\ Job(q) = j => run[q].result # None \/ run[q].cancelled,
         NEW k \in Steps, run[r].future[k] = None, NEW p \in Keys, p[1] = j, p[2] = k
  PROVE  key[p] = None
<1> SUFFICES ASSUME key[p] # None PROVE FALSE
    OBVIOUS
<1>1. PICK h \in held : KeyOf(h[1], h[2]) = p /\ run[h[1]].future[h[2]] = key[p]
      BY DEF OwnInv, WantedInv
<1> DEFINE q == h[1]
<1>2. q \in Runs /\ h[2] \in Steps /\ Job(q) = j /\ h[2] = k
      BY <1>1 DEF IInv, TypeOK, KeyOf
<1>3. run[q].result = None /\ run[q].future[k] # None
      BY <1>1, <1>2 DEF OwnInv, HeldInv
<1>4. run[q].pc # "idle"
      BY <1>2, <1>3 DEF IInv, HandlesInv, NoRun
<1>5. ~run[q].cancelled
      BY <1>2 DEF Interrupted
<1>6. q # r
      BY <1>3
<1> HIDE DEF q
<1>7. q < r \/ r < q
  <2>1. q \in Nat /\ r \in Nat
        BY <1>2, LocalAssumption
  <2> QED BY <1>6, <2>1
<1>8. CASE q < r
      BY <1>2, <1>3, <1>5, <1>8 DEF QuietInv, Sequential
<1>9. CASE r < q
  <2>1. run[r].pc # "idle" /\ (Job(r) = Job(q) => run[r].result # None \/ run[r].cancelled)
        BY <1>2, <1>4, <1>9 DEF QuietInv, Sequential
  <2>2. Job(r) = j /\ run[r].result = None /\ ~run[r].cancelled
        BY <2>1 DEF Interrupted
  <2> QED BY <1>2, <2>1, <2>2
<1> QED BY <1>7, <1>8, <1>9

LEMMA LetGoOk ==
  ASSUME TypeOK, NEW r \in Runs, NEW C \in SUBSET Steps, NEW R, LetGo(r, C, R),
         NEW s \in Runs, NEW k \in Steps
  PROVE  ex'[s][k].ok = ex[s][k].ok
<1>1. ex[s][k] \in Executions(k)
      BY DEF TypeOK
<1>2. CASE run[r].shutdown
  <2>3. CloseClient
        BY <1>2, SMTT(30) DEF LetGo
  <2>1. PICK orphans \in SUBSET {p \in Runs \X Steps : ex[p[1]][p[2]].solver} :
          ex' = [q \in Runs |-> [i \in Steps |->
                  [ex[q][i] EXCEPT
                     !.state = IF \E p \in Keys : key[p] = q /\ p[2] = i
                                 THEN "cancelled" ELSE ex[q][i].state,
                     !.solver = <<q, i>> \in orphans]]]
        BY <2>3 DEF CloseClient
  <2> DEFINE x == IF \E p \in Keys : key[p] = s /\ p[2] = k
                    THEN "cancelled" ELSE ex[s][k].state
             b == <<s, k>> \in orphans
  <2>2. ex'[s][k] = [ex[s][k] EXCEPT !.state = x, !.solver = b]
        BY <2>1
  <2> HIDE DEF x, b
  <2> QED BY <1>1, <2>2 DEF Executions
<1>3. CASE ~run[r].shutdown
  <2> DEFINE gone == {KeyOf(r, i) : i \in C}
             x == IF \E q \in gone : q[2] = k /\ key[q] = s
                    THEN "cancelled" ELSE ex[s][k].state
  <2>1. ex' = [q \in Runs |-> [i \in Steps |-> [ex[q][i] EXCEPT !.state =
                  IF \E p \in gone : p[2] = i /\ key[p] = q
                    THEN "cancelled" ELSE ex[q][i].state]]]
        BY <1>3 DEF LetGo, DropFutures
  <2>2. ex'[s][k] = [ex[s][k] EXCEPT !.state = x]
        BY <2>1
  <2> HIDE DEF x
  <2> QED BY <1>1, <2>2 DEF Executions
<1> QED BY <1>2, <1>3

\* What becomes of an execution: left alone, just submitted, or cancelled.
Kept(s, k) ==
  /\ ex'[s][k].state = ex[s][k].state /\ ex'[s][k].ok = ex[s][k].ok
  /\ ex'[s][k].solver => ex[s][k].solver /\ ex'[s][k].read = ex[s][k].read
Queued(s, k) ==
  /\ run[s].future[k] = None /\ run'[s].future[k] = s
  /\ ex'[s][k].state = "queued" /\ ~ex'[s][k].solver
Dropped(s, k) == ex[s][k].state # "none" /\ ex'[s][k].state = "cancelled"

DaskKeeps(r) ==
  \A s \in Runs, k \in Steps : Kept(s, k) \/ (s = r /\ Queued(s, k)) \/ Dropped(s, k)

LEMMA SubmitKeeps ==
  ASSUME IInv, NEW r \in Runs, NEW h \in Handles, h.job \in Jobs, NEW K \in SUBSET Steps,
         SubmitFutures(r, h, K), \A k \in K : run[r].future[k] = None
  PROVE  DaskKeeps(r)
<1>1. TypeOK
      BY DEF IInv
<1> SUFFICES ASSUME NEW s \in Runs, NEW k \in Steps
             PROVE  Kept(s, k) \/ (s = r /\ Queued(s, k))
    BY DEF DaskKeeps
<1>2. \/ ex'[s][k] = ex[s][k]
      \/ /\ s = r /\ k \in K /\ run'[r].future[k] = r
         /\ ex'[s][k].state = "queued" /\ ~ex'[s][k].solver
      BY <1>1, SubmitFuturesType
<1> QED BY <1>2 DEF Kept, Queued

LEMMA LetGoKeeps ==
  ASSUME IInv, NEW r \in Runs, run[r].pc # "idle", NEW C \in SUBSET Steps, NEW R,
         LetGo(r, C, R)
  PROVE  DaskKeeps(r)
<1>1. TypeOK /\ Job(r) \in Jobs
      BY DEF IInv, HandlesInv
<1> SUFFICES ASSUME NEW s \in Runs, NEW k \in Steps
             PROVE  Kept(s, k) \/ Dropped(s, k)
    BY DEF DaskKeeps
<1>2. /\ ex'[s][k].read = ex[s][k].read
      /\ ex'[s][k].solver => ex[s][k].solver
      /\ \/ ex'[s][k].state = ex[s][k].state
         \/ /\ ex'[s][k].state = "cancelled"
            /\ \E p \in Keys : key[p] = s /\ p[2] = k
      BY <1>1, LetGoType
<1>3. ASSUME NEW p \in Keys, key[p] = s, p[2] = k
      PROVE  ex[s][k].state # "none"
      BY <1>3, LocalAssumption DEF IInv, KeysInv
<1>4. ex'[s][k].ok = ex[s][k].ok
      BY <1>1, LetGoOk
<1> QED BY <1>2, <1>3, <1>4 DEF Kept, Dropped

LEMMA SameKeeps ==
  ASSUME NEW r \in Runs, UNCHANGED dask
  PROVE  DaskKeeps(r)
BY DEF dask, DaskKeeps, Kept

\* As long as no run of the job is cut short, its executions are kept.
LEMMA KeptUnlessInterrupted ==
  ASSUME IInv, NEW r \in Runs, HandleStep(r), DaskKeeps(r),
         NEW s \in Runs, ~Interrupted(Job(s))', NEW k \in Steps
  PROVE  Kept(s, k) \/ (s = r /\ Queued(s, k))
<1> SUFFICES ASSUME Dropped(s, k) PROVE FALSE
    BY DEF DaskKeeps
<1>1. run[s].future[k] = s /\ s # None
      BY LocalAssumption DEF Dropped, IInv, ReadsInv
<1>2. run'[s].future[k] = s
      BY <1>1 DEF HandleStep
<1>3. k \in Submitted(s)' /\ Unreadable(s, {k})'
      BY <1>1, <1>2 DEF Submitted, Unreadable, Execution, Dropped
<1> QED BY <1>3 DEF Interrupted

-----------------------------------------------------------------------------
(* What the future fields and the book of held futures become              *)

\* The fields of a handle that submitting steps leaves alone.
LEMMA SubmitFields ==
  ASSUME TypeOK, NEW r \in Runs, NEW h \in Handles, NEW K, SubmitFutures(r, h, K)
  PROVE  /\ run'[r].fresh = h.fresh /\ run'[r].postOnly = h.postOnly
         /\ run'[r].version = h.version /\ run'[r].pending = h.pending
         /\ run'[r].failed = h.failed /\ run'[r].errors = h.errors
         /\ held' = (held \ {<<r, "mesh">>}) \cup {<<r, k>> : k \in K}
<1> DEFINE f == [k \in Steps |->
                   IF k \in {i \in K : key[<<h.job, i, h.fresh \/ i = "pack">>] = None} THEN r
                   ELSE IF k \in K THEN key[<<h.job, k, h.fresh \/ k = "pack">>]
                   ELSE h.future[k]]
<1>1. run' = [run EXCEPT ![r] = [h EXCEPT !.future = f]]
      BY DEF SubmitFutures
<1> HIDE DEF f
<1> DEFINE g == [h EXCEPT !.future = f]
<1>2. /\ g.fresh = h.fresh /\ g.postOnly = h.postOnly /\ g.version = h.version
      /\ g.pending = h.pending /\ g.failed = h.failed /\ g.errors = h.errors
      BY DEF Handles
<1>3. run'[r] = g
      BY <1>1 DEF TypeOK
<1> HIDE DEF g
<1> QED BY <1>2, <1>3 DEF SubmitFutures

LEMMA SubmitWanted ==
  ASSUME IInv, OwnInv, NEW r \in Runs, NEW h \in Handles, h.job \in Jobs,
         NEW K \in SUBSET Steps, SubmitFutures(r, h, K), HandleStep(r),
         run[r].pc # "idle" => h.job = Job(r) /\ h.fresh = run[r].fresh
  PROVE  WantedInv'
<1> DEFINE q(k) == <<h.job, k, h.fresh \/ k = "pack">>
           new == {k \in K : key[q(k)] = None}
<1>1. TypeOK
      BY DEF IInv
<1>2. /\ run'[r].job = h.job /\ run'[r].fresh = h.fresh
      /\ held' = (held \ {<<r, "mesh">>}) \cup {<<r, k>> : k \in K}
      BY <1>1, SubmitFields, SubmitFuturesType
<1>3. key' = [p \in Keys |-> IF \E k \in new : p = q(k) THEN r
                             ELSE IF p = q("mesh") /\ <<r, "mesh">> \in held THEN None
                             ELSE key[p]]
      BY DEF SubmitFutures
<1>4. \A k : KeyOf(r, k)' = q(k)
      BY <1>2 DEF KeyOf, Job
<1>5. \A k \in new : run'[r].future[k] = r
  <2> DEFINE f == [k \in Steps |-> IF k \in new THEN r
                                   ELSE IF k \in K THEN key[q(k)] ELSE h.future[k]]
  <2>1. run' = [run EXCEPT ![r] = [h EXCEPT !.future = f]]
        BY DEF SubmitFutures
  <2>2. \A k \in new : f[k] = r
        OBVIOUS
  <2> HIDE DEF f, new
  <2> QED BY <1>1, <2>1, <2>2 DEF TypeOK, Handles
<1> SUFFICES ASSUME NEW p \in Keys, key'[p] # None
             PROVE  \E g \in held' : KeyOf(g[1], g[2])' = p /\ run'[g[1]].future[g[2]] = key'[p]
    BY DEF WantedInv
<1>6. ASSUME NEW k \in new, p = q(k)
      PROVE  \E g \in held' : KeyOf(g[1], g[2])' = p /\ run'[g[1]].future[g[2]] = key'[p]
  <2>1. key'[p] = r /\ <<r, k>> \in held'
        BY <1>2, <1>3, <1>6
  <2> DEFINE g == <<r, k>>
  <2>2. g \in held' /\ KeyOf(g[1], g[2])' = p /\ run'[g[1]].future[g[2]] = key'[p]
        BY <1>4, <1>5, <1>6, <2>1
  <2> QED BY <2>2
<1>7. ASSUME ~ \E k \in new : p = q(k)
      PROVE  \E g \in held' : KeyOf(g[1], g[2])' = p /\ run'[g[1]].future[g[2]] = key'[p]
  <2>1. key'[p] = key[p] /\ ~(p = q("mesh") /\ <<r, "mesh">> \in held)
        BY <1>3, <1>7
  <2>2. PICK g \in held : KeyOf(g[1], g[2]) = p /\ run[g[1]].future[g[2]] = key[p]
        BY <2>1 DEF OwnInv, WantedInv
  <2>3. g[1] \in Runs /\ g[2] \in Steps /\ g = <<g[1], g[2]>>
        BY <1>1 DEF TypeOK
  <2>4. run[g[1]].future[g[2]] # None
        BY DEF OwnInv, HeldInv
  <2>5. run[g[1]].pc # "idle"
        BY <2>3, <2>4 DEF IInv, HandlesInv, NoRun
  <2>6. run'[g[1]].future[g[2]] = key[p]
        BY <2>2, <2>3, <2>4 DEF HandleStep
  <2>7. KeyOf(g[1], g[2])' = p
    <3>1. CASE g[1] = r
          BY <1>4, <2>2, <2>5, <3>1 DEF KeyOf
    <3>2. CASE g[1] # r
          BY <2>2, <2>3, <3>2 DEF KeyOf, Job, HandleStep
    <3> QED BY <3>1, <3>2
  <2>8. g # <<r, "mesh">>
    <3> SUFFICES ASSUME g = <<r, "mesh">> PROVE FALSE
        OBVIOUS
    <3>1. p = q("mesh")
          BY <2>2, <2>5 DEF KeyOf
    <3> QED BY <2>1, <3>1
  <2> QED BY <1>2, <2>1, <2>6, <2>7, <2>8
<1> QED BY <1>6, <1>7

\* A step of r that leaves its key and its futures alone.
SameFutures(r) ==
  /\ run'[r].job = run[r].job /\ run'[r].fresh = run[r].fresh
  /\ run'[r].future = run[r].future

LEMMA SameKeyOf ==
  ASSUME NEW r \in Runs, HandleStep(r), SameFutures(r), NEW s \in Runs, NEW k
  PROVE  KeyOf(s, k)' = KeyOf(s, k) /\ run'[s].future = run[s].future
BY DEF HandleStep, SameFutures, KeyOf, Job

LEMMA LetGoWanted ==
  ASSUME IInv, NEW r \in Runs, HandleStep(r), SameFutures(r),
         NEW C \in SUBSET Steps, NEW R, LetGo(r, C, R)
  PROVE  WantedInv' /\ (held' = {} \/ held' = held \ {<<r, k>> : k \in R})
<1>1. CASE run[r].shutdown
  <2>1. CloseClient
        BY <1>1, SMTT(30) DEF LetGo
  <2>2. held' = {} /\ key' = [q \in Keys |-> None]
        BY <2>1 DEF CloseClient
  <2> QED BY <2>2 DEF WantedInv
<1>2. CASE ~run[r].shutdown
  <2> DEFINE gone == {KeyOf(r, k) : k \in C}
             left == held \ {<<r, k>> : k \in R}
             wanted(q) == \E h \in left : /\ KeyOf(h[1], h[2]) = q
                                          /\ run[h[1]].future[h[2]] = key[q]
  <2>1. DropFutures(r, C, R)
        BY <1>2 DEF LetGo
  <2>2. /\ key' = [q \in Keys |-> IF q \notin gone /\ wanted(q) THEN key[q] ELSE None]
        /\ held' = left
        BY <2>1 DEF DropFutures
  <2>3. ASSUME NEW p \in Keys, key'[p] # None
        PROVE  \E h \in held' : /\ KeyOf(h[1], h[2])' = p
                                /\ run'[h[1]].future[h[2]] = key'[p]
    <3>1. wanted(p) /\ key'[p] = key[p]
          BY <2>2, <2>3
    <3>2. PICK h \in left : KeyOf(h[1], h[2]) = p /\ run[h[1]].future[h[2]] = key[p]
          BY <3>1
    <3>3. h[1] \in Runs
          BY DEF IInv, TypeOK
    <3>4. KeyOf(h[1], h[2])' = KeyOf(h[1], h[2]) /\ run'[h[1]].future = run[h[1]].future
          BY <3>3, SameKeyOf
    <3> QED BY <2>2, <3>1, <3>2, <3>4
  <2> QED BY <2>2, <2>3 DEF WantedInv
<1> QED BY <1>1, <1>2

LEMMA SameWanted ==
  ASSUME IInv, OwnInv, NEW r \in Runs, HandleStep(r), UNCHANGED dask,
         run[r].pc = "idle" \/ SameFutures(r)
  PROVE  WantedInv'
<1> SUFFICES ASSUME NEW p \in Keys, key[p] # None
             PROVE  \E h \in held : KeyOf(h[1], h[2])' = p /\ run'[h[1]].future[h[2]] = key[p]
    BY DEF WantedInv, dask
<1>1. PICK h \in held : KeyOf(h[1], h[2]) = p /\ run[h[1]].future[h[2]] = key[p]
      BY DEF OwnInv, WantedInv
<1>2. h[1] \in Runs /\ h[2] \in Steps
      BY DEF IInv, TypeOK
<1>3. run[h[1]].pc # "idle"
      BY <1>1, <1>2 DEF OwnInv, HeldInv, IInv, HandlesInv, NoRun
<1>4. KeyOf(h[1], h[2])' = KeyOf(h[1], h[2]) /\ run'[h[1]].future = run[h[1]].future
  <2>1. CASE h[1] = r
        BY <1>2, <1>3, <2>1, SameKeyOf
  <2>2. CASE h[1] # r
        BY <1>2, <2>2 DEF HandleStep, KeyOf, Job
  <2> QED BY <2>1, <2>2
<1> QED BY <1>1, <1>4

-----------------------------------------------------------------------------
(* What is on disk and what the executions read                            *)

Product(j) == [t \in Tasks |-> shard[j][t].part]
Good(r, k) == ex[r][k].state = "done" /\ ex[r][k].ok
Bad(r, k) == ex[r][k].state = "done" /\ ~ex[r][k].ok

\* The executions of a run are its own, and read and leave what the run is about.
Sources(r) ==
  /\ file[Job(r)] = run[r].version
  /\ \A k \in Steps : run[r].future[k] \in {None, r}
  /\ \A t \in Tasks : ex[r][t].solver => ex[r][t].read = run[r].version
  /\ ex[r]["post"].solver => ex[r]["post"].read = Product(Job(r))
  /\ Good(r, "post") => product[Job(r)] = Product(Job(r))

\* A task is yet to be submitted, is of an execution that has not succeeded, or has
\* its output on disk.
Committed(r) ==
  ~run[r].postOnly => \A t \in Tasks :
    \/ run[r].pc = "mesh" /\ t \in run[r].pending
    \/ run[r].future[t] # None /\ ~Good(r, t)
    \/ CurrentTask(Job(r), t, run[r].version)

\* A poll that finished counted the failed tasks; one that found the run complete saw
\* its postprocess step succeed.
Counted(r) ==
  /\ Finished(r) => run[r].failed = Cardinality({t \in TaskFutures(r) : Bad(r, t)})
  /\ run[r].polled = "completed" /\ Post(r) => Good(r, "post")
  /\ run[r].pc \in {"pack", "judge", "judged"} => run[r].polled = "completed"

Backed(r) == Sources(r) /\ Committed(r) /\ Counted(r)

\* It is so of every run that is waited on, unless one of its job was cut short.
BackedInv ==
  \A r \in Runs : /\ ~Interrupted(Job(r))
                  /\ run[r].pc # "idle" /\ run[r].result = None
                  => Backed(r)

OutputsInv == OwnInv /\ BackedInv

\* A step of r, as far as the invariants of the other runs depend on it.
OwnStep(r) ==
  /\ HandleStep(r) /\ Settled /\ DaskKeeps(r) /\ WantedInv'
  /\ run[r].result = None
  /\ run[r].cancelled => run'[r].cancelled
  /\ \A g \in held' : g \in held \/ (g[1] = r /\ run'[r].future[g[2]] # None)
  /\ ~Interrupted(Job(r))' /\ run'[r].result # None => \A k \in Steps : <<r, k>> \notin held'
  /\ run'[r].errors => Interrupted(Job(r))'

LEMMA OwnKept ==
  ASSUME IInv, OwnInv, NEW r \in Runs, OwnStep(r), held' \subseteq Runs \X Steps
  PROVE  OwnInv'
<1>1. HandleStep(r) /\ Settled /\ run[r].result = None /\ (run[r].cancelled => run'[r].cancelled)
      BY DEF OwnStep
<1>2. ASSUME NEW q \in Runs, q # r, run[q].pc # "idle", Interrupted(Job(q))
      PROVE  Interrupted(Job(q))'
  <2>1. Job(q) \in Jobs /\ Job(q)' = Job(q)
        BY <1>1, <1>2 DEF IInv, HandlesInv, HandleStep, Job
  <2>2. ASSUME NEW j \in Jobs, Interrupted(j) PROVE Interrupted(j)'
        BY <1>1, <2>2, InterruptedKept
  <2> QED BY <1>2, <2>1, <2>2 DEF Interrupted
<1>3. HeldInv'
  <2> SUFFICES ASSUME NEW g \in held'
               PROVE  /\ run'[g[1]].future[g[2]] # None
                      /\ ~Interrupted(Job(g[1]))' => run'[g[1]].result = None
      BY DEF HeldInv, Interrupted, Job
  <2>1. g[1] \in Runs /\ g[2] \in Steps /\ g = <<g[1], g[2]>>
        OBVIOUS
  <2>2. CASE g \in held
    <3>1. /\ run[g[1]].future[g[2]] # None
          /\ ~Interrupted(Job(g[1])) => run[g[1]].result = None
          BY <2>2 DEF OwnInv, HeldInv
    <3>2. run[g[1]].pc # "idle"
          BY <2>1, <3>1 DEF IInv, HandlesInv, NoRun
    <3>3. run'[g[1]].future[g[2]] # None
          BY <1>1, <2>1, <3>1 DEF HandleStep
    <3>4. CASE g[1] = r
          BY <2>1, <3>3, <3>4 DEF OwnStep
    <3>5. CASE g[1] # r
          BY <1>1, <1>2, <2>1, <3>1, <3>2, <3>3, <3>5 DEF HandleStep
    <3> QED BY <3>4, <3>5
  <2>3. CASE g \notin held
    <3>1. g[1] = r /\ run'[r].future[g[2]] # None
          BY <2>3 DEF OwnStep
    <3> QED BY <2>1, <3>1 DEF OwnStep
  <2> QED BY <2>2, <2>3
<1>4. ErrorsInv'
  <2> SUFFICES ASSUME NEW q \in Runs, run'[q].errors PROVE Interrupted(Job(q))'
      BY DEF ErrorsInv, Interrupted, Job
  <2>1. CASE q = r
        BY <2>1 DEF OwnStep
  <2>2. CASE q # r
    <3>1. run[q].errors
          BY <1>1, <2>2 DEF HandleStep
    <3>2. run[q].pc # "idle"
          BY <3>1 DEF IInv, HandlesInv, NoRun
    <3> QED BY <1>2, <2>2, <3>1, <3>2 DEF OwnInv, ErrorsInv
  <2> QED BY <2>1, <2>2
<1> QED BY <1>3, <1>4 DEF OwnInv, OwnStep

\* The executions of a run that goes on as it is.
Goes(r) == \A k \in Steps : Kept(r, k) \/ Queued(r, k)

LEMMA SourcesKept ==
  ASSUME TypeOK, NEW r \in Runs, Sources(r), Goes(r),
         run'[r].job = run[r].job, run'[r].version = run[r].version,
         file'[Job(r)] = file[Job(r)], UNCHANGED <<shard, product>>,
         \A k \in Steps : run'[r].future[k] \in {run[r].future[k], r}
  PROVE  Sources(r)'
<1>1. Job(r)' = Job(r) /\ Product(Job(r))' = Product(Job(r))
      BY DEF Job, Product
<1>2. \A k \in Steps : /\ ex'[r][k].solver => ex[r][k].solver /\ ex'[r][k].read = ex[r][k].read
                       /\ Good(r, k)' => Good(r, k)
      BY DEF Goes, Kept, Queued, Good
<1>3. file'[Job(r)'] = run'[r].version
      BY <1>1 DEF Sources
<1>4. \A k \in Steps : run'[r].future[k] \in {None, r}
      BY DEF Sources
<1>5. ASSUME NEW t \in Tasks, ex'[r][t].solver PROVE ex'[r][t].read = run'[r].version
      BY <1>2, <1>5, StepsNames DEF Sources
<1>6. ASSUME ex'[r]["post"].solver PROVE ex'[r]["post"].read = Product(Job(r))'
      BY <1>1, <1>2, <1>6, StepsNames DEF Sources
<1>7. ASSUME Good(r, "post")' PROVE product'[Job(r)'] = Product(Job(r))'
      BY <1>1, <1>2, <1>7, StepsNames DEF Sources
<1> QED BY <1>3, <1>4, <1>5, <1>6, <1>7 DEF Sources

LEMMA CommittedKept ==
  ASSUME IInv, NEW r \in Runs, Committed(r), Goes(r),
         run'[r].job = run[r].job, run'[r].version = run[r].version,
         run'[r].postOnly = run[r].postOnly, run'[r].pending = run[r].pending,
         UNCHANGED shard,
         \A k \in Steps : run'[r].future[k] \in {run[r].future[k], r},
         run[r].pc = "mesh" =>
           \/ run'[r].pc = "mesh"
           \/ \A t \in run[r].pending : run[r].future[t] = None /\ run'[r].future[t] # None
  PROVE  Committed(r)'
<1> SUFFICES ASSUME ~run[r].postOnly, NEW t \in Tasks
             PROVE  \/ run'[r].pc = "mesh" /\ t \in run[r].pending
                    \/ run'[r].future[t] # None /\ ~Good(r, t)'
                    \/ CurrentTask(Job(r), t, run[r].version)
    BY DEF Committed, CurrentTask, Job
<1>1. t \in Steps /\ r # None
      BY StepsNames, LocalAssumption
<1>2. CASE run[r].pc = "mesh" /\ t \in run[r].pending
  <2>1. CASE run[r].future[t] = None /\ run'[r].future[t] # None
    <3>1. ex[r][t].state = "none"
          BY <1>1, <2>1 DEF IInv, ReadsInv
    <3>2. ~Good(r, t)'
          BY <1>1, <3>1 DEF Goes, Kept, Queued, Good
    <3> QED BY <2>1, <3>2
  <2> QED BY <1>2, <2>1
<1>3. CASE run[r].future[t] # None /\ ~Good(r, t)
  <2>1. run'[r].future[t] # None /\ ~Good(r, t)'
        BY <1>1, <1>3 DEF Goes, Kept, Queued, Good
  <2> QED BY <2>1
<1> QED BY <1>2, <1>3 DEF Committed

\* Another run whose handle is left alone.
LEMMA BackedKept ==
  ASSUME IInv, NEW r \in Runs, Backed(r), Goes(r), run'[r] = run[r],
         file'[Job(r)] = file[Job(r)], UNCHANGED <<shard, product>>
  PROVE  Backed(r)'
<1>1. TypeOK /\ \A k \in Steps : run'[r].future[k] \in {run[r].future[k], r}
      BY DEF IInv
<1>2. Sources(r)'
      BY <1>1, SourcesKept DEF Backed
<1>3. Committed(r)'
      BY <1>1, CommittedKept DEF Backed
<1>4. ASSUME NEW k \in Steps, run[r].future[k] # None
      PROVE  (Good(r, k)' <=> Good(r, k)) /\ (Bad(r, k)' <=> Bad(r, k))
      BY <1>4 DEF Goes, Kept, Queued, Good, Bad
<1>5. \A k \in Steps : Good(r, k) => Good(r, k)'
  <2>1. ASSUME NEW k \in Steps, Good(r, k) PROVE run[r].future[k] # None
        BY <2>1, LocalAssumption DEF Good, IInv, ReadsInv
  <2> QED BY <1>4, <2>1
<1>6. TaskFutures(r)' = TaskFutures(r) /\ \A t \in TaskFutures(r) : run[r].future[t] # None /\ t \in Steps
      BY StepsNames DEF TaskFutures
<1>7. {t \in TaskFutures(r) : Bad(r, t)}' = {t \in TaskFutures(r) : Bad(r, t)}
      BY <1>4, <1>6
<1>8. Counted(r)'
      BY <1>5, <1>7, StepsNames DEF Backed, Counted, Finished, Post, Job
<1> QED BY <1>2, <1>3, <1>8 DEF Backed

\* A step of r, as far as the outputs are concerned: the job file changes only when a
\* run of the job starts out.
DiskStep(r) ==
  /\ UNCHANGED <<shard, product>>
  /\ \A j \in Jobs : \/ file'[j] = file[j]
                     \/ /\ run[r].pc = "idle"
                        /\ \A q \in Runs : q < r /\ Job(q) = j =>
                             run[q].result # None \/ run[q].cancelled

LEMMA OutputsKept ==
  ASSUME IInv, QuietInv, OutputsInv, NEW r \in Runs, OwnStep(r), DiskStep(r),
         held' \subseteq Runs \X Steps,
         ~Interrupted(Job(r))' /\ run'[r].result = None => Backed(r)'
  PROVE  OutputsInv'
<1>1. /\ HandleStep(r) /\ Settled /\ DaskKeeps(r) /\ run[r].result = None
      /\ run[r].cancelled => run'[r].cancelled
      BY DEF OwnStep
<1>2. OwnInv'
      BY OwnKept DEF OutputsInv
<1> SUFFICES ASSUME NEW q \in Runs, ~Interrupted(Job(q))', run'[q].pc # "idle",
                    run'[q].result = None
             PROVE  Backed(q)'
    BY <1>2 DEF OutputsInv, BackedInv, Interrupted, Job
<1>3. CASE q = r
      BY <1>3
<1>4. CASE q # r
  <2>1. run'[q] = run[q] /\ Job(q) \in Jobs /\ Job(q)' = Job(q)
        BY <1>1, <1>4 DEF HandleStep, IInv, HandlesInv, Job
  <2>2. ~Interrupted(Job(q))
    <3>1. ASSUME NEW j \in Jobs, Interrupted(j) PROVE Interrupted(j)'
          BY <1>1, <3>1, InterruptedKept
    <3> QED BY <2>1, <3>1 DEF Interrupted
  <2>3. Backed(q)
        BY <2>1, <2>2 DEF OutputsInv, BackedInv
  <2>4. Goes(q)
        BY <1>1, KeptUnlessInterrupted DEF Goes
  <2>5. file'[Job(q)] = file[Job(q)]
    <3> SUFFICES ASSUME run[r].pc = "idle",
                        q < r => run[q].result # None \/ run[q].cancelled
                 PROVE  FALSE
        BY <2>1 DEF DiskStep
    <3>1. ~run[q].cancelled
          BY <2>2 DEF Interrupted
    <3>2. q < r \/ r < q
          BY <1>4, LocalAssumption
    <3>3. ~(r < q)
          BY <2>1 DEF QuietInv, Sequential
    <3> QED BY <2>1, <3>1, <3>2, <3>3
  <2> QED BY <2>1, <2>3, <2>4, <2>5, BackedKept DEF DiskStep
<1> QED BY <1>3, <1>4

-----------------------------------------------------------------------------
(* The steps of a run that is waited on                                    *)

LEMMA HandleInterrupted ==
  ASSUME IInv, Settled, NEW r \in Runs, HandleStep(r), run[r].pc \notin {"idle", "over"},
         run[r].cancelled => run'[r].cancelled, Interrupted(Job(r))
  PROVE  Interrupted(Job(r))'
<1>1. Job(r) \in Jobs /\ Job(r)' = Job(r) /\ run[r].result = None
      BY DEF IInv, HandlesInv, HandleStep, Job
<1>2. ASSUME NEW j \in Jobs, Interrupted(j) PROVE Interrupted(j)'
      BY <1>1, <1>2, InterruptedKept
<1> QED BY <1>1, <1>2 DEF Interrupted

LEMMA EndFields ==
  ASSUME TypeOK, NEW r \in Runs, NEW state, End(r, state)
  PROVE  /\ run'[r].job = run[r].job /\ run'[r].fresh = run[r].fresh
         /\ run'[r].future = run[r].future /\ run'[r].cancelled = run[r].cancelled
         /\ run'[r].errors = run[r].errors
<1> DEFINE h == [run[r] EXCEPT !.pc = "over", !.result = state]
<1>1. run'[r] = h
      BY DEF End, TypeOK
<1>2. /\ h.job = run[r].job /\ h.fresh = run[r].fresh /\ h.future = run[r].future
      /\ h.cancelled = run[r].cancelled /\ h.errors = run[r].errors
      BY DEF Handles
<1> HIDE DEF h
<1> QED BY <1>1, <1>2

\* A run that ends releases every future it has, unless its job was cut short.
LEMMA EndOutputs ==
  ASSUME IInv, QuietInv, OutputsInv, NEW r \in Runs, run[r].pc \notin {"idle", "over"},
         NEW state \in Final \cup {"raised"}, End(r, state),
         UNCHANGED <<file, shard, product>>,
         \/ UNCHANGED dask /\ state = "timeout"
         \/ \E C \in SUBSET Steps, R \in SUBSET Steps :
              /\ LetGo(r, C, R)
              /\ ~Interrupted(Job(r)) /\ state # "timeout" => Submitted(r) \subseteq R
  PROVE  OutputsInv'
<1>1. /\ HandleStep(r) /\ run'[r].result = state /\ state # None
      BY EndHandle, LocalAssumption DEF Final
<1>2. /\ SameFutures(r) /\ run'[r].cancelled = run[r].cancelled
      /\ run'[r].errors = run[r].errors
      BY EndFields DEF SameFutures, IInv
<1>3. TypeOK /\ Job(r) \in Jobs /\ run[r].result = None
      BY DEF IInv, HandlesInv
<1>4. state = "timeout" => Interrupted(Job(r))'
      BY <1>1 DEF Interrupted
<1>5. /\ Settled /\ DaskKeeps(r) /\ WantedInv' /\ held' \subseteq held
      /\ Settled /\ ~Interrupted(Job(r))' => \A k \in Steps : <<r, k>> \notin held'
  <2>1. CASE UNCHANGED dask /\ state = "timeout"
    <3>1. WantedInv'
          BY <1>1, <1>2, <2>1, SameWanted DEF OutputsInv
    <3> QED BY <1>4, <2>1, <3>1, SameSettled, SameKeeps DEF dask
  <2>2. ASSUME NEW C \in SUBSET Steps, NEW R \in SUBSET Steps, LetGo(r, C, R),
               ~Interrupted(Job(r)) /\ state # "timeout" => Submitted(r) \subseteq R
        PROVE  /\ Settled /\ DaskKeeps(r) /\ WantedInv' /\ held' \subseteq held
               /\ Settled /\ ~Interrupted(Job(r))' => \A k \in Steps : <<r, k>> \notin held'
    <3>1. WantedInv' /\ (held' = {} \/ held' = held \ {<<r, k>> : k \in R})
          BY <1>1, <1>2, <2>2, LetGoWanted
    <3>2. Settled /\ DaskKeeps(r)
          BY <2>2, LetGoSettled, LetGoKeeps
    <3>3. ASSUME ~Interrupted(Job(r))', NEW k \in Steps, <<r, k>> \in held'
          PROVE  FALSE
      <4>1. ~Interrupted(Job(r)) /\ state # "timeout"
            BY <1>1, <1>2, <1>4, <3>2, <3>3, HandleInterrupted
      <4>2. <<r, k>> \in held /\ k \notin R
            BY <3>1, <3>3
      <4>3. run[r].future[k] # None
            BY <4>2 DEF OutputsInv, OwnInv, HeldInv
      <4> QED BY <2>2, <4>1, <4>2, <4>3 DEF Submitted
    <3> QED BY <3>1, <3>2, <3>3
  <2> QED BY <2>1, <2>2
<1>6. run'[r].errors => Interrupted(Job(r))'
  <2>1. run[r].errors => Interrupted(Job(r))
        BY DEF OutputsInv, OwnInv, ErrorsInv
  <2> QED BY <1>1, <1>2, <1>5, <2>1, HandleInterrupted
<1>7. OwnStep(r)
      BY <1>1, <1>2, <1>3, <1>5, <1>6 DEF OwnStep
<1>8. DiskStep(r)
      BY DEF DiskStep
<1>9. held' \subseteq Runs \X Steps
      BY <1>3, <1>5 DEF TypeOK
<1> QED BY <1>1, <1>7, <1>8, <1>9, OutputsKept

LEMMA FailOutputs ==
  ASSUME IInv, QuietInv, OutputsInv, NEW r \in Runs, run[r].pc \notin {"idle", "over"},
         NEW C \in SUBSET Steps, Fail(r, C)
  PROVE  OutputsInv'
<1> DEFINE R == Submitted(r) \ IF run[r].errors THEN {"post"} ELSE {}
<1>1. /\ End(r, "failed") /\ LetGo(r, C, R) /\ UNCHANGED <<file, shard, product>>
      /\ R \in SUBSET Steps
      BY DEF Fail, Submitted
<1>2. ~Interrupted(Job(r)) => Submitted(r) \subseteq R
      BY DEF OutputsInv, OwnInv, ErrorsInv
<1> HIDE DEF R
<1>3. "failed" \in Final
      BY DEF Final
<1> QED BY <1>1, <1>2, <1>3, EndOutputs

\* A handle that goes on without Dask.
Resumed(r, h) ==
  /\ h \in Handles /\ h.job = Job(r) /\ h.future = run[r].future /\ h.fresh = run[r].fresh
  /\ h.version = run[r].version /\ h.postOnly = run[r].postOnly
  /\ h.pending = run[r].pending /\ h.result = None /\ h.cancelled = run[r].cancelled

LEMMA ResumeOutputs ==
  ASSUME IInv, QuietInv, OutputsInv, NEW r \in Runs, run[r].pc \notin {"idle", "over", "mesh"},
         NEW h, Resumed(r, h), h.pc \notin {"idle", "over", "mesh"},
         h.pc = "active" => run[r].pc = "active",
         run' = [run EXCEPT ![r] = h], UNCHANGED <<file, shard, product, dask>>,
         h.errors => Interrupted(Job(r)),
         Backed(r) =>
           /\ h.polled \in {"completed", "failed"} =>
                h.failed = Cardinality({t \in TaskFutures(r) : Bad(r, t)})
           /\ h.polled = "completed" /\ Post(r) => Good(r, "post")
           /\ h.pc \in {"pack", "judge", "judged"} => h.polled = "completed"
  PROVE  OutputsInv'
<1>1. HandleStep(r) /\ run'[r] = h
      BY NextHandle DEF Resumed
<1>2. TypeOK /\ run[r].result = None /\ run[r].job = Job(r)
      BY DEF IInv, HandlesInv, Job
<1>3. SameFutures(r)
      BY <1>1, <1>2 DEF SameFutures, Resumed
<1>4. Settled /\ DaskKeeps(r) /\ WantedInv' /\ held' = held
      BY <1>1, <1>3, SameSettled, SameKeeps, SameWanted DEF OutputsInv, dask
<1>5. Interrupted(Job(r)) => Interrupted(Job(r))'
      BY <1>1, <1>4, HandleInterrupted DEF Resumed
<1>6. OwnStep(r)
      BY <1>1, <1>2, <1>4, <1>5 DEF OwnStep, Resumed
<1>7. DiskStep(r)
      BY DEF DiskStep
<1>8. ASSUME ~Interrupted(Job(r))'
      PROVE  Backed(r)'
  <2>1. Backed(r)
        BY <1>2, <1>5, <1>8 DEF OutputsInv, BackedInv
  <2>2. Goes(r)
        BY <1>1, <1>4, <1>8, KeptUnlessInterrupted DEF Goes
  <2>3. /\ run'[r].job = run[r].job /\ run'[r].version = run[r].version
        /\ run'[r].postOnly = run[r].postOnly /\ run'[r].pending = run[r].pending
        /\ run'[r].future = run[r].future
        BY <1>1, <1>2 DEF Resumed
  <2>4. Sources(r)'
        BY <1>2, <2>1, <2>2, <2>3, SourcesKept DEF Backed
  <2>5. Committed(r)'
        BY <2>1, <2>2, <2>3, CommittedKept DEF Backed
  <2>6. Counted(r)'
    <3>1. /\ TaskFutures(r)' = TaskFutures(r) /\ \A k \in Steps : Good(r, k)' <=> Good(r, k)
          /\ Post(r)' <=> Post(r)
          BY <2>3 DEF TaskFutures, Good, Post, Job, dask
    <3>2. {t \in TaskFutures(r) : Bad(r, t)}' = {t \in TaskFutures(r) : Bad(r, t)}
          BY <3>1 DEF Bad, dask
    <3> QED BY <1>1, <2>1, <3>1, <3>2, StepsNames DEF Counted, Finished
  <2> QED BY <2>4, <2>5, <2>6 DEF Backed
<1>9. held' \subseteq Runs \X Steps
      BY <1>2, <1>4 DEF TypeOK
<1> QED BY <1>6, <1>7, <1>8, <1>9, OutputsKept

\* Steps Dask does not know are of executions the submission creates.
LEMMA SubmitOwn ==
  ASSUME TypeOK, NEW r \in Runs, NEW h \in Handles, NEW K \in SUBSET Steps, SubmitFutures(r, h, K),
         NEW k \in K, key[<<h.job, k, h.fresh \/ k = "pack">>] = None
  PROVE  run'[r].future[k] = r
<1> DEFINE new == {i \in K : key[<<h.job, i, h.fresh \/ i = "pack">>] = None}
           f == [i \in Steps |-> IF i \in new THEN r
                                 ELSE IF i \in K THEN key[<<h.job, i, h.fresh \/ i = "pack">>]
                                 ELSE h.future[i]]
<1>1. run' = [run EXCEPT ![r] = [h EXCEPT !.future = f]]
      BY DEF SubmitFutures
<1>2. f[k] = r
      OBVIOUS
<1> HIDE DEF f, new
<1> QED BY <1>1, <1>2 DEF TypeOK, Handles

LEMMA SubmitOutputs ==
  ASSUME IInv, QuietInv, OutputsInv, NEW r \in Runs, run[r].pc \notin {"idle", "over"},
         NEW h, Resumed(r, h), h.pc \notin {"idle", "over", "mesh"},
         NEW K \in SUBSET Steps, SubmitFutures(r, h, K), \A k \in K : run[r].future[k] = None,
         h.pc = "active" => "pack" \notin K /\ run[r].future["pack"] = None,
         IF run[r].pc = "mesh" THEN run[r].pending \subseteq K ELSE K \cap Tasks = {},
         UNCHANGED disk, h.errors => Interrupted(Job(r)),
         h.polled \in {"completed", "failed"} =>
           run[r].pc # "mesh" /\ h.polled = run[r].polled /\ h.failed = run[r].failed,
         h.pc \in {"pack", "judge", "judged"} => h.polled = "completed"
  PROVE  OutputsInv'
<1>1. /\ TypeOK /\ run[r].result = None /\ run[r].job = Job(r) /\ Job(r) \in Jobs
      /\ h \in Handles /\ h.job = Job(r) /\ h.fresh = run[r].fresh
      BY DEF IInv, HandlesInv, Job, Resumed
<1>2. /\ HandleStep(r) /\ run'[r].job = h.job /\ run'[r].pc = h.pc /\ run'[r].result = None
      /\ run'[r].polled = h.polled /\ run'[r].cancelled = h.cancelled
      BY <1>1, SubmitHandle DEF Resumed
<1>3. /\ run'[r].postOnly = h.postOnly /\ run'[r].version = h.version
      /\ run'[r].pending = h.pending /\ run'[r].failed = h.failed /\ run'[r].errors = h.errors
      /\ held' = (held \ {<<r, "mesh">>}) \cup {<<r, k>> : k \in K}
      BY <1>1, SubmitFields
<1>4. /\ held' \subseteq Runs \X Steps
      /\ \A k \in Steps : IF k \in K THEN run'[r].future[k] \in Runs
                                     ELSE run'[r].future[k] = run[r].future[k]
      BY <1>1, SubmitFuturesType DEF Resumed
<1>5. Settled /\ DaskKeeps(r)
      BY <1>1, SubmitSettled, SubmitKeeps
<1>6. WantedInv'
      BY <1>1, <1>2, SubmitWanted DEF OutputsInv
<1>7. Interrupted(Job(r)) => Interrupted(Job(r))'
      BY <1>2, <1>5, HandleInterrupted DEF Resumed
<1>8. \A g \in held' : g \in held \/ (g[1] = r /\ run'[r].future[g[2]] # None)
  <2> SUFFICES ASSUME NEW g \in held', g \notin held
               PROVE  g[1] = r /\ run'[r].future[g[2]] # None
      OBVIOUS
  <2>1. PICK k \in K : g = <<r, k>>
        BY <1>3
  <2> QED BY <1>4, <2>1, LocalAssumption
<1>9. OwnStep(r)
      BY <1>1, <1>2, <1>3, <1>5, <1>6, <1>7, <1>8 DEF OwnStep, Resumed
<1>10. DiskStep(r)
      BY DEF DiskStep, disk
<1>11. ASSUME ~Interrupted(Job(r))'
       PROVE  Backed(r)'
  <2>1. ~Interrupted(Job(r)) /\ Backed(r)
        BY <1>1, <1>7, <1>11 DEF OutputsInv, BackedInv
  <2>2. Goes(r)
        BY <1>2, <1>5, <1>11, KeptUnlessInterrupted DEF Goes
  <2>3. ASSUME NEW k \in K
        PROVE  run'[r].future[k] = r
    <3> DEFINE b == h.fresh \/ k = "pack"
               p == <<h.job, k, b>>
    <3>1. b \in BOOLEAN
          OBVIOUS
    <3>2. p \in Keys /\ p[1] = Job(r) /\ p[2] = k
          BY <1>1, <3>1 DEF Keys
    <3>3. key[p] = None
          BY <1>1, <2>1, <3>2, NotShared DEF OutputsInv
    <3> QED BY <1>1, <3>3, SubmitOwn
  <2>4. \A k \in Steps : run'[r].future[k] \in {run[r].future[k], r}
        BY <1>4, <2>3
  <2>5. Sources(r)'
        BY <1>1, <1>2, <1>3, <2>1, <2>2, <2>4, SourcesKept DEF Backed, disk, Resumed
  <2>6. run[r].pc = "mesh" =>
          \A t \in run[r].pending : run[r].future[t] = None /\ run'[r].future[t] # None
        BY <2>3, LocalAssumption
  <2>7. Committed(r)'
        BY <1>1, <1>2, <1>3, <2>1, <2>2, <2>4, <2>6, CommittedKept DEF Backed, disk, Resumed
  <2>8. Counted(r)'
    <3>1. ASSUME h.polled \in {"completed", "failed"}
          PROVE  /\ run[r].failed = Cardinality({t \in TaskFutures(r) : Bad(r, t)}')
                 /\ h.polled = "completed" /\ Post(r) => Good(r, "post")'
      <4>1. \A t \in Tasks : run'[r].future[t] = run[r].future[t]
            BY <1>4, <3>1, StepsNames
      <4>2. TaskFutures(r)' = TaskFutures(r) /\ TaskFutures(r) \subseteq Steps
            BY <4>1, StepsNames DEF TaskFutures
      <4>3. ASSUME NEW k \in Steps, run[r].future[k] # None
            PROVE  (Bad(r, k)' <=> Bad(r, k)) /\ (Good(r, k)' <=> Good(r, k))
            BY <2>2, <4>3 DEF Goes, Kept, Queued, Good, Bad
      <4>4. {t \in TaskFutures(r) : Bad(r, t)}' = {t \in TaskFutures(r) : Bad(r, t)}
            BY <4>2, <4>3 DEF TaskFutures
      <4>5. Good(r, "post") => run[r].future["post"] # None
            BY StepsNames, LocalAssumption DEF Good, IInv, ReadsInv
      <4> QED BY <2>1, <3>1, <4>3, <4>4, <4>5, StepsNames DEF Backed, Counted, Finished
    <3>2. Post(r)' <=> Post(r)
          BY <1>1, <1>2 DEF Post, Job
    <3> QED BY <1>2, <1>3, <3>1, <3>2 DEF Counted, Finished
  <2> QED BY <2>5, <2>7, <2>8 DEF Backed
<1> QED BY <1>4, <1>9, <1>10, <1>11, OutputsKept

LEMMA CancelOutputs ==
  ASSUME IInv, QuietInv, OutputsInv, NEW r \in Runs, Cancel(r)
  PROVE  OutputsInv'
<1> DEFINE h == [run[r] EXCEPT !.cancelled = TRUE]
           R == TaskFutures(r)
<1>1. /\ LetGo(r, R, R) /\ run' = [run EXCEPT ![r] = h]
      /\ run[r].pc \in {"active", "pack", "judge", "judged"} /\ UNCHANGED disk
      BY DEF Cancel
<1>2. /\ run[r] \in Handles /\ Job(r) \in Jobs /\ run[r].job = Job(r) /\ run[r].result = None
      /\ R \in SUBSET Steps /\ TypeOK
      BY <1>1, HandleFacts DEF IInv
<1>3. /\ h \in Handles /\ h.job = Job(r) /\ h.future = run[r].future /\ h.pc = run[r].pc
      /\ h.result = None /\ h.cancelled
      BY <1>2, ZenonT(60) DEF Handles
<1>4. h.fresh = run[r].fresh
      BY <1>2 DEF Handles
<1> HIDE DEF h, R
<1>5. HandleStep(r) /\ run'[r] = h
      BY <1>1, <1>2, <1>3, NextHandle, LocalAssumption
<1>6. SameFutures(r)
      BY <1>2, <1>3, <1>4, <1>5 DEF SameFutures
<1>7. Settled /\ DaskKeeps(r)
      BY <1>1, <1>2, LetGoSettled, LetGoKeeps
<1>8. WantedInv' /\ held' \subseteq held
      BY <1>1, <1>2, <1>5, <1>6, LetGoWanted
<1>9. Interrupted(Job(r))'
      BY <1>3, <1>5 DEF Interrupted
<1>10. OwnStep(r)
      BY <1>2, <1>3, <1>5, <1>7, <1>8, <1>9 DEF OwnStep
<1>11. DiskStep(r)
      BY <1>1 DEF DiskStep, disk
<1>12. held' \subseteq Runs \X Steps
      BY <1>2, <1>8 DEF TypeOK
<1> QED BY <1>9, <1>10, <1>11, <1>12, OutputsKept

LEMMA PollOutputs ==
  ASSUME IInv, QuietInv, OutputsInv, NEW r \in Runs, Poll(r)
  PROVE  OutputsInv'
<1> DEFINE T == TaskFutures(r)
           n == Cardinality({t \in T : Failed(r, t)})
           b == Unreadable(r, T)
           h == [run[r] EXCEPT !.errors = b, !.failed = n]
<1>1. run[r].pc = "active" /\ run[r].polled \notin {"completed", "failed"}
      BY DEF Poll, Waiting
<1>2. /\ run[r] \in Handles /\ Job(r) \in Jobs /\ run[r].job = Job(r) /\ run[r].result = None
      /\ run[r].future["pack"] = None /\ T \subseteq Submitted(r) /\ T \subseteq Steps
      BY <1>1, HandleFacts, StepsNames DEF TaskFutures, Submitted
<1>3. n \in Nat /\ b \in BOOLEAN
  <2>1. IsFiniteSet({t \in T : Failed(r, t)})
        BY FS_Subset, LocalAssumption DEF TaskFutures
  <2> QED BY <2>1, FS_CardinalityType DEF Unreadable
<1>4. b => Interrupted(Job(r))
      BY <1>2 DEF Unreadable, Interrupted
<1>5. Sources(r) => \A k \in Steps : run[r].future[k] # None =>
                      /\ Failed(r, k) <=> Bad(r, k)
                      /\ Succeeded(r, k) <=> Good(r, k)
      BY DEF Sources, Failed, Succeeded, Execution, Good, Bad
<1>6. Sources(r) => n = Cardinality({t \in T : Bad(r, t)})
  <2> SUFFICES ASSUME Sources(r) PROVE {t \in T : Failed(r, t)} = {t \in T : Bad(r, t)}
      OBVIOUS
  <2> QED BY <1>2, <1>5 DEF TaskFutures
<1> DEFINE Polls(g) == /\ Resumed(r, g) /\ g.pc = "active"
                       /\ g.errors => Interrupted(Job(r))
           Counts(g) == g.failed = n
<1>7. Polls(run[r])
      BY <1>1, <1>2 DEF Resumed, OutputsInv, OwnInv, ErrorsInv
<1>8. h.errors = b
      BY <1>2 DEF Handles
<1> HIDE DEF n, b
<1>9. Polls(h) /\ Counts(h)
  <2>1. /\ h \in Handles /\ h.job = Job(r) /\ h.future = run[r].future /\ h.fresh = run[r].fresh
        /\ h.pending = run[r].pending /\ h.result = None /\ h.cancelled = run[r].cancelled
        /\ h.pc = "active" /\ h.failed = n
        BY <1>1, <1>2, <1>3 DEF Handles
  <2>2. h.version = run[r].version /\ h.postOnly = run[r].postOnly
        BY <1>2 DEF Handles
  <2> QED BY <1>4, <1>8, <2>1, <2>2 DEF Resumed
<1> HIDE DEF h
<1>10. ASSUME NEW g, Polls(g), NEW p \in {"running", "completed", "failed"}
       PROVE  /\ Polls([g EXCEPT !.polled = p]) /\ [g EXCEPT !.polled = p].polled = p
              /\ [g EXCEPT !.polled = p].failed = g.failed
  <2> DEFINE e == [g EXCEPT !.polled = p]
  <2>1. /\ e \in Handles /\ e.job = g.job /\ e.future = g.future /\ e.fresh = g.fresh
        /\ e.pending = g.pending /\ e.result = g.result /\ e.cancelled = g.cancelled
        BY <1>10 DEF Handles, Resumed
  <2>2. /\ e.version = g.version /\ e.postOnly = g.postOnly /\ e.pc = g.pc /\ e.errors = g.errors
        /\ e.failed = g.failed /\ e.polled = p
        BY <1>10 DEF Handles, Resumed
  <2> HIDE DEF e
  <2>3. Polls(e) /\ e.polled = p /\ e.failed = g.failed
        BY <1>10, <2>1, <2>2 DEF Resumed
  <2> HIDE DEF Polls
  <2> QED BY <2>3 DEF e
<1>11. ASSUME NEW g, Polls(g), NEW p \in {"completed", "failed"}, NEW x \in {"ok", "bad"}
       PROVE  LET e == [g EXCEPT !.polled = p, !.smooth = x]
              IN Polls(e) /\ e.polled = p /\ e.failed = g.failed
  <2> DEFINE e == [g EXCEPT !.polled = p, !.smooth = x]
  <2>1. /\ e \in Handles /\ e.job = g.job /\ e.future = g.future /\ e.fresh = g.fresh
        /\ e.pending = g.pending /\ e.result = g.result /\ e.cancelled = g.cancelled
        BY <1>11, ZenonT(60) DEF Handles, Resumed
  <2>2. /\ e.version = g.version /\ e.postOnly = g.postOnly /\ e.pc = g.pc /\ e.errors = g.errors
        /\ e.failed = g.failed /\ e.polled = p
        BY <1>11, ZenonT(60) DEF Handles, Resumed
  <2> HIDE DEF e
  <2>3. Polls(e) /\ e.polled = p /\ e.failed = g.failed
        BY <1>11, <2>1, <2>2 DEF Resumed
  <2> HIDE DEF Polls
  <2> QED BY <2>3 DEF e
<1>12. ASSUME NEW g, Polls(g), Polled(r, g),
              \/ g.polled = "running"
              \/ Counts(g) /\ (g.polled = "completed" /\ Post(r) => (Sources(r) => Good(r, "post")))
       PROVE  OutputsInv'
  <2>1. run' = [run EXCEPT ![r] = g] /\ UNCHANGED <<file, shard, product, dask>>
        BY <1>12 DEF Polled, disk
  <2> QED BY <1>1, <1>6, <1>12, <2>1, ResumeOutputs DEF Backed
<1> HIDE DEF Polls
<1>13. CASE Polled(r, [run[r] EXCEPT !.polled = "running"])
      BY <1>7, <1>10, <1>12, <1>13
<1>14. CASE /\ Unreadable(r, T) \/ ~Post(r)
            /\ Polled(r, [h EXCEPT !.polled = IF h.errors THEN "failed" ELSE "completed"])
  <2>1. PICK p \in {"completed", "failed"} :
          Polled(r, [h EXCEPT !.polled = p]) /\ (p = "completed" => ~Post(r))
        BY <1>8, <1>14 DEF b
  <2>2. Counts([h EXCEPT !.polled = p]) /\ Polls([h EXCEPT !.polled = p])
        /\ [h EXCEPT !.polled = p].polled = p
        BY <1>9, <1>10
  <2> QED BY <1>12, <2>1, <2>2
<1>15. CASE /\ Post(r) /\ run[r].future["post"] = None /\ UNCHANGED disk
            /\ SubmitFutures(r, [h EXCEPT !.polled = "running"], {"post"})
  <2> DEFINE g == [h EXCEPT !.polled = "running"]
             K == {"post"}
  <2>1. Polls(g) /\ g.polled = "running" /\ SubmitFutures(r, g, K)
        BY <1>9, <1>10, <1>15
  <2> HIDE DEF g
  <2>2. /\ K \in SUBSET Steps /\ \A k \in K : run[r].future[k] = None
        /\ K \cap Tasks = {} /\ "pack" \notin K
        BY <1>15, StepsNames
  <2> HIDE DEF K
  <2> QED BY <1>1, <1>2, <1>15, <2>1, <2>2, SubmitOutputs DEF Polls
<1>16. CASE /\ run[r].future["post"] # None
            /\ Polled(r, CASE ~Terminal(r, {"post"}) -> [h EXCEPT !.polled = "running"]
                           [] Succeeded(r, "post") ->
                                [h EXCEPT !.polled = "completed", !.smooth = "ok"]
                           [] Failed(r, "post") ->
                                [h EXCEPT !.polled = "failed", !.smooth = "bad"]
                           [] OTHER -> [h EXCEPT !.polled = "failed"])
  <2> DEFINE a == [h EXCEPT !.polled = "running"]
             c == [h EXCEPT !.polled = "completed", !.smooth = "ok"]
             d == [h EXCEPT !.polled = "failed", !.smooth = "bad"]
             e == [h EXCEPT !.polled = "failed"]
             g == CASE ~Terminal(r, {"post"}) -> a [] Succeeded(r, "post") -> c
                    [] Failed(r, "post") -> d [] OTHER -> e
  <2>1. Polls(a) /\ a.polled = "running"
        BY <1>9, <1>10, Zenon
  <2>2. Polls(c) /\ Counts(c)
        BY <1>9, <1>11
  <2>3. Polls(d) /\ Counts(d) /\ d.polled = "failed"
        BY <1>9, <1>11
  <2>4. Polls(e) /\ Counts(e) /\ e.polled = "failed"
        BY <1>9, <1>10
  <2>5. Polled(r, g)
        BY <1>16
  <2> HIDE DEF a, c, d, e, Counts
  <2>6. g = a \/ (g = c /\ Succeeded(r, "post")) \/ g = d \/ g = e
        BY DEF Terminal, Succeeded, Failed, Over
  <2> HIDE DEF g
  <2>7. Succeeded(r, "post") => (Sources(r) => Good(r, "post"))
        BY <1>5, <1>16, StepsNames
  <2>8. CASE g = a
        BY <1>12, <2>1, <2>5, <2>8
  <2>9. CASE g = c /\ Succeeded(r, "post")
        BY <1>12, <2>2, <2>5, <2>7, <2>9
  <2>10. CASE g = d
        BY <1>12, <2>3, <2>5, <2>10
  <2>11. CASE g = e
        BY <1>12, <2>4, <2>5, <2>11
  <2> QED BY <2>6, <2>8, <2>9, <2>10, <2>11
<1> QED BY <1>13, <1>14, <1>15, <1>16 DEF Poll, h, n, b

\* A handle that only moves on.
LEMMA MoveFields ==
  ASSUME TypeOK, NEW r \in Runs, run[r].result = None, NEW pc \in {"active", "pack", "judge", "judged"}
  PROVE  LET h == [run[r] EXCEPT !.pc = pc]
         IN /\ Resumed(r, h) /\ h.pc = pc /\ h.polled = run[r].polled
            /\ h.failed = run[r].failed /\ h.errors = run[r].errors
<1> DEFINE h == [run[r] EXCEPT !.pc = pc]
<1>1. run[r] \in Handles
      BY DEF TypeOK
<1>2. /\ h \in Handles /\ h.job = run[r].job /\ h.future = run[r].future /\ h.fresh = run[r].fresh
      /\ h.pending = run[r].pending /\ h.result = None /\ h.cancelled = run[r].cancelled
      BY <1>1 DEF Handles
<1>3. /\ h.version = run[r].version /\ h.postOnly = run[r].postOnly
      /\ h.pc = pc /\ h.polled = run[r].polled /\ h.failed = run[r].failed
      /\ h.errors = run[r].errors
      BY <1>1 DEF Handles
<1> HIDE DEF h
<1>4. Resumed(r, h)
      BY <1>2, <1>3 DEF Resumed, Job
<1> QED BY <1>3, <1>4 DEF h

LEMMA AdvanceOutputs ==
  ASSUME IInv, QuietInv, OutputsInv, NEW r \in Runs,
         Advance(r) \/ Timeout(r) \/ WatchTimeout(r) \/ Cancel(r)
  PROVE  OutputsInv'
<1>1. run[r].pc \in {"mesh", "active", "pack", "judge", "judged"} /\ {} \in SUBSET Steps
      BY DEF Advance, SubmitTasks, MeshFailed, Poll, Waiting, Collect, Packed, PublishCompleted,
             Judge, Timeout, WatchTimeout, Cancel
<1>2. /\ run[r] \in Handles /\ Job(r) \in Jobs /\ run[r].job = Job(r) /\ run[r].result = None
      /\ TaskFutures(r) \in SUBSET Steps /\ Submitted(r) \in SUBSET Steps
      /\ run[r].pc = "mesh" => \A k \in Steps \ {"mesh"} : run[r].future[k] = None
      /\ run[r].pc = "active" => run[r].future["pack"] = None
      /\ TypeOK
      BY <1>1, HandleFacts DEF IInv
<1>3. \A state \in {"completed", "timeout", "raised"} : state \in Final \cup {"raised"}
      BY DEF Final
<1>4. run[r].pc = "mesh" => run[r].polled = None
      BY DEF QuietInv, FuturesInv
<1>5. run[r].errors => Interrupted(Job(r))
      BY DEF OutputsInv, OwnInv, ErrorsInv
<1>6. ASSUME NEW pc \in {"judge", "judged"}, run' = [run EXCEPT ![r].pc = pc],
             UNCHANGED <<shard, product, file, dask>>, run[r].pc # "mesh",
             run[r].polled = "completed" \/ run[r].pc \in {"pack", "judge"}
      PROVE  OutputsInv'
  <2> DEFINE h == [run[r] EXCEPT !.pc = pc]
  <2>1. pc \in {"active", "pack", "judge", "judged"}
        BY <1>6
  <2>2. /\ Resumed(r, h) /\ h.pc = pc /\ h.polled = run[r].polled
        /\ h.failed = run[r].failed /\ h.errors = run[r].errors
        BY <1>2, <2>1, MoveFields
  <2>3. run' = [run EXCEPT ![r] = h]
        BY <1>6
  <2> HIDE DEF h
  <2>4. Backed(r) =>
          /\ h.polled \in {"completed", "failed"} =>
               h.failed = Cardinality({t \in TaskFutures(r) : Bad(r, t)})
          /\ h.polled = "completed" /\ Post(r) => Good(r, "post")
          /\ h.pc \in {"pack", "judge", "judged"} => h.polled = "completed"
        BY <1>6, <2>2 DEF Backed, Counted, Finished
  <2> QED BY <1>1, <1>5, <1>6, <2>2, <2>3, <2>4, ResumeOutputs
<1>7. CASE SubmitTasks(r)
  <2> DEFINE h == [run[r] EXCEPT !.pc = "active"]
             K == run[r].pending
  <2>1. run[r].pc = "mesh" /\ SubmitFutures(r, h, K) /\ UNCHANGED disk
        BY <1>7 DEF SubmitTasks
  <2>2. /\ Resumed(r, h) /\ h.pc = "active" /\ h.polled = run[r].polled
        /\ h.failed = run[r].failed /\ h.errors = run[r].errors
        BY <1>2, MoveFields
  <2> HIDE DEF h
  <2>3. K \in SUBSET Steps /\ "pack" \notin K /\ \A k \in K : k # "mesh"
        BY <1>2, StepsNames DEF Handles
  <2>4. (\A k \in K : run[r].future[k] = None) /\ run[r].future["pack"] = None
        BY <1>2, <2>1, <2>3, StepsNames
  <2>5. h.polled \notin {"completed", "failed"}
        BY <1>4, <2>1, <2>2, LocalAssumption
  <2> QED BY <1>5, <2>1, <2>2, <2>3, <2>4, <2>5, SubmitOutputs
<1>8. CASE MeshFailed(r)
  <2>1. /\ run[r].pc = "mesh" /\ LetGo(r, {}, {"mesh"}) /\ End(r, "raised")
        /\ UNCHANGED <<file, shard, product>>
        BY <1>8 DEF MeshFailed
  <2>2. Submitted(r) \subseteq {"mesh"} /\ {"mesh"} \in SUBSET Steps
        BY <1>2, <2>1, StepsNames DEF Submitted
  <2> QED BY <1>1, <1>3, <2>1, <2>2, EndOutputs
<1>9. CASE Poll(r)
      BY <1>9, PollOutputs
<1>10. CASE Collect(r)
  <2>1. run[r].pc = "active"
        BY <1>10 DEF Collect
  <2>2. CASE Fail(r, {}) \/ Fail(r, Submitted(r))
        BY <1>1, <1>2, <2>2, FailOutputs
  <2>3. CASE /\ run[r].polled = "completed" /\ UNCHANGED disk
             /\ SubmitFutures(r, [run[r] EXCEPT !.pc = "pack"], {"pack"})
    <3> DEFINE h == [run[r] EXCEPT !.pc = "pack"]
               K == {"pack"}
    <3>1. /\ Resumed(r, h) /\ h.pc = "pack" /\ h.polled = run[r].polled
          /\ h.failed = run[r].failed /\ h.errors = run[r].errors
          BY <1>2, MoveFields
    <3>2. SubmitFutures(r, h, K) /\ UNCHANGED disk
          BY <2>3
    <3> HIDE DEF h
    <3>3. /\ K \in SUBSET Steps /\ \A k \in K : run[r].future[k] = None
          /\ K \cap Tasks = {}
          BY <1>2, <2>1, StepsNames
    <3> HIDE DEF K
    <3> QED BY <1>5, <2>1, <2>3, <3>1, <3>2, <3>3, SubmitOutputs
  <2>4. CASE /\ run[r].polled = "completed"
             /\ run' = [run EXCEPT ![r].pc = "judge"] /\ UNCHANGED <<disk, dask>>
        BY <1>6, <2>1, <2>4 DEF disk
  <2> QED BY <1>10, <2>2, <2>3, <2>4 DEF Collect
<1>11. CASE Packed(r)
  <2>1. run[r].pc = "pack"
        BY <1>11 DEF Packed
  <2>2. CASE Fail(r, {}) \/ Fail(r, Submitted(r))
        BY <1>1, <1>2, <2>2, FailOutputs
  <2>3. CASE /\ LetGo(r, {}, Submitted(r)) /\ End(r, "completed")
             /\ UNCHANGED <<file, shard, product, newer>>
        BY <1>1, <1>2, <1>3, <2>3, EndOutputs
  <2>4. CASE run' = [run EXCEPT ![r].pc = "judge"] /\ UNCHANGED <<disk, dask>>
        BY <1>6, <2>1, <2>4 DEF disk
  <2> QED BY <1>11, <2>2, <2>3, <2>4 DEF Packed
<1>12. CASE PublishCompleted(r)
      BY <1>6, <1>12 DEF PublishCompleted
<1>13. CASE Judge(r)
  <2>1. CASE Fail(r, {})
        BY <1>1, <2>1, FailOutputs
  <2>2. CASE LetGo(r, {}, Submitted(r)) /\ End(r, "completed") /\ UNCHANGED disk
        BY <1>1, <1>2, <1>3, <2>2, EndOutputs DEF disk
  <2> QED BY <1>13, <2>1, <2>2 DEF Judge
<1>14. CASE Timeout(r)
  <2>1. /\ LetGo(r, TaskFutures(r), TaskFutures(r)) /\ End(r, "timeout")
        /\ UNCHANGED <<file, shard, product>>
        BY <1>14 DEF Timeout
  <2> QED BY <1>1, <1>2, <1>3, <2>1, EndOutputs
<1>15. CASE WatchTimeout(r)
      BY <1>1, <1>3, <1>15, EndOutputs DEF WatchTimeout, disk, dask
<1>16. CASE Cancel(r)
      BY <1>16, CancelOutputs
<1> QED BY <1>7, <1>8, <1>9, <1>10, <1>11, <1>12, <1>13, <1>14, <1>15, <1>16 DEF Advance

-----------------------------------------------------------------------------
(* A run that starts out                                                   *)

\* It has the steps Dask does not know yet, and a plan that leaves out current tasks.
LEMMA BeginOutputs ==
  ASSUME IInv, QuietInv, OutputsInv, NEW r \in Runs, NEW j \in Jobs, NEW v, MaySubmit(r, j, v),
         file' = [file EXCEPT ![j] = v], UNCHANGED <<shard, product>>,
         HandleStep(r), Settled, DaskKeeps(r), WantedInv', held' \subseteq Runs \X Steps,
         run'[r].job = j, run'[r].version = v, run'[r].polled = None, ~run'[r].errors,
         run'[r].pc \in {"mesh", "active", "over"},
         \A g \in held' : \/ g \in held
                          \/ /\ g[1] = r /\ run'[r].future[g[2]] # None
                             /\ run'[r].result = None,
         ~Interrupted(j) => \A k \in Steps : run'[r].future[k] \in {None, r},
         run'[r].result = None /\ ~run'[r].postOnly =>
           \A t \in Tasks : \/ run'[r].pc = "mesh" /\ t \in run'[r].pending
                            \/ CurrentTask(j, t, v)
  PROVE  OutputsInv'
<1>1. /\ run[r].pc = "idle" /\ run[r] = NoRun /\ file \in [Jobs -> Contents]
      /\ \A q \in Runs : q < r => (Job(q) = j => run[q].result # None \/ run[q].cancelled)
      BY DEF MaySubmit, IInv, HandlesInv, TypeOK
<1>2. /\ \A k \in Steps : run[r].future[k] = None
      /\ run[r].result = None /\ ~run[r].cancelled
  <2>1. /\ NoRun.future = [k \in Steps |-> None]
        /\ NoRun.result = None /\ ~NoRun.cancelled
        BY DEF NoRun
  <2> QED BY <1>1, <2>1
<1>3. \A k \in Steps : <<r, k>> \notin held
  <2> SUFFICES ASSUME NEW k \in Steps, <<r, k>> \in held PROVE FALSE
      OBVIOUS
  <2>1. run[r].future[k] # None
        BY DEF OutputsInv, OwnInv, HeldInv
  <2> QED BY <1>2, <2>1
<1>4. OwnStep(r)
      BY <1>2, <1>3 DEF OwnStep
<1>5. DiskStep(r)
      BY <1>1 DEF DiskStep
<1>6. ASSUME ~Interrupted(j)', run'[r].result = None
      PROVE  Backed(r)'
  <2>1. ~Interrupted(j)
        BY <1>2, <1>6, InterruptedKept
  <2>2. Job(r)' = j
        BY DEF Job
  <2>3. \A k \in Steps : ~ex'[r][k].solver /\ ~Good(r, k)'
    <3> SUFFICES ASSUME NEW k \in Steps PROVE ~ex'[r][k].solver /\ ex'[r][k].state # "done"
        BY DEF Good
    <3>1. ex[r][k].state = "none" /\ ~ex[r][k].solver
          BY <1>1 DEF IInv, ReadsInv
    <3>2. ~Interrupted(Job(r))'
          BY <1>6 DEF Job, Interrupted
    <3>3. Kept(r, k) \/ Queued(r, k)
          BY <3>2, KeptUnlessInterrupted
    <3> QED BY <3>1, <3>3 DEF Kept, Queued
  <2>4. Sources(r)'
        BY <1>1, <2>1, <2>2, <2>3, StepsNames DEF Sources
  <2>5. Committed(r)'
        BY <1>6, <2>2 DEF Committed, CurrentTask
  <2>6. Counted(r)'
        BY LocalAssumption DEF Counted, Finished
  <2> QED BY <2>4, <2>5, <2>6 DEF Backed
<1>7. ~Interrupted(Job(r))' /\ run'[r].result = None => Backed(r)'
      BY <1>6 DEF Job, Interrupted
<1> QED BY <1>4, <1>5, <1>7, OutputsKept

\* The handle of a run that starts out: its version is that of the job file.
Planned(g, j, v, pc, result) ==
  /\ StartedHandle(g, j, pc, result)
  /\ g.version = v /\ g.polled = None /\ ~g.errors

LEMMA BeginSameOutputs ==
  ASSUME IInv, QuietInv, OutputsInv, NEW r \in Runs, NEW j \in Jobs, NEW v, MaySubmit(r, j, v),
         file' = [file EXCEPT ![j] = v], UNCHANGED <<shard, product, dask>>,
         NEW g,
         \/ Planned(g, j, v, "active", None) /\ g.postOnly
         \/ Planned(g, j, v, "over", "skipped"),
         run' = [run EXCEPT ![r] = g]
  PROVE  OutputsInv'
<1> PICK pc \in {"active", "over"}, result \in {None, "skipped"} :
      /\ Planned(g, j, v, pc, result) /\ (pc = "over" <=> result # None)
      /\ result = None => g.postOnly
    BY LocalAssumption
<1>1. /\ run[r].pc = "idle" /\ run[r] = NoRun /\ run \in [Runs -> Handles] /\ TypeOK
      BY DEF MaySubmit, IInv, HandlesInv, TypeOK
<1>2. \A k \in Steps : run[r].future[k] = None
  <2>1. NoRun.future = [k \in Steps |-> None]
        BY DEF NoRun
  <2> QED BY <1>1, <2>1
<1>3. run' \in [Runs -> Handles] /\ run'[r] = g /\ \A s \in Runs \ {r} : run'[s] = run[s]
      BY <1>1 DEF Planned, StartedHandle
<1>4. HandleStep(r)
      BY <1>1, <1>2, <1>3, StepsNames DEF HandleStep, Planned, StartedHandle
<1>5. Settled /\ DaskKeeps(r) /\ WantedInv' /\ held' = held
      BY <1>1, <1>4, SameSettled, SameKeeps, SameWanted DEF OutputsInv, dask
<1>6. \A k \in Steps : run'[r].future[k] = None
      BY <1>3 DEF Planned, StartedHandle
<1>7. /\ run'[r].job = j /\ run'[r].version = v /\ run'[r].polled = None /\ ~run'[r].errors
      /\ run'[r].pc = pc /\ run'[r].result = result
      BY <1>3 DEF Planned, StartedHandle
<1>8. held' \subseteq Runs \X Steps
      BY <1>1, <1>5 DEF TypeOK
<1>9. run'[r].result = None => run'[r].postOnly
      BY <1>3, <1>7
<1> QED BY <1>4, <1>5, <1>6, <1>7, <1>8, <1>9, BeginOutputs

LEMMA BeginMeshOutputs ==
  ASSUME IInv, QuietInv, OutputsInv, NEW r \in Runs, NEW j \in Jobs, NEW v, MaySubmit(r, j, v),
         file' = [file EXCEPT ![j] = v], UNCHANGED <<shard, product>>,
         NEW g, Planned(g, j, v, "mesh", None),
         \A t \in Tasks : t \in g.pending \/ CurrentTask(j, t, v),
         SubmitFutures(r, g, {"mesh"})
  PROVE  OutputsInv'
<1> DEFINE K == {"mesh"}
<1>1. run[r].pc = "idle" /\ run[r] = NoRun /\ TypeOK
      BY DEF MaySubmit, IInv, HandlesInv
<1>2. \A k \in Steps : run[r].future[k] = None
  <2>1. NoRun.future = [k \in Steps |-> None]
        BY DEF NoRun
  <2> QED BY <1>1, <2>1
<1>3. /\ g \in Handles /\ g.job \in Jobs /\ g.job = j /\ g.pc = "mesh" /\ g.result = None
      /\ \A k \in Steps : g.future[k] = None
      BY DEF Planned, StartedHandle
<1> g.version = v /\ g.polled = None /\ ~g.errors
    BY DEF Planned
<1>4. /\ K \in SUBSET Steps /\ K = {"mesh"} /\ "pack" \notin K /\ SubmitFutures(r, g, K)
      /\ \A k \in K : run[r].future[k] = None
      /\ \A k \in Steps : g.future[k] = run[r].future[k]
      BY <1>2, <1>3, StepsNames
<1> HIDE DEF K
<1>5. /\ HandleStep(r) /\ run'[r].job = j /\ run'[r].pc = "mesh" /\ run'[r].result = None
      /\ run'[r].polled = None
      BY <1>1, <1>3, <1>4, SubmitHandle
<1>6. /\ run'[r].version = v /\ run'[r].pending = g.pending /\ ~run'[r].errors
      /\ held' = (held \ {<<r, "mesh">>}) \cup {<<r, k>> : k \in K}
      BY <1>1, <1>3, <1>4, SubmitFields
<1>7. Settled /\ DaskKeeps(r)
      BY <1>3, <1>4, SubmitSettled, SubmitKeeps
<1>8. WantedInv'
      BY <1>1, <1>3, <1>4, <1>5, SubmitWanted DEF OutputsInv
<1>9. /\ held' \subseteq Runs \X Steps
      /\ \A k \in Steps : IF k \in K THEN run'[r].future[k] \in Runs
                                     ELSE run'[r].future[k] = None
      BY <1>1, <1>3, <1>4, SubmitFuturesType
<1>10. ASSUME ~Interrupted(j), NEW k \in Steps
       PROVE  run'[r].future[k] \in {None, r}
  <2>1. CASE k \notin K
        BY <1>9, <2>1
  <2>2. CASE k \in K
    <3> DEFINE b == g.fresh \/ k = "pack"
               p == <<g.job, k, b>>
    <3>1. b \in BOOLEAN
          OBVIOUS
    <3>2. p \in Keys /\ p[1] = j /\ p[2] = k
          BY <1>3, <3>1 DEF Keys
    <3>3. key[p] = None
          BY <1>1, <1>2, <1>10, <3>2, NotShared DEF OutputsInv, MaySubmit
    <3> QED BY <1>1, <1>3, <1>4, <2>2, <3>3, SubmitOwn
  <2> QED BY <2>1, <2>2
<1>11. ASSUME NEW x \in held', x \notin held
       PROVE  x[1] = r /\ run'[r].future[x[2]] # None
  <2>1. PICK k \in K : x = <<r, k>>
        BY <1>6, <1>11
  <2> QED BY <1>9, <2>1, LocalAssumption
<1> QED BY <1>5, <1>6, <1>7, <1>8, <1>9, <1>10, <1>11, BeginOutputs

LEMMA SubmissionOutputs ==
  ASSUME IInv, QuietInv, OutputsInv, NEW r \in Runs, NEW j \in Jobs, NEW v \in Contents,
         NEW fresh \in BOOLEAN, NEW shutdown \in BOOLEAN,
         \/ \E n \in Nat : Submit(r, j, v, fresh, shutdown, n)
         \/ SubmitPostprocess(r, j, v, fresh, shutdown)
  PROVE  OutputsInv'
<1> DEFINE Fresh(h) == /\ NewHandle(h, j) /\ h.version = v /\ h.polled = None /\ ~h.errors
<1> HIDE DEF Fresh
<1>1. ASSUME NEW h, Fresh(h)
      PROVE  /\ Planned([h EXCEPT !.pc = "over", !.result = "skipped"], j, v, "over", "skipped")
             /\ Planned([h EXCEPT !.pc = "active"], j, v, "active", None)
             /\ Planned([h EXCEPT !.pc = "active", !.postOnly = TRUE], j, v, "active", None)
             /\ \A P \in SUBSET Tasks :
                  /\ Planned([h EXCEPT !.pc = "mesh", !.pending = P], j, v, "mesh", None)
                  /\ [h EXCEPT !.pc = "mesh", !.pending = P].pending = P
  <2> DEFINE a == [h EXCEPT !.pc = "over", !.result = "skipped"]
             c == [h EXCEPT !.pc = "active"]
             d == [h EXCEPT !.pc = "active", !.postOnly = TRUE]
             e(P) == [h EXCEPT !.pc = "mesh", !.pending = P]
  <2>1. h \in Handles /\ NewHandle(h, j) /\ h.version = v /\ h.polled = None /\ ~h.errors
        BY <1>1 DEF NewHandle, Fresh
  <2>2. a.version = h.version /\ a.polled = h.polled /\ a.errors = h.errors
        BY <2>1, Zenon DEF Handles
  <2>3. c.version = h.version /\ c.polled = h.polled /\ c.errors = h.errors
        BY <2>1 DEF Handles
  <2>4. d.version = h.version /\ d.polled = h.polled /\ d.errors = h.errors
        BY <2>1, Zenon DEF Handles
  <2>5. \A P : e(P).version = h.version /\ e(P).polled = h.polled /\ e(P).errors = h.errors
        BY <2>1, Zenon DEF Handles
  <2>6. \A P : e(P).pending = P
        BY <2>1, Zenon DEF Handles
  <2>7. /\ StartedHandle(a, j, "over", "skipped") /\ StartedHandle(c, j, "active", None)
        /\ StartedHandle(d, j, "active", None)
        /\ \A P \in SUBSET Tasks : StartedHandle(e(P), j, "mesh", None)
        BY <2>1, StartHandle, Zenon
  <2> HIDE DEF a, c, d, e
  <2>8. /\ Planned(a, j, v, "over", "skipped") /\ Planned(c, j, v, "active", None)
        /\ Planned(d, j, v, "active", None)
        /\ \A P \in SUBSET Tasks : Planned(e(P), j, v, "mesh", None) /\ e(P).pending = P
        BY <2>1, <2>2, <2>3, <2>4, <2>5, <2>6, <2>7 DEF Planned
  <2> QED BY <2>8, Zenon DEF a, c, d, e
<1>2. ASSUME NEW h, Fresh(h), MaySubmit(r, j, v), file' = [file EXCEPT ![j] = v],
             UNCHANGED <<shard, product>>, Skip(r, h)
      PROVE  OutputsInv'
  <2> DEFINE g == [h EXCEPT !.pc = "over", !.result = "skipped"]
  <2>1. run' = [run EXCEPT ![r] = g] /\ UNCHANGED dask
        BY <1>2 DEF Skip
  <2>2. Planned(g, j, v, "over", "skipped")
        BY <1>1, <1>2, Zenon
  <2> HIDE DEF g
  <2> QED BY <1>2, <2>1, <2>2, BeginSameOutputs
<1>3. ASSUME NEW n \in Nat, Submit(r, j, v, fresh, shutdown, n)
      PROVE  OutputsInv'
  <2> DEFINE h == [NoRun EXCEPT !.job = j, !.fresh = fresh, !.shutdown = shutdown,
                                !.tolerance = n, !.version = v]
             P == {t \in Tasks : fresh \/ ~CurrentTask(j, t, v)}
  <2>1. Fresh(h)
    <3>1. h \in Handles /\ h.job = j
          BY NoRunType DEF Handles
    <3>2. h.result = None /\ h.future = [k \in Steps |-> None] /\ h.version = v
          /\ h.polled = None /\ ~h.errors
          BY DEF NoRun
    <3> QED BY <3>1, <3>2 DEF NewHandle, Fresh
  <2>2. P \in SUBSET Tasks /\ \A t \in Tasks : t \in P \/ CurrentTask(j, t, v)
        OBVIOUS
  <2>3. /\ MaySubmit(r, j, v) /\ file' = [file EXCEPT ![j] = v]
        /\ UNCHANGED <<shard, product, newer>>
        /\ \/ Skip(r, h)
           \/ /\ run' = [run EXCEPT ![r] = [h EXCEPT !.pc = "active", !.postOnly = TRUE]]
              /\ UNCHANGED dask
           \/ SubmitFutures(r, [h EXCEPT !.pc = "mesh", !.pending = P], {"mesh"})
        BY <1>3, Zenon DEF Submit
  <2>4. [h EXCEPT !.pc = "active", !.postOnly = TRUE].postOnly
        BY DEF NoRun
  <2> HIDE DEF h, P
  <2>5. CASE Skip(r, h)
        BY <1>2, <2>1, <2>3, <2>5
  <2>6. CASE /\ run' = [run EXCEPT ![r] = [h EXCEPT !.pc = "active", !.postOnly = TRUE]]
             /\ UNCHANGED dask
    <3> DEFINE g == [h EXCEPT !.pc = "active", !.postOnly = TRUE]
    <3>1. Planned(g, j, v, "active", None) /\ run' = [run EXCEPT ![r] = g] /\ g.postOnly
          BY <1>1, <2>1, <2>4, <2>6, Zenon
    <3> HIDE DEF g
    <3> QED BY <2>3, <2>6, <3>1, BeginSameOutputs
  <2>7. CASE SubmitFutures(r, [h EXCEPT !.pc = "mesh", !.pending = P], {"mesh"})
    <3> DEFINE g == [h EXCEPT !.pc = "mesh", !.pending = P]
    <3>1. Planned(g, j, v, "mesh", None) /\ SubmitFutures(r, g, {"mesh"}) /\ g.pending = P
          BY <1>1, <2>1, <2>2, <2>7, Zenon
    <3> HIDE DEF g
    <3>2. \A t \in Tasks : t \in g.pending \/ CurrentTask(j, t, v)
          BY <2>2, <3>1
    <3>3. UNCHANGED <<shard, product>>
          BY <2>3
    <3> QED BY <2>3, <3>1, <3>2, <3>3, BeginMeshOutputs
  <2> QED BY <2>3, <2>5, <2>6, <2>7
<1>4. CASE SubmitPostprocess(r, j, v, fresh, shutdown)
  <2> DEFINE h == [NoRun EXCEPT !.job = j, !.fresh = fresh, !.shutdown = shutdown,
                                !.version = v, !.postOnly = TRUE]
  <2>1. Fresh(h) /\ h.postOnly
    <3>1. h \in Handles /\ h.job = j
          BY NoRunType, ZenonT(60) DEF Handles
    <3>2. h.result = None /\ h.future = [k \in Steps |-> None] /\ h.version = v
          /\ h.polled = None /\ ~h.errors /\ h.postOnly
          BY DEF NoRun
    <3> QED BY <3>1, <3>2 DEF NewHandle, Fresh
  <2>2. /\ MaySubmit(r, j, v) /\ file' = [file EXCEPT ![j] = v]
        /\ UNCHANGED <<shard, product, newer>>
        /\ \/ Skip(r, h)
           \/ run' = [run EXCEPT ![r] = [h EXCEPT !.pc = "active"]] /\ UNCHANGED dask
        BY <1>4 DEF SubmitPostprocess
  <2>3. [h EXCEPT !.pc = "active"].postOnly
        BY DEF NoRun
  <2> HIDE DEF h
  <2>4. CASE Skip(r, h)
        BY <1>2, <2>1, <2>2, <2>4
  <2>5. CASE run' = [run EXCEPT ![r] = [h EXCEPT !.pc = "active"]] /\ UNCHANGED dask
    <3> DEFINE g == [h EXCEPT !.pc = "active"]
    <3>1. Planned(g, j, v, "active", None) /\ run' = [run EXCEPT ![r] = g] /\ g.postOnly
          BY <1>1, <2>1, <2>3, <2>5, Zenon
    <3> HIDE DEF g
    <3> QED BY <2>2, <2>5, <3>1, BeginSameOutputs
  <2> QED BY <2>2, <2>4, <2>5
<1> QED BY <1>3, <1>4

-----------------------------------------------------------------------------
(* The workers                                                             *)

\* A solver of a task or of the postprocess step is of the run that is waited on,
\* unless a run of the job was cut short.
LEMMA SolverOwner ==
  ASSUME IInv, QuietInv, NEW s \in Runs, NEW k \in Tasks \cup {"post"}, ex[s][k].solver,
         NEW r \in Runs, Job(s) = Job(r), ~Interrupted(Job(r)),
         run[r].pc # "idle", run[r].result = None
  PROVE  /\ s = r /\ run[r].future[k] = r /\ ex[r][k].state = "running" /\ ~Finished(r)
         /\ k \in Tasks => run[r].future["post"] = None
<1>1. k \in Steps /\ s # None /\ r # None /\ s \in Nat /\ r \in Nat
      BY StepsNames, LocalAssumption
<1>2. /\ run[s].pc # "idle" /\ run[s].future[k] = s
      /\ ex[s][k].state \in {"running", "error", "cancelled"}
      BY <1>1 DEF IInv, ReadsInv
<1>3. k \in Submitted(s) /\ k \in Solves(s) /\ Execution(s, k) = ex[s][k]
      BY <1>1, <1>2 DEF Submitted, Solves, Execution
<1>4. ~Unreadable(s, {k}) /\ ~run[s].cancelled /\ ~run[r].cancelled
      BY <1>3 DEF Interrupted
<1>5. ex[s][k].state = "running" /\ ex[s][k].state \notin Over
      BY <1>2, <1>3, <1>4 DEF Unreadable, Over
<1>6. ~Finished(s) /\ run[s].pc # "over"
      BY <1>3, <1>5 DEF QuietInv, EndedInv, Terminal
<1>7. run[s].result = None
      BY <1>6 DEF IInv, HandlesInv
<1>8. ~(s < r) /\ ~(r < s)
      BY <1>2, <1>4, <1>7 DEF QuietInv, Sequential
<1>9. s = r
      BY <1>1, <1>8
<1>10. ASSUME k \in Tasks PROVE run[r].future["post"] = None
  <2>1. k \in TaskFutures(s)
        BY <1>1, <1>2, <1>10 DEF TaskFutures
  <2> QED BY <1>3, <1>5, <1>9, <2>1 DEF QuietInv, EndedInv, Terminal
<1> QED BY <1>2, <1>5, <1>6, <1>9, <1>10

\* What a run is about, as long as one of its solvers has not ended.
LEMMA UnfinishedCounted ==
  ASSUME QuietInv, NEW r \in Runs, ~Finished(r), run' = run
  PROVE  Counted(r)'
<1>1. run[r].pc \notin {"pack", "judge", "judged"} /\ run[r].polled # "completed"
      BY DEF QuietInv, FuturesInv, Finished
<1> QED BY <1>1 DEF Counted, Finished

LEMMA TaskSolved ==
  ASSUME IInv, QuietInv, NEW r \in Runs, NEW k \in Tasks, Backed(r), run' = run, file' = file,
         \A i \in Steps \ {k} : ex'[r][i] = ex[r][i],
         ex[r][k].state = "running", run[r].future[k] = r, ~Finished(r),
         run[r].future["post"] = None, Job(r) \in Jobs, ex[r][k].solver,
         \/ SolverSucceeds(r, k) /\ HasSolved(r, k, TRUE)
         \/ SolverFails(r, k) /\ HasSolved(r, k, FALSE)
  PROVE  Backed(r)'
<1>1. /\ k \in Steps /\ "post" \in Steps /\ k # "post" /\ r # None /\ Job(r)' = Job(r)
      /\ shard \in [Jobs -> [Tasks -> [part : Contents \cup {None}, ok : BOOLEAN]]]
      BY StepsNames, LocalAssumption DEF Job, IInv, TypeOK
<1>2. ex[r]["post"].state = "none" /\ ~ex[r]["post"].solver
      BY <1>1 DEF IInv, ReadsInv
<1>3. ~Good(r, "post")' /\ ~ex'[r]["post"].solver /\ ~ex'[r][k].solver
      BY <1>1, <1>2 DEF Good, HasSolved
<1>4. Sources(r)'
  <2>1. \A t \in Tasks : ex'[r][t].solver => ex'[r][t].read = run[r].version
        BY <1>3, StepsNames DEF Backed, Sources
  <2> QED BY <1>1, <1>3, <2>1 DEF Backed, Sources
<1>5. ASSUME NEW t \in Tasks, t # k, CurrentTask(Job(r), t, run[r].version)
      PROVE  shard'[Job(r)][t] = [part |-> run[r].version, ok |-> TRUE]
  <2>1. \/ shard' = shard
        \/ \E c : shard' = [shard EXCEPT ![Job(r)][k] = c]
        BY <1>1 DEF SolverSucceeds, SolverFails
  <2> QED BY <1>1, <1>5, <2>1 DEF CurrentTask
<1>6. \/ ~Good(r, k)'
      \/ shard'[Job(r)][k] = [part |-> run[r].version, ok |-> TRUE]
  <2>1. CASE SolverSucceeds(r, k)
    <3>1. ex[r][k].read = run[r].version
          BY DEF Backed, Sources
    <3>2. shard' = [shard EXCEPT ![Job(r)][k] = [part |-> run[r].version, ok |-> TRUE]]
          BY <2>1, <3>1 DEF SolverSucceeds
    <3> QED BY <1>1, <3>2
  <2>2. CASE HasSolved(r, k, FALSE)
        BY <2>2 DEF Good, HasSolved
  <2> QED BY <2>1, <2>2
<1>7. Committed(r)'
  <2> SUFFICES ASSUME ~run[r].postOnly, NEW t \in Tasks
               PROVE  \/ run[r].pc = "mesh" /\ t \in run[r].pending
                      \/ run[r].future[t] # None /\ ~Good(r, t)'
                      \/ shard'[Job(r)][t] = [part |-> run[r].version, ok |-> TRUE]
      BY DEF Committed, CurrentTask, Job
  <2>1. CASE t = k
        BY <1>1, <1>6, <2>1
  <2>2. CASE t # k
    <3>1. Good(r, t)' <=> Good(r, t)
          BY <2>2, StepsNames DEF Good
    <3> QED BY <1>5, <2>2, <3>1 DEF Backed, Committed
  <2> QED BY <2>1, <2>2
<1> QED BY <1>4, <1>7, UnfinishedCounted DEF Backed

LEMMA PostSolved ==
  ASSUME IInv, QuietInv, NEW r \in Runs, Backed(r), run' = run, file' = file,
         \A i \in Steps \ {"post"} : ex'[r][i] = ex[r][i],
         ex[r]["post"].state = "running", ~Finished(r), Job(r) \in Jobs, ex[r]["post"].solver,
         \/ SolverSucceeds(r, "post") /\ HasSolved(r, "post", TRUE)
         \/ SolverFails(r, "post") /\ HasSolved(r, "post", FALSE)
  PROVE  Backed(r)'
<1>1. /\ Job(r)' = Job(r) /\ "post" \notin Tasks /\ \A t \in Tasks : t \in Steps \ {"post"}
      /\ product \in [Jobs -> Parts \cup {None}]
      BY StepsNames, LocalAssumption DEF Job, IInv, TypeOK
<1>2. shard' = shard /\ Product(Job(r))' = Product(Job(r))
      BY <1>1 DEF SolverSucceeds, SolverFails, Product
<1>3. ~ex'[r]["post"].solver /\ (Good(r, "post")' => product'[Job(r)] = Product(Job(r)))
  <2>1. CASE SolverSucceeds(r, "post") /\ HasSolved(r, "post", TRUE)
    <3>1. ex[r]["post"].read = Product(Job(r))
          BY DEF Backed, Sources
    <3>2. product' = [product EXCEPT ![Job(r)] = Product(Job(r))]
          BY <2>1, <3>1 DEF SolverSucceeds
    <3> QED BY <1>1, <2>1, <3>2 DEF HasSolved
  <2>2. CASE HasSolved(r, "post", FALSE)
        BY <2>2 DEF HasSolved, Good
  <2> QED BY <2>1, <2>2
<1>4. Sources(r)'
      BY <1>1, <1>2, <1>3 DEF Backed, Sources
<1>5. Committed(r)'
      BY <1>1, <1>2 DEF Backed, Committed, Good, CurrentTask
<1> QED BY <1>4, <1>5, UnfinishedCounted DEF Backed

\* An execution that ends without being of a task or of the postprocess step, or that
\* starts.
LEMMA WorkedBacked ==
  ASSUME IInv, QuietInv, NEW r \in Runs, NEW k \in Steps, Backed(r), run' = run, file' = file,
         UNCHANGED <<shard, product>>, \A i \in Steps \ {k} : ex'[r][i] = ex[r][i],
         k \notin Tasks \cup {"post"} \/ Started(r, k)
  PROVE  Backed(r)'
<1>1. /\ Job(r)' = Job(r) /\ "post" \in Steps /\ "post" \notin Tasks /\ Tasks \subseteq Steps
      /\ Product(Job(r))' = Product(Job(r))
      BY StepsNames, LocalAssumption DEF Job, Product
<1>2. \A i \in Tasks \cup {"post"} : (Good(r, i)' <=> Good(r, i)) /\ (Bad(r, i)' <=> Bad(r, i))
      BY <1>1 DEF Good, Bad, Started
<1>3. ASSUME NEW t \in Tasks, ex'[r][t].solver PROVE ex'[r][t].read = run[r].version
  <2>1. CASE t = k
        BY <1>3, <2>1 DEF Started, Backed, Sources
  <2>2. CASE t # k
        BY <1>1, <1>3, <2>2 DEF Backed, Sources
  <2> QED BY <2>1, <2>2
<1>4. ASSUME ex'[r]["post"].solver PROVE ex'[r]["post"].read = Product(Job(r))
  <2>1. CASE k = "post"
        BY <2>1 DEF Started, Product
  <2>2. CASE k # "post"
        BY <1>1, <1>4, <2>2 DEF Backed, Sources
  <2> QED BY <2>1, <2>2
<1>5. Sources(r)'
      BY <1>1, <1>2, <1>3, <1>4 DEF Backed, Sources
<1>6. Committed(r)'
      BY <1>1, <1>2 DEF Backed, Committed, CurrentTask
<1>7. TaskFutures(r)' = TaskFutures(r) /\ TaskFutures(r) \subseteq Tasks
      BY DEF TaskFutures
<1>8. {t \in TaskFutures(r) : Bad(r, t)}' = {t \in TaskFutures(r) : Bad(r, t)}
      BY <1>2, <1>7
<1>9. Counted(r)'
      BY <1>2, <1>8 DEF Backed, Counted, Finished, Post, Job
<1> QED BY <1>5, <1>6, <1>9 DEF Backed

LEMMA WorkOutputs ==
  ASSUME IInv, QuietInv, OutputsInv, NEW s \in Runs, NEW k \in Steps,
         Work(s, k) \/ WorkerLost(s, k)
  PROVE  OutputsInv'
<1>1. /\ UNCHANGED <<run, file, key, held>>
      /\ \A r \in Runs, i \in Steps : r # s \/ i # k => ex'[r][i] = ex[r][i]
      /\ \/ Started(s, k)
         \/ SolverSucceeds(s, k) /\ HasSolved(s, k, TRUE)
         \/ SolverFails(s, k) /\ HasSolved(s, k, FALSE)
         \/ HasLost(s, k)
      BY Worked, Zenon
<1>2. \A j : Interrupted(j) => Interrupted(j)'
      BY WorkSettled
<1>3. OwnInv'
      BY <1>1, <1>2 DEF OutputsInv, OwnInv, WantedInv, HeldInv, ErrorsInv, KeyOf, Job
<1> SUFFICES ASSUME NEW r \in Runs, ~Interrupted(Job(r))', run[r].pc # "idle",
                    run[r].result = None
             PROVE  Backed(r)'
    BY <1>1, <1>3 DEF OutputsInv, BackedInv, Interrupted, Job
<1>4. ~Interrupted(Job(r)) /\ Job(r) \in Jobs /\ Backed(r)
      BY <1>1, <1>2 DEF OutputsInv, BackedInv, IInv, HandlesInv, Interrupted, Job
<1>5. CASE s # r /\ UNCHANGED <<shard, product>>
  <2>1. Goes(r)
        BY <1>1, <1>5 DEF Goes, Kept
  <2> QED BY <1>1, <1>4, <1>5, <2>1, BackedKept
<1>6. CASE Started(s, k)
  <2>1. UNCHANGED <<shard, product>>
        BY <1>6 DEF Started
  <2> QED BY <1>1, <1>4, <1>5, <1>6, <2>1, WorkedBacked
<1>7. ASSUME ex[s][k].solver,
             \/ SolverSucceeds(s, k) /\ HasSolved(s, k, TRUE)
             \/ SolverFails(s, k) /\ HasSolved(s, k, FALSE)
      PROVE  Backed(r)'
  <2>1. CASE k \notin Tasks \cup {"post"}
    <3>1. UNCHANGED <<shard, product>>
          BY <1>7, <2>1 DEF SolverSucceeds, SolverFails
    <3> QED BY <1>1, <1>4, <1>5, <2>1, <3>1, WorkedBacked
  <2>2. CASE k \in Tasks \cup {"post"} /\ Job(s) = Job(r)
    <3>1. /\ s = r /\ run[r].future[k] = r /\ ex[r][k].state = "running" /\ ~Finished(r)
          /\ k \in Tasks => run[r].future["post"] = None
          BY <1>4, <1>7, <2>2, SolverOwner
    <3>2. CASE k \in Tasks
      <4>1. \A i \in Steps \ {k} : ex'[r][i] = ex[r][i]
            BY <1>1
      <4>2. /\ ex[r][k].solver /\ run' = run /\ file' = file
            /\ \/ SolverSucceeds(r, k) /\ HasSolved(r, k, TRUE)
               \/ SolverFails(r, k) /\ HasSolved(r, k, FALSE)
            BY <1>1, <1>7, <3>1
      <4> QED BY <1>4, <3>1, <3>2, <4>1, <4>2, TaskSolved
    <3>3. CASE k = "post"
          BY <1>1, <1>4, <1>7, <3>1, <3>3, PostSolved
    <3> QED BY <2>2, <3>2, <3>3
  <2>3. CASE Job(s) # Job(r)
    <3>1. /\ shard'[Job(r)] = shard[Job(r)] /\ product'[Job(r)] = product[Job(r)]
      <4>1. /\ shard \in [Jobs -> [Tasks -> [part : Contents \cup {None}, ok : BOOLEAN]]]
            /\ product \in [Jobs -> Parts \cup {None}]
            BY DEF IInv, TypeOK
      <4>2. shard' = shard \/ \E c : shard' = [shard EXCEPT ![Job(s)][k] = c]
            BY <1>7 DEF SolverSucceeds, SolverFails
      <4>3. product' = product \/ \E c : product' = [product EXCEPT ![Job(s)] = c]
            BY <1>7 DEF SolverSucceeds, SolverFails
      <4> QED BY <1>4, <2>3, <4>1, <4>2, <4>3
    <3>2. \A i \in Steps : ex'[r][i] = ex[r][i]
          BY <1>1, <2>3
    <3>3. /\ Job(r)' = Job(r) /\ Product(Job(r))' = Product(Job(r))
          /\ TaskFutures(r)' = TaskFutures(r)
          BY <1>1, <3>1 DEF Job, Product, TaskFutures
    <3>4. \A i \in Steps : (Good(r, i)' <=> Good(r, i)) /\ (Bad(r, i)' <=> Bad(r, i))
          BY <3>2 DEF Good, Bad
    <3>5. Sources(r)'
          BY <1>1, <1>4, <3>1, <3>2, <3>3, <3>4, StepsNames DEF Backed, Sources
    <3>6. Committed(r)'
          BY <1>1, <1>4, <3>1, <3>3, <3>4, StepsNames DEF Backed, Committed, CurrentTask
    <3>7. {t \in TaskFutures(r) : Bad(r, t)}' = {t \in TaskFutures(r) : Bad(r, t)}
          BY <3>3, <3>4, StepsNames DEF TaskFutures
    <3>8. Counted(r)'
          BY <1>1, <1>4, <3>3, <3>4, <3>7, StepsNames DEF Backed, Counted, Finished, Post
    <3> QED BY <3>5, <3>6, <3>8 DEF Backed
  <2> QED BY <2>1, <2>2, <2>3
<1>8. CASE HasLost(s, k)
  <2>1. UNCHANGED <<shard, product>>
        BY <1>8 DEF HasLost
  <2>2. s # r
    <3> SUFFICES ASSUME s = r PROVE FALSE
        OBVIOUS
    <3>1. run[r].future[k] = r /\ r # None
          BY <1>8, LocalAssumption DEF HasLost, IInv, ReadsInv
    <3>2. k \in Submitted(r)' /\ Unreadable(r, {k})'
          BY <1>1, <1>8, <3>1 DEF Submitted, Unreadable, Execution, HasLost
    <3> QED BY <3>2 DEF Interrupted
  <2> QED BY <1>5, <2>1, <2>2
<1> QED BY <1>1, <1>6, <1>7, <1>8 DEF HasSolved

-----------------------------------------------------------------------------
(* The invariant and what it shows                                         *)

LEMMA OutputsInitially == ASSUME Init PROVE OutputsInv
<1>1. /\ key = [q \in Keys |-> None] /\ held = {} /\ \A r \in Runs : run[r] = NoRun
      BY DEF Init
<1>2. NoRun.pc = "idle" /\ ~NoRun.errors
      BY DEF NoRun
<1> QED BY <1>1, <1>2 DEF OutputsInv, OwnInv, WantedInv, HeldInv, ErrorsInv, BackedInv

LEMMA OutputsInvariance == Spec => [](IInv /\ QuietInv /\ OutputsInv)
<1>1. Init => IInv /\ QuietInv /\ OutputsInv
      BY InitInv, QuietInitially, OutputsInitially
<1>2. ASSUME IInv, QuietInv, OutputsInv, Next
      PROVE  OutputsInv'
  <2>1. ASSUME NEW r \in Runs, NEW j \in Jobs, NEW v \in 0 .. MaxVersion, NEW fresh \in Forces,
               NEW shutdown \in Shutdowns,
               \/ \E n \in Tolerances : Submit(r, j, v, fresh, shutdown, n)
               \/ SubmitPostprocess(r, j, v, fresh, shutdown)
        PROVE  OutputsInv'
    <3>1. v \in Contents /\ fresh \in BOOLEAN /\ shutdown \in BOOLEAN /\ Tolerances \subseteq Nat
          BY LocalAssumption DEF Contents
    <3> QED BY <1>2, <2>1, <3>1, SubmissionOutputs, SMTT(30)
  <2> QED BY <1>2, <2>1, AdvanceOutputs, WorkOutputs DEF Next
<1>3. IInv /\ OutputsInv /\ UNCHANGED vars => OutputsInv'
  <2> SUFFICES ASSUME IInv, OutputsInv, UNCHANGED vars PROVE OutputsInv'
      OBVIOUS
  <2>1. UNCHANGED <<file, shard, product, key, ex, held, run>>
        BY DEF vars, disk, dask
  <2>2. \A j : Interrupted(j)' <=> Interrupted(j)
        BY <2>1 DEF Interrupted, Job, Submitted, Unreadable, Execution
  <2>3. OwnInv'
        BY <2>1, <2>2 DEF OutputsInv, OwnInv, WantedInv, HeldInv, ErrorsInv, KeyOf, Job
  <2>4. \A r \in Runs : Backed(r) => Backed(r)'
        BY <2>1, BackedKept DEF Goes, Kept
  <2> QED BY <2>1, <2>2, <2>3, <2>4 DEF OutputsInv, BackedInv, Job
<1>4. (IInv /\ QuietInv /\ OutputsInv) /\ [Next]_vars => (IInv /\ QuietInv /\ OutputsInv)'
      BY <1>2, <1>3, NextInv, NextQuiet, SameQuiet
<1> QED BY <1>1, <1>4, PTL DEF Spec

\* A run completes out of the packing step that failed after no task had, or out of the
\* comparison with its tolerance.
LEMMA CompletesOnly ==
  ASSUME IInv, Next, NEW r \in Runs, Completes(r)
  PROVE  \/ run[r].pc = "pack" /\ run[r].failed = 0
         \/ run[r].pc = "judged" /\ run[r].failed <= run[r].tolerance
<1> DEFINE Open(h) == "result" \in DOMAIN h /\ h.result # "completed"
<1>1. run[r].result = None /\ run'[r].result = "completed" /\ run \in [Runs -> Handles]
      BY DEF Completes, IInv, TypeOK
<1>2. run'[r] # run[r] /\ None # "completed"
      BY <1>1, LocalAssumption
<1>3. ASSUME NEW q \in Runs, NEW h, run' = [run EXCEPT ![q] = h], Open(h)
      PROVE  FALSE
  <2>1. run'[r] = IF r = q THEN h ELSE run[r]
        BY <1>1, <1>3
  <2> QED BY <1>1, <1>2, <1>3, <2>1
<1>4. ASSUME NEW q \in Runs, NEW h, Open(h), NEW K, SubmitFutures(q, h, K)
      PROVE  FALSE
  <2>1. PICK f : run' = [run EXCEPT ![q] = [h EXCEPT !.future = f]]
        BY <1>4 DEF SubmitFutures
  <2> DEFINE g == [h EXCEPT !.future = f]
  <2>2. Open(g) /\ run' = [run EXCEPT ![q] = g]
        BY <1>4, <2>1
  <2> HIDE DEF g
  <2> QED BY <1>3, <2>2
<1>5. ASSUME NEW q \in Runs, NEW state, End(q, state)
      PROVE  q = r /\ state = "completed"
  <2>1. run'[r] = IF r = q THEN [run[r] EXCEPT !.pc = "over", !.result = state] ELSE run[r]
        BY <1>1, <1>5 DEF End
  <2>2. [run[r] EXCEPT !.pc = "over", !.result = state].result = state
        BY <1>1 DEF Handles
  <2> QED BY <1>1, <1>2, <2>1, <2>2
<1>6. ASSUME NEW q \in Runs, NEW C, Fail(q, C) PROVE FALSE
      BY <1>5, <1>6 DEF Fail
<1>7. \A q \in Runs : run[q].pc # "over" => Open(run[q])
      BY <1>1, <1>2 DEF IInv, HandlesInv, Handles
<1>8. ASSUME NEW h, Open(h)
      PROVE  /\ \A x : /\ Open([h EXCEPT !.pc = x]) /\ Open([h EXCEPT !.polled = x])
                       /\ Open([h EXCEPT !.cancelled = x])
             /\ \A x, y : /\ Open([h EXCEPT !.errors = x, !.failed = y])
                          /\ Open([h EXCEPT !.polled = x, !.smooth = y])
                          /\ Open([h EXCEPT !.pc = x, !.pending = y])
                          /\ Open([h EXCEPT !.pc = x, !.postOnly = y])
                          /\ Open([h EXCEPT !.pc = x, !.result = "skipped"])
      BY <1>8
<1>9. /\ Open(NoRun)
      /\ \A j, v, fresh, shutdown, n :
           /\ Open([NoRun EXCEPT !.job = j, !.fresh = fresh, !.shutdown = shutdown,
                                 !.tolerance = n, !.version = v])
           /\ Open([NoRun EXCEPT !.job = j, !.fresh = fresh, !.shutdown = shutdown,
                                 !.version = v, !.postOnly = TRUE])
      BY <1>2 DEF NoRun
<1> HIDE DEF Open
<1>10. ASSUME NEW q \in Runs, NEW x, run[q].pc # "over", run' = [run EXCEPT ![q].pc = x]
       PROVE  FALSE
  <2>1. run' = [run EXCEPT ![q] = [run[q] EXCEPT !.pc = x]]
        BY <1>10
  <2> QED BY <1>3, <1>7, <1>8, <1>10, <2>1, Zenon
<1>11. ASSUME NEW s \in Runs, NEW k \in Steps, Work(s, k) \/ WorkerLost(s, k)
       PROVE  FALSE
  <2>1. run' = run
        BY <1>11, Worked
  <2> QED BY <1>2, <2>1
<1>12. ASSUME NEW q, NEW h, Open(h), q \in Runs, Skip(q, h) PROVE FALSE
       BY <1>3, <1>8, <1>12, Zenon DEF Skip
<1>13. ASSUME NEW q \in Runs, NEW j, NEW v, NEW fresh, NEW shutdown, NEW n,
              Submit(q, j, v, fresh, shutdown, n)
       PROVE  FALSE
  <2> DEFINE h == [NoRun EXCEPT !.job = j, !.fresh = fresh, !.shutdown = shutdown,
                                !.tolerance = n, !.version = v]
             P == {t \in Tasks : fresh \/ ~CurrentTask(j, t, v)}
  <2>1. \/ Skip(q, h)
        \/ run' = [run EXCEPT ![q] = [h EXCEPT !.pc = "active", !.postOnly = TRUE]]
        \/ SubmitFutures(q, [h EXCEPT !.pc = "mesh", !.pending = P], {"mesh"})
        BY <1>13, Zenon DEF Submit
  <2>2. Open(h)
        BY <1>9, Zenon
  <2> HIDE DEF h, P
  <2>3. ~Skip(q, h)
        BY <1>12, <2>2
  <2>4. run' # [run EXCEPT ![q] = [h EXCEPT !.pc = "active", !.postOnly = TRUE]]
    <3> DEFINE g == [h EXCEPT !.pc = "active", !.postOnly = TRUE]
    <3>1. Open(g)
          BY <2>2 DEF Open
    <3> HIDE DEF g
    <3>2. run' # [run EXCEPT ![q] = g]
          BY <1>3, <3>1
    <3> QED BY <3>2 DEF g
  <2>5. ~SubmitFutures(q, [h EXCEPT !.pc = "mesh", !.pending = P], {"mesh"})
        BY <1>4, <1>8, <2>2, Zenon
  <2> QED BY <2>1, <2>3, <2>4, <2>5
<1>14. ASSUME NEW q \in Runs, NEW j, NEW v, NEW fresh, NEW shutdown,
              SubmitPostprocess(q, j, v, fresh, shutdown)
       PROVE  FALSE
  <2> DEFINE h == [NoRun EXCEPT !.job = j, !.fresh = fresh, !.shutdown = shutdown,
                                !.version = v, !.postOnly = TRUE]
  <2>1. Skip(q, h) \/ run' = [run EXCEPT ![q] = [h EXCEPT !.pc = "active"]]
        BY <1>14, Zenon DEF SubmitPostprocess
  <2>2. Open(h)
        BY <1>9, Zenon
  <2> HIDE DEF h
  <2> QED BY <1>3, <1>8, <1>12, <2>1, <2>2, Zenon
<1>15. ASSUME NEW q \in Runs, Poll(q) PROVE FALSE
  <2> DEFINE n == Cardinality({t \in TaskFutures(q) : Failed(q, t)})
             b == Unreadable(q, TaskFutures(q))
             h == [run[q] EXCEPT !.errors = b, !.failed = n]
  <2>1. run[q].pc # "over"
        BY <1>15 DEF Poll, Waiting
  <2>2. Open(run[q]) /\ Open(h)
        BY <1>7, <1>8, <2>1, Zenon
  <2>3. ASSUME NEW g, Open(g), Polled(q, g) PROVE FALSE
        BY <1>3, <2>3 DEF Polled
  <2>4. \/ Polled(q, [run[q] EXCEPT !.polled = "running"])
        \/ SubmitFutures(q, [h EXCEPT !.polled = "running"], {"post"})
        \/ \E x : Polled(q, [h EXCEPT !.polled = x])
        \/ \E x, y : Polled(q, [h EXCEPT !.polled = x, !.smooth = y])
    <3> DEFINE a == [h EXCEPT !.polled = "running"]
               c == [h EXCEPT !.polled = "completed", !.smooth = "ok"]
               d == [h EXCEPT !.polled = "failed", !.smooth = "bad"]
               e == [h EXCEPT !.polled = "failed"]
               g == CASE ~Terminal(q, {"post"}) -> a [] Succeeded(q, "post") -> c
                      [] Failed(q, "post") -> d [] OTHER -> e
    <3>1. \/ Polled(q, [run[q] EXCEPT !.polled = "running"])
          \/ SubmitFutures(q, [h EXCEPT !.polled = "running"], {"post"})
          \/ Polled(q, [h EXCEPT !.polled = IF h.errors THEN "failed" ELSE "completed"])
          \/ Polled(q, g)
          BY <1>15, Zenon DEF Poll
    <3> HIDE DEF a, c, d, e
    <3>2. g \in {a, c, d, e}
          BY DEF Terminal, Succeeded, Failed, Over
    <3>3. Polled(q, g) => Polled(q, a) \/ Polled(q, c) \/ Polled(q, d) \/ Polled(q, e)
          BY <3>2
    <3> HIDE DEF g
    <3> QED BY <3>1, <3>3, Zenon DEF a, c, d, e
  <2> HIDE DEF h
  <2> QED BY <1>4, <1>8, <2>2, <2>3, <2>4, Zenon
<1>16. ASSUME NEW q \in Runs, Advance(q)
       PROVE  \/ run[r].pc = "pack" /\ run[r].failed = 0
              \/ run[r].pc = "judged" /\ run[r].failed <= run[r].tolerance
  <2>1. run[q].pc # "over"
        BY <1>16 DEF Advance, SubmitTasks, MeshFailed, Poll, Waiting, Collect, Packed,
                     PublishCompleted, Judge
  <2>2. ~SubmitTasks(q)
        BY <1>4, <1>7, <1>8, <2>1, Zenon DEF SubmitTasks
  <2>3. ~MeshFailed(q)
        BY <1>5 DEF MeshFailed
  <2>4. ~Collect(q)
    <3>1. \A K : ~SubmitFutures(q, [run[q] EXCEPT !.pc = "pack"], K)
          BY <1>4, <1>7, <1>8, <2>1, Zenon
    <3> QED BY <1>6, <1>10, <2>1, <3>1 DEF Collect
  <2>5. CASE Packed(q)
        BY <1>5, <1>6, <1>10, <2>1, <2>5 DEF Packed
  <2>6. ~PublishCompleted(q)
        BY <1>10, <2>1 DEF PublishCompleted
  <2>7. CASE Judge(q)
        BY <1>5, <1>6, <2>7 DEF Judge
  <2> QED BY <1>15, <1>16, <2>2, <2>3, <2>4, <2>5, <2>6, <2>7 DEF Advance
<1>17. ASSUME NEW q \in Runs, Timeout(q) \/ WatchTimeout(q) \/ Cancel(q)
       PROVE  FALSE
  <2>1. ~Timeout(q) /\ ~WatchTimeout(q)
        BY <1>5 DEF Timeout, WatchTimeout
  <2>2. CASE Cancel(q)
    <3>1. run[q].pc # "over" /\ run' = [run EXCEPT ![q] = [run[q] EXCEPT !.cancelled = TRUE]]
          BY <2>2 DEF Cancel
    <3> QED BY <1>3, <1>7, <1>8, <3>1, Zenon
  <2> QED BY <1>17, <2>1, <2>2
<1> QED BY <1>11, <1>13, <1>14, <1>16, <1>17 DEF Next

\* When a run completes and none of its job was cut short, what it leaves is what the
\* invariant says of it.
LEMMA CompletesBacked ==
  ASSUME IInv, QuietInv, OutputsInv, Next, NEW r \in Runs, Completes(r), ~Interrupted(Job(r))
  PROVE  /\ Backed(r) /\ run[r].polled = "completed" /\ Terminal(r, Solves(r))
         /\ run[r].failed <= run[r].tolerance
<1>1. \/ run[r].pc = "pack" /\ run[r].failed = 0
      \/ run[r].pc = "judged" /\ run[r].failed <= run[r].tolerance
      BY CompletesOnly
<1>2. run[r].result = None /\ run[r].tolerance \in Nat
      BY DEF Completes, IInv, TypeOK, Handles
<1>3. Backed(r) /\ run[r].polled = "completed"
      BY <1>1, <1>2 DEF OutputsInv, BackedInv, Backed, Counted
<1>4. Terminal(r, Solves(r))
      BY <1>3 DEF QuietInv, EndedInv, Finished
<1>5. run[r].failed <= run[r].tolerance
      BY <1>1, <1>2
<1> QED BY <1>3, <1>4, <1>5

\* A run that completes has no more failed tasks than it tolerates (the judgement of
\* _finalize_local_run); every other task has its output of the submitted content on disk.
THEOREM LocalCompletedIsBacked == Spec => CompletedIsBacked
<1>1. ASSUME IInv, QuietInv, OutputsInv, Next, NEW r \in Runs, Completes(r),
             ~run[r].postOnly, ~Interrupted(Job(r))
      PROVE  Cardinality({t \in Tasks : ~CurrentTask(Job(r), t, run[r].version)})
               <= run[r].tolerance
  <2> DEFINE stale == {t \in Tasks : ~CurrentTask(Job(r), t, run[r].version)}
             bad == {t \in TaskFutures(r) : Bad(r, t)}
  <2>1. /\ Backed(r) /\ run[r].polled = "completed" /\ Terminal(r, Solves(r))
        /\ run[r].failed <= run[r].tolerance
        BY <1>1, CompletesBacked
  <2>2. run[r].failed = Cardinality(bad)
        BY <2>1 DEF Backed, Counted, Finished
  <2>3. stale \subseteq bad
    <3> SUFFICES ASSUME NEW t \in Tasks, ~CurrentTask(Job(r), t, run[r].version)
                 PROVE  t \in TaskFutures(r) /\ Bad(r, t)
        OBVIOUS
    <3>1. run[r].pc # "mesh"
          BY <1>1, <2>1, LocalAssumption DEF QuietInv, FuturesInv
    <3>2. run[r].future[t] # None /\ ~Good(r, t)
          BY <1>1, <2>1, <3>1 DEF Backed, Committed
    <3>3. run[r].future[t] = r /\ t \in Steps
          BY <2>1, <3>2, StepsNames DEF Backed, Sources
    <3>4. t \in TaskFutures(r) /\ t \in Submitted(r) /\ t \in Solves(r)
          BY <3>2, <3>3 DEF TaskFutures, Submitted, Solves
    <3>5. Execution(r, t) = ex[r][t]
          BY <3>3 DEF Execution
    <3>6. ex[r][t].state \in Over /\ ~Unreadable(r, {t})
          BY <1>1, <2>1, <3>4, <3>5 DEF Terminal, Interrupted
    <3>7. ex[r][t].state = "done"
          BY <3>5, <3>6 DEF Unreadable, Over
    <3> QED BY <3>2, <3>4, <3>7 DEF Good, Bad
  <2>4. IsFiniteSet(bad)
        BY FS_Subset, LocalAssumption DEF TaskFutures
  <2>5. Cardinality(stale) <= Cardinality(bad) /\ Cardinality(stale) \in Nat
        BY <2>3, <2>4, FS_Subset, FS_CardinalityType
  <2>6. run[r].tolerance \in Nat /\ Cardinality(bad) \in Nat
        BY <1>1, <2>4, FS_CardinalityType DEF IInv, TypeOK, Handles
  <2> HIDE DEF stale, bad
  <2>7. Cardinality(stale) <= run[r].tolerance
        BY <2>1, <2>2, <2>5, <2>6
  <2> QED BY <2>7 DEF stale
<1>2. IInv /\ QuietInv /\ OutputsInv /\ [Next]_vars =>
        [\A r \in Runs : Completes(r) /\ ~run[r].postOnly /\ ~Interrupted(Job(r)) =>
           Cardinality({t \in Tasks : ~CurrentTask(Job(r), t, run[r].version)})
             <= run[r].tolerance]_vars
      BY <1>1
<1> QED BY <1>2, OutputsInvariance, PTL DEF Spec, CompletedIsBacked

\* A run of a job with a postprocess step completes only after that step succeeded, and
\* no task output changes between its solver's reading of them and then.
THEOREM LocalProductIsOfTasks == Spec => ProductIsOfTasks
<1>1. ASSUME IInv, QuietInv, OutputsInv, Next, NEW r \in Runs, Completes(r),
             Job(r) \in PostJobs, ~Interrupted(Job(r)), NEW t \in Tasks
      PROVE  product[Job(r)][t] = shard[Job(r)][t].part
  <2>1. Backed(r) /\ run[r].polled = "completed"
        BY <1>1, CompletesBacked
  <2>2. product[Job(r)] = Product(Job(r))
        BY <1>1, <2>1 DEF Backed, Counted, Sources, Post
  <2> QED BY <2>2 DEF Product
<1>2. IInv /\ QuietInv /\ OutputsInv /\ [Next]_vars =>
        [\A r \in Runs : Completes(r) /\ Job(r) \in PostJobs /\ ~Interrupted(Job(r)) =>
           \A t \in Tasks : product[Job(r)][t] = shard[Job(r)][t].part]_vars
      BY <1>1
<1> QED BY <1>2, OutputsInvariance, PTL DEF Spec, ProductIsOfTasks

=============================================================================
