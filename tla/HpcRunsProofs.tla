--------------------------- MODULE HpcRunsProofs ---------------------------
(***************************************************************************)
(* Safety properties of repeated submissions to a Slurm site, for any      *)
(* number of submissions, definitions and tasks.                           *)
(*                                                                         *)
(* That no definition is computed by two live jobs rests on three facts:   *)
(* the records that submit() looks at name every job that a client has     *)
(* lived to record (RecordsNameJobs); what submit() found in them is still *)
(* true when sbatch returns (CallIsChecked); and a job, once submitted,    *)
(* only ever goes from live to ended.                                      *)
(*                                                                         *)
(* That a failure is not taken for another run's rests on the first of     *)
(* them, undisturbed: a job is not submitted before the last has ended, so *)
(* that the status file they share is that of the newest (StatusOf).       *)
(***************************************************************************)
EXTENDS HpcRunsProps, SequenceTheorems, TLAPS

\* While submit() is between its checks and sbatch, every live job of the
\* definition it submits is one that nobody will ever record.
CallIsChecked ==
  /\ call = "none" \/ recording = 0
  /\ call = "submit" =>
       \A j \in Jobs : Live(j) /\ version[j] = current => Lost(j)

\* Jobs are submitted in the order of their numbers, with a definition that has
\* been staged on the site.
SubmissionsInOrder ==
  /\ \A j, k \in Jobs : j < k /\ Submitted(k) => Submitted(j)
  /\ \A j \in Jobs : Submitted(j) => version[j] \in Versions /\ staged \in Versions
  /\ call # "none" => staged \in Versions
  /\ recording # 0 => Submitted(recording)

IInv ==
  /\ TypeOK
  /\ RecordsNameJobs
  /\ OneLiveJobPerDefinition
  /\ CallIsChecked
  /\ SubmissionsInOrder

-----------------------------------------------------------------------------
(* Slurm and the batch script.                                             *)

\* What a step of the site leaves alone: it submits nothing, revives nothing.
NothingSubmitted ==
  /\ \A k \in Jobs : Live(k)' => Live(k)
  /\ \A k \in Jobs : Submitted(k)' <=> Submitted(k)
  /\ UNCHANGED <<version, fresh, staged>>

LEMMA JobsAreNumbers == Jobs \subseteq Nat \ {0}
BY SweepAssumption DEF Jobs

LEMMA KillsAreEnds == Kills \subseteq SlurmStates /\ "CANCELLED" \in BadEnds
BY SweepAssumption DEF SlurmStates, Ends, BadEnds

LEMMA EndTasksTypes ==
  ASSUME SweepTypeOK, NEW j \in Jobs, EndTasks(j)
  PROVE  task' \in [Jobs -> [Tasks -> Versions \cup {"waiting"} \cup Outcomes]]
<1>1. [t \in Tasks |-> IF t \in Finished(j) THEN task[j][t] ELSE "stopped"]
        \in [Tasks -> Versions \cup {"waiting"} \cup Outcomes]
  BY DEF SweepTypeOK, Outcomes
<1> QED
  BY <1>1 DEF SweepTypeOK, EndTasks

LEMMA StopKeeps ==
  ASSUME SweepTypeOK, NEW j \in Jobs, NEW end \in BadEnds, Stop(j, end)
  PROVE  SweepTypeOK' /\ NothingSubmitted
<1>1. SweepTypeOK'
  <2>1. end \in SlurmStates /\ "over" \in Phases /\ "failed" \in FileStates
    BY DEF SlurmStates, Ends, Phases, FileStates
  <2>2. task' \in [Jobs -> [Tasks -> Versions \cup {"waiting"} \cup Outcomes]]
    BY EndTasksTypes DEF Stop
  <2> QED
    BY <2>1, <2>2 DEF SweepTypeOK, Stop, GoTo
<1>2. NothingSubmitted
  <2>1. end \notin {"unsubmitted", "PENDING", "RUNNING"}
    BY DEF BadEnds, OutOfMemory
  <2>2. slurm[j] # "unsubmitted" /\ slurm' = [slurm EXCEPT ![j] = end]
    BY DEF Stop, Live
  <2> QED
    BY <2>1, <2>2 DEF Stop, NothingSubmitted, Live, Submitted, SweepTypeOK
<1> QED
  BY <1>1, <1>2

LEMMA DispatchKeeps ==
  ASSUME SweepTypeOK, NEW j \in Jobs, Dispatch(j)
  PROVE  SweepTypeOK' /\ NothingSubmitted
<1>1. "RUNNING" \in SlurmStates /\ "starting" \in Phases
  BY DEF SlurmStates, Phases
<1> QED
  BY <1>1 DEF SweepTypeOK, Dispatch, GoTo, siteVars, NothingSubmitted, Live, Submitted

LEMMA ScriptExitsKeeps ==
  ASSUME SweepTypeOK, NEW j \in Jobs, ScriptExits(j)
  PROVE  SweepTypeOK' /\ NothingSubmitted
<1>1. {"COMPLETED", "FAILED"} \subseteq SlurmStates /\ "over" \in Phases
  BY DEF SlurmStates, Ends, BadEnds, Phases
<1>2. task' \in [Jobs -> [Tasks -> Versions \cup {"waiting"} \cup Outcomes]]
  BY EndTasksTypes DEF ScriptExits
<1>3. /\ slurm[j] = "RUNNING"
      /\ \E end \in {"COMPLETED", "FAILED"} : slurm' = [slurm EXCEPT ![j] = end]
      /\ phase' = [phase EXCEPT ![j] = "over"]
      /\ UNCHANGED <<version, fresh, staged, statusFile, results>>
  BY DEF ScriptExits, Running, GoTo, siteVars
<1>4. SweepTypeOK'
  BY <1>1, <1>2, <1>3 DEF SweepTypeOK
<1>5. NothingSubmitted
  BY <1>3 DEF SweepTypeOK, NothingSubmitted, Live, Submitted
<1> QED
  BY <1>4, <1>5

LEMMA TaskStepKeeps ==
  ASSUME SweepTypeOK, staged \in Versions, NEW j \in Jobs, NEW t \in Tasks,
         TaskStarts(j, t) \/ TaskEnds(j, t)
  PROVE  SweepTypeOK' /\ NothingSubmitted
<1>1. /\ UNCHANGED <<slurm, version, fresh, phase, staged>>
      /\ statusFile' = "running"
  BY DEF TaskStarts, TaskEnds
<1>2. \E outcome \in Versions \cup Outcomes : task' = [task EXCEPT ![j][t] = outcome]
  BY DEF TaskStarts, TaskEnds, Outcomes
<1>3. task' \in [Jobs -> [Tasks -> Versions \cup {"waiting"} \cup Outcomes]]
  BY <1>2 DEF SweepTypeOK
<1>4. results' \in [Tasks -> Versions \cup {"failed", NoResult}]
  <2>1. CASE TaskStarts(j, t)
    BY <2>1 DEF TaskStarts, SweepTypeOK
  <2>2. CASE TaskEnds(j, t)
    <3>1. results' = results \/ \E r \in Versions \cup {"failed"} : results' = [results EXCEPT ![t] = r]
      BY <2>2 DEF TaskEnds
    <3> QED
      BY <3>1 DEF SweepTypeOK
  <2> QED
    BY <2>1, <2>2
<1>5. SweepTypeOK'
  BY <1>1, <1>3, <1>4 DEF SweepTypeOK, FileStates
<1>6. NothingSubmitted
  BY <1>1 DEF NothingSubmitted, Live, Submitted
<1> QED
  BY <1>5, <1>6

LEMMA SiteKeeps ==
  ASSUME SweepTypeOK, NEW j \in Jobs, Submitted(j) => staged \in Versions, Site(j)
  PROVE  SweepTypeOK' /\ NothingSubmitted
<1>1. CASE Dispatch(j)
  BY <1>1, DispatchKeeps
<1>2. CASE ScriptExits(j)
  BY <1>2, ScriptExitsKeeps
<1>3. CASE Kill(j)
  <2>1. PICK end \in Kills : Stop(j, end)
    BY <1>3 DEF Kill
  <2>2. end \in BadEnds
    BY SweepAssumption
  <2> QED
    BY <2>1, <2>2, StopKeeps
<1>4. CASE \E t \in Tasks : TaskStarts(j, t) \/ TaskEnds(j, t)
  <2>1. staged \in Versions
    BY <1>4 DEF TaskStarts, TaskEnds, Running, Submitted
  <2> QED
    BY <1>4, <2>1, TaskStepKeeps
<1>5. CASE AbortSweep(j)
  <2>1. task' \in [Jobs -> [Tasks -> Versions \cup {"waiting"} \cup Outcomes]]
    BY <1>5, EndTasksTypes DEF AbortSweep
  <2> QED
    BY <1>5, <2>1 DEF AbortSweep, GoTo, SweepTypeOK, FileStates, Phases,
       NothingSubmitted, Live, Submitted
<1>6. CASE \/ PrepareLogs(j) \/ StartScheduler(j) \/ EndSweep(j) \/ ScriptFails(j)
           \/ ScriptFailsEarly(j) \/ Heartbeat(j) \/ Hang(j)
  <2>1. /\ UNCHANGED <<slurm, version, fresh, task, staged, results>>
        /\ statusFile' \in {"pending", "running", "failed", "complete", "absent", statusFile}
        /\ \/ UNCHANGED phase
           \/ \E p \in {"sizing", "sweep", "post", "exiting", "hung"} :
                phase' = [phase EXCEPT ![j] = p]
    BY <1>6 DEF PrepareLogs, StartScheduler, EndSweep, ScriptFails, ScriptFailsEarly,
       Heartbeat, Hang, GoTo, siteVars
  <2>2. phase' \in [Jobs -> Phases]
    BY <2>1 DEF SweepTypeOK, Phases
  <2>3. statusFile' \in FileStates
    BY <2>1 DEF SweepTypeOK, FileStates
  <2> QED
    BY <2>1, <2>2, <2>3 DEF SweepTypeOK, NothingSubmitted, Live, Submitted
<1> QED
  BY <1>1, <1>2, <1>3, <1>4, <1>5, <1>6 DEF Site, Script

-----------------------------------------------------------------------------
(* runs.json.                                                              *)

OneRecordPerJob ==
  \A i, k \in DOMAIN records : records[i].job = records[k].job => i = k

\* RemoveAt leaves the elements on either side of the place, in order.
LEMMA RemoveAtProperties ==
  ASSUME NEW S, NEW s \in Seq(S), NEW p \in 1 .. Len(s)
  PROVE  /\ RemoveAt(s, p) \in Seq(S) /\ DOMAIN RemoveAt(s, p) = 1 .. (Len(s) - 1)
         /\ \A i \in 1 .. (Len(s) - 1) :
              RemoveAt(s, p)[i] = s[IF i < p THEN i ELSE i + 1]
<1> DEFINE front == SubSeq(s, 1, p - 1)
           back  == SubSeq(s, p + 1, Len(s))
<1>1. /\ front \in Seq(S) /\ Len(front) = p - 1
      /\ \A i \in 1 .. (p - 1) : front[i] = s[i]
  OBVIOUS
<1>2. /\ back \in Seq(S) /\ Len(back) = Len(s) - p
      /\ \A i \in 1 .. (Len(s) - p) : back[i] = s[p + i]
  OBVIOUS
<1>3. RemoveAt(s, p) = front \o back
  BY DEF RemoveAt
<1> HIDE DEF front, back
<1>4. /\ front \o back \in Seq(S)
      /\ Len(front \o back) = Len(front) + Len(back)
      /\ \A i \in 1 .. Len(front) + Len(back) :
           (front \o back)[i] = IF i <= Len(front) THEN front[i] ELSE back[i - Len(front)]
  BY <1>1, <1>2, ConcatProperties
<1>5. ASSUME NEW i \in 1 .. (Len(s) - 1)
      PROVE  (front \o back)[i] = s[IF i < p THEN i ELSE i + 1]
  <2>1. CASE i < p
    <3>1. i \in 1 .. (p - 1) /\ i <= Len(front)
      BY <1>1, <2>1
    <3>2. (front \o back)[i] = front[i]
      BY <1>1, <1>2, <1>4, <3>1
    <3> QED
      BY <1>1, <2>1, <3>1, <3>2
  <2>2. CASE i >= p
    <3>1. ~(i <= Len(front)) /\ i - Len(front) \in 1 .. (Len(s) - p)
      BY <1>1, <2>2
    <3>2. (front \o back)[i] = back[i - Len(front)]
      BY <1>1, <1>2, <1>4, <3>1
    <3>3. p + (i - Len(front)) = i + 1 /\ back[i - Len(front)] = s[p + (i - Len(front))]
      BY <1>1, <1>2, <1>5, <3>1
    <3> QED
      BY <1>5, <2>2, <3>2, <3>3
  <2> QED
    <3>1. i \in Nat /\ p \in Nat
      BY <1>5
    <3>2. i < p \/ i >= p
      BY <3>1
    <3> QED
      BY <2>1, <2>2, <3>2
<1>6. DOMAIN (front \o back) = 1 .. (Len(s) - 1)
  BY <1>1, <1>2, <1>4
<1> QED
  BY <1>3, <1>4, <1>5, <1>6

\* Taking the record of a job out of the list leaves the others, in order.
LEMMA WithoutKeeps ==
  ASSUME records \in Seq(Record), OneRecordPerJob, NEW j
  PROVE  /\ Without(j) \in Seq(Record)
         /\ \A i \in DOMAIN Without(j) : \E k \in DOMAIN records :
              Without(j)[i] = records[k] /\ records[k].job # j
         /\ \A k \in DOMAIN records : records[k].job # j =>
              \E i \in DOMAIN Without(j) : Without(j)[i] = records[k]
         /\ \A i, k \in DOMAIN Without(j) :
              Without(j)[i].job = Without(j)[k].job => i = k
<1>1. CASE ~\E i \in DOMAIN records : records[i].job = j
  <2>1. Without(j) = records
    BY <1>1 DEF Without
  <2> QED
    BY <1>1, <2>1 DEF OneRecordPerJob
<1>2. CASE \E i \in DOMAIN records : records[i].job = j
  <2>1. PICK p \in DOMAIN records : /\ records[p].job = j
                                    /\ Without(j) = RemoveAt(records, p)
    BY <1>2 DEF Without
  <2> DEFINE rest == RemoveAt(records, p)
             old(i) == IF i < p THEN i ELSE i + 1
             new(k) == IF k < p THEN k ELSE k - 1
  <2>2. p \in 1 .. Len(records) /\ Len(records) \in Nat
    BY <2>1
  <2>3. /\ rest \in Seq(Record) /\ DOMAIN rest = 1 .. (Len(records) - 1)
        /\ \A i \in 1 .. (Len(records) - 1) : rest[i] = records[old(i)]
    BY <2>2, RemoveAtProperties DEF old
  <2>4. \A i \in DOMAIN rest : /\ old(i) \in DOMAIN records /\ old(i) # p
                               /\ rest[i] = records[old(i)]
    BY <2>2, <2>3
  <2>5. \A k \in DOMAIN records \ {p} : new(k) \in DOMAIN rest /\ old(new(k)) = k
    BY <2>2, <2>3
  <2>6. \A i, k \in DOMAIN rest : old(i) = old(k) => i = k
    BY <2>2, <2>3
  <2> HIDE DEF rest, old, new
  <2>7. \A i \in DOMAIN rest : rest[i] = records[old(i)] /\ records[old(i)].job # j
    BY <2>1, <2>4 DEF OneRecordPerJob
  <2>8. \A k \in DOMAIN records : records[k].job # j => rest[new(k)] = records[k]
    BY <2>1, <2>4, <2>5
  <2>9. \A i, k \in DOMAIN rest : rest[i].job = rest[k].job => i = k
    BY <2>4, <2>6 DEF OneRecordPerJob
  <2>10. Without(j) = rest
    BY <2>1 DEF rest
  <2> QED
    BY <2>1, <2>3, <2>4, <2>5, <2>7, <2>8, <2>9, <2>10
<1> QED
  BY <1>1, <1>2

LEMMA WriteKeeps ==
  ASSUME records \in Seq(Record), OneRecordPerJob, NEW j \in Jobs, NEW v \in Versions,
         NEW state, WriteRunRecord(j, v, state)
  PROVE  /\ records' \in Seq(Record)
         /\ OneRecordPerJob'
         /\ \A i \in DOMAIN records' :
              \/ records'[i].job = j /\ records'[i].version = v
              \/ \E k \in DOMAIN records : records'[i] = records[k]
         /\ \A k : Recorded(k)' <=> (Recorded(k) \/ k = j)
<1> DEFINE rest == Without(j)
           new  == [job |-> j, version |-> v, successful |-> state = "complete"]
<1>1. /\ rest \in Seq(Record)
      /\ \A i \in DOMAIN rest : \E k \in DOMAIN records :
           rest[i] = records[k] /\ records[k].job # j
      /\ \A k \in DOMAIN records : records[k].job # j =>
           \E i \in DOMAIN rest : rest[i] = records[k]
      /\ \A i, k \in DOMAIN rest : rest[i].job = rest[k].job => i = k
  BY WithoutKeeps
<1>2. records' = Append(rest, new)
  BY DEF WriteRunRecord
<1>3. new \in Record /\ new.job = j /\ new.version = v
  BY DEF Record
<1> HIDE DEF rest, new
<1>4. /\ records' \in Seq(Record)
      /\ DOMAIN records' = DOMAIN rest \cup {Len(rest) + 1}
      /\ Len(rest) + 1 \notin DOMAIN rest
      /\ \A i \in DOMAIN rest : records'[i] = rest[i]
      /\ records'[Len(rest) + 1] = new
  BY <1>1, <1>2, <1>3
<1>5. OneRecordPerJob'
  BY <1>1, <1>3, <1>4 DEF OneRecordPerJob
<1>6. \A i \in DOMAIN records' :
        \/ records'[i].job = j /\ records'[i].version = v
        \/ \E k \in DOMAIN records : records'[i] = records[k]
  BY <1>1, <1>3, <1>4
<1>7. ASSUME NEW k PROVE Recorded(k)' <=> (Recorded(k) \/ k = j)
  <2>1. CASE k = j
    BY <1>3, <1>4, <2>1 DEF Recorded
  <2>2. CASE k # j
    <3>1. Recorded(k)' => Recorded(k)
      BY <1>1, <1>3, <1>4, <2>2 DEF Recorded
    <3>2. Recorded(k) => Recorded(k)'
      BY <1>1, <1>4, <2>2 DEF Recorded
    <3> QED
      BY <2>2, <3>1, <3>2
  <2> QED
    BY <2>1, <2>2
<1> QED
  BY <1>4, <1>5, <1>6, <1>7

-----------------------------------------------------------------------------
(* The inductive invariant.                                                *)

LEMMA InitIInv == Init => IInv
<1> SUFFICES ASSUME Init PROVE IInv
  OBVIOUS
<1>1. TypeOK
  BY DEF Init, SweepInit, TypeOK, SweepTypeOK, ClientTypeOK, SlurmStates, Phases, FileStates
<1>2. \A j \in Jobs : ~Submitted(j) /\ ~Live(j)
  BY DEF Init, SweepInit, Submitted, Live
<1>3. RecordsNameJobs
  BY DEF Init, RecordsNameJobs
<1> QED
  BY <1>1, <1>2, <1>3
  DEF Init, IInv, OneLiveJobPerDefinition, CallIsChecked, SubmissionsInOrder

\* Steps of the site, and scancel.
LEMMA SiteIInv ==
  ASSUME IInv, SweepTypeOK', NothingSubmitted, UNCHANGED clientVars
  PROVE  IInv'
<1>1. TypeOK'
  BY DEF IInv, TypeOK, ClientTypeOK, clientVars
<1>2. \A j \in Jobs : Recorded(j)' = Recorded(j) /\ Lost(j)' = Lost(j)
  BY DEF NothingSubmitted, clientVars, Recorded, Lost
<1>3. \A i \in DOMAIN records : records[i].job \in Jobs
  <2>1. \A i \in DOMAIN records : records[i] \in Record
    BY DEF IInv, TypeOK, ClientTypeOK
  <2> QED
    BY <2>1 DEF Record
<1>4. RecordsNameJobs'
  BY <1>3 DEF IInv, RecordsNameJobs, NothingSubmitted, clientVars
<1>5. OneLiveJobPerDefinition'
  BY <1>2 DEF IInv, OneLiveJobPerDefinition, NothingSubmitted
<1>6. CallIsChecked'
  BY <1>2 DEF IInv, CallIsChecked, NothingSubmitted, clientVars
<1>7. SubmissionsInOrder'
  <2>1. recording \in Jobs \cup {0}
    BY DEF IInv, TypeOK, ClientTypeOK
  <2> QED
    BY <2>1 DEF IInv, SubmissionsInOrder, NothingSubmitted, clientVars
<1> QED
  BY <1>1, <1>4, <1>5, <1>6, <1>7 DEF IInv

\* The record of a job that has one is written again.
LEMMA RewriteIInv ==
  ASSUME IInv, UNCHANGED <<sweepVars, current, call, recording>>,
         handle' \in [Jobs -> {"none", "open", "complete", "failed", "stopped"}],
         NEW i \in DOMAIN records, NEW state,
         WriteRunRecord(records[i].job, records[i].version, state)
  PROVE  IInv'
<1>1. records[i].job \in Jobs /\ records[i].version \in Versions
  <2>1. records[i] \in Record
    BY DEF IInv, TypeOK, ClientTypeOK
  <2> QED
    BY <2>1 DEF Record
<1>2. /\ records' \in Seq(Record)
      /\ OneRecordPerJob'
      /\ \A k \in DOMAIN records' :
           \/ records'[k].job = records[i].job /\ records'[k].version = records[i].version
           \/ \E m \in DOMAIN records : records'[k] = records[m]
      /\ \A k : Recorded(k)' <=> (Recorded(k) \/ k = records[i].job)
  BY <1>1, WriteKeeps DEF IInv, TypeOK, ClientTypeOK, RecordsNameJobs, OneRecordPerJob
<1>3. TypeOK'
  BY <1>2 DEF IInv, TypeOK, SweepTypeOK, ClientTypeOK, sweepVars, siteVars
<1>4. \A k : Submitted(k)' = Submitted(k) /\ Live(k)' = Live(k)
  BY DEF sweepVars, Submitted, Live
<1>5. \A k : Recorded(k)' <=> Recorded(k)
  BY <1>2 DEF Recorded
<1>6. \A k : Lost(k)' <=> Lost(k)
  BY <1>4, <1>5 DEF Lost
<1>7. RecordsNameJobs'
  <2>1. \A k \in DOMAIN records' : \E m \in DOMAIN records :
          records'[k].job = records[m].job /\ records'[k].version = records[m].version
    BY <1>2
  <2> QED
    BY <1>2, <1>4, <2>1 DEF IInv, RecordsNameJobs, OneRecordPerJob, sweepVars
<1>8. OneLiveJobPerDefinition'
  BY <1>4, <1>6 DEF IInv, OneLiveJobPerDefinition, sweepVars
<1>9. CallIsChecked'
  BY <1>4, <1>6 DEF IInv, CallIsChecked, sweepVars
<1>10. SubmissionsInOrder'
  BY <1>4 DEF IInv, SubmissionsInOrder, sweepVars, siteVars
<1> QED
  BY <1>3, <1>7, <1>8, <1>9, <1>10 DEF IInv

\* Steps that touch the handles only.
LEMMA HandlesIInv ==
  ASSUME IInv, UNCHANGED <<sweepVars, current, records, call, recording>>,
         handle' \in [Jobs -> {"none", "open", "complete", "failed", "stopped"}]
  PROVE  IInv'
<1>1. TypeOK'
  BY DEF IInv, TypeOK, SweepTypeOK, ClientTypeOK, sweepVars, siteVars
<1>2. \A k : Submitted(k)' = Submitted(k) /\ Live(k)' = Live(k) /\ Lost(k)' = Lost(k)
  BY DEF sweepVars, Submitted, Live, Lost, Recorded
<1> QED
  BY <1>1, <1>2 DEF IInv, RecordsNameJobs, OneLiveJobPerDefinition, CallIsChecked,
     SubmissionsInOrder, sweepVars, siteVars

LEMMA ReattachIInv == IInv /\ Reattach => IInv'
<1> SUFFICES ASSUME IInv, Reattach PROVE IInv'
  OBVIOUS
<1>1. PICK i \in DOMAIN records :
        /\ WriteRunRecord(records[i].job, records[i].version, UpdateStatus(records[i].job))
        /\ handle' = [handle EXCEPT ![records[i].job] = "open"]
  BY DEF Reattach, InFlight
<1>2. UNCHANGED <<sweepVars, current, call, recording>>
  BY DEF Reattach
<1>3. handle' \in [Jobs -> {"none", "open", "complete", "failed", "stopped"}]
  BY <1>1 DEF IInv, TypeOK, ClientTypeOK
<1> QED
  BY <1>1, <1>2, <1>3, RewriteIInv

LEMMA PollTerminalIInv ==
  ASSUME IInv, NEW j \in Jobs, PollTerminal(j)
  PROVE  IInv'
<1>1. PICK state : /\ handle' = [handle EXCEPT ![j] = Result(state)]
                   /\ FinalizeRunRecord(state)
  BY DEF PollTerminal
<1>2. UNCHANGED <<sweepVars, current, call, recording>>
  BY DEF PollTerminal
<1>3. handle' \in [Jobs -> {"none", "open", "complete", "failed", "stopped"}]
  <2>1. Result(state) \in {"complete", "failed", "stopped"}
    BY DEF Result
  <2> QED
    BY <1>1, <2>1 DEF IInv, TypeOK, ClientTypeOK
<1>4. CASE records = <<>>
  BY <1>1, <1>2, <1>3, <1>4, HandlesIInv DEF FinalizeRunRecord
<1>5. CASE records # <<>>
  <2>1. Len(records) \in DOMAIN records
    BY <1>5 DEF IInv, TypeOK, ClientTypeOK
  <2>2. WriteRunRecord(records[Len(records)].job, records[Len(records)].version, state)
    BY <1>1, <1>5 DEF FinalizeRunRecord, Latest
  <2> QED
    BY <1>2, <1>3, <2>1, <2>2, RewriteIInv
<1> QED
  BY <1>4, <1>5

LEMMA StageInputsIInv ==
  ASSUME IInv, NEW force \in BOOLEAN, StageInputs(force)
  PROVE  IInv'
<1>1. TypeOK'
  BY DEF IInv, TypeOK, SweepTypeOK, ClientTypeOK, StageInputs
<1>2. \A k : Submitted(k)' = Submitted(k) /\ Live(k)' = Live(k) /\ Lost(k)' = Lost(k)
  BY DEF StageInputs, Submitted, Live, Lost, Recorded
<1>3. RecordsNameJobs' /\ OneLiveJobPerDefinition'
  BY <1>2 DEF IInv, RecordsNameJobs, OneLiveJobPerDefinition, StageInputs
<1>4. ASSUME call' = "submit", NEW j \in Jobs, Live(j), version[j] = current
      PROVE  Lost(j)
  <2>1. InFlight = {} /\ recording = 0
    BY <1>4 DEF StageInputs, Idle
  <2>2. ~Recorded(j)
    <3> SUFFICES ASSUME NEW i \in DOMAIN records, records[i].job = j PROVE FALSE
      BY DEF Recorded
    <3>1. records[i].version = current
      BY <1>4 DEF IInv, RecordsNameJobs
    <3>2. UpdateStatus(j) \in {"pending", "running"}
      BY <1>4 DEF Live, UpdateStatus
    <3> QED
      BY <2>1, <3>1, <3>2 DEF InFlight
  <2>3. j # 0
    BY <1>4, JobsAreNumbers
  <2> QED
    BY <1>4, <2>1, <2>2, <2>3 DEF Lost, Live, Submitted
<1>5. CallIsChecked'
  BY <1>2, <1>4 DEF CallIsChecked, StageInputs, Idle
<1>6. SubmissionsInOrder'
  <2>1. staged' \in Versions
    BY DEF StageInputs, IInv, TypeOK, ClientTypeOK
  <2> QED
    BY <1>2, <2>1 DEF IInv, SubmissionsInOrder, StageInputs
<1> QED
  BY <1>1, <1>3, <1>5, <1>6 DEF IInv

LEMMA SubmitBatchIInv ==
  ASSUME IInv, NEW j \in Jobs, SubmitBatch(j)
  PROVE  IInv'
<1>1. TypeOK'
  <2>1. "PENDING" \in SlurmStates /\ "absent" \in FileStates
    BY DEF SlurmStates, FileStates
  <2> QED
    BY <2>1 DEF IInv, TypeOK, SweepTypeOK, ClientTypeOK, SubmitBatch, ClearStatus
<1>2. /\ ~Submitted(j) /\ ~Live(j) /\ Submitted(j)' /\ recording = 0
      /\ version'[j] = current /\ fresh'[j] = (call = "force")
  BY DEF IInv, TypeOK, SweepTypeOK, CallIsChecked, SubmitBatch, Submitted, Live
<1>3. \A k \in Jobs \ {j} :
        /\ Submitted(k)' = Submitted(k) /\ Live(k)' = Live(k)
        /\ version'[k] = version[k] /\ fresh'[k] = fresh[k]
        /\ Lost(k) => Lost(k)'
  BY DEF IInv, TypeOK, SweepTypeOK, SubmitBatch, Submitted, Live, Lost, Recorded
<1>4. RecordsNameJobs'
  <2>1. \A i \in DOMAIN records : records[i].job \in Jobs \ {j}
    <3>1. \A i \in DOMAIN records : records[i] \in Record
      BY DEF IInv, TypeOK, ClientTypeOK
    <3> QED
      BY <1>2, <3>1 DEF Record, IInv, RecordsNameJobs
  <2> QED
    BY <1>3, <2>1 DEF IInv, RecordsNameJobs, SubmitBatch
<1>5. ASSUME NEW a \in Jobs, NEW b \in Jobs, a < b, Live(a)', Live(b)',
             version'[a] = version'[b]
      PROVE  fresh'[b] \/ Lost(a)'
  <2>1. CASE a # j /\ b # j
    BY <1>3, <1>5, <2>1 DEF IInv, OneLiveJobPerDefinition
  <2>2. CASE a # j /\ b = j
    <3>1. Live(a) /\ version[a] = current
      BY <1>2, <1>3, <1>5, <2>2
    <3>2. call \in {"submit", "force"}
      BY DEF SubmitBatch, IInv, TypeOK, ClientTypeOK
    <3> QED
      BY <1>2, <1>3, <2>2, <3>1, <3>2 DEF IInv, CallIsChecked
  <2>3. CASE a = j /\ b # j
    <3>1. Submitted(b)
      BY <1>3, <1>5, <2>3 DEF Live, Submitted
    <3> QED
      BY <1>2, <1>5, <2>3, <3>1 DEF IInv, SubmissionsInOrder
  <2>4. CASE a = j /\ b = j
    BY <1>5, <2>4, JobsAreNumbers
  <2> QED
    BY <2>1, <2>2, <2>3, <2>4
<1>6. OneLiveJobPerDefinition'
  BY <1>5 DEF OneLiveJobPerDefinition
<1>7. CallIsChecked'
  BY DEF CallIsChecked, SubmitBatch
<1>8. SubmissionsInOrder'
  <2>1. current \in Versions /\ staged' \in Versions
    BY DEF IInv, TypeOK, ClientTypeOK, SubmissionsInOrder, SubmitBatch
  <2>2. \A k \in Jobs : k < j => Submitted(k)
    BY DEF SubmitBatch, Submitted
  <2>3. \A a, b \in Jobs : a < b /\ Submitted(b)' => Submitted(a)'
    BY <1>2, <1>3, <2>2 DEF IInv, SubmissionsInOrder
  <2>4. \A k \in Jobs : Submitted(k)' => version'[k] \in Versions /\ staged' \in Versions
    BY <1>2, <1>3, <2>1 DEF IInv, SubmissionsInOrder
  <2> QED
    BY <1>2, <2>1, <2>3, <2>4 DEF SubmissionsInOrder, SubmitBatch
<1> QED
  BY <1>1, <1>4, <1>6, <1>7, <1>8 DEF IInv

LEMMA RecordSiteRunIInv ==
  ASSUME IInv, NEW j \in Jobs, RecordSiteRun(j)
  PROVE  IInv'
<1>1. /\ UNCHANGED <<sweepVars, current, call>> /\ recording' = 0
      /\ call = "none" /\ Submitted(j) /\ version[j] \in Versions
  BY JobsAreNumbers DEF RecordSiteRun, IInv, CallIsChecked, SubmissionsInOrder
<1>2. /\ records' \in Seq(Record)
      /\ OneRecordPerJob'
      /\ \A i \in DOMAIN records' :
           \/ records'[i].job = j /\ records'[i].version = version[j]
           \/ \E k \in DOMAIN records : records'[i] = records[k]
      /\ \A k : Recorded(k)' <=> (Recorded(k) \/ k = j)
  BY <1>1, WriteKeeps
  DEF RecordSiteRun, IInv, TypeOK, ClientTypeOK, RecordsNameJobs, OneRecordPerJob
<1>3. TypeOK'
  BY <1>1, <1>2
  DEF IInv, TypeOK, SweepTypeOK, ClientTypeOK, RecordSiteRun, sweepVars, siteVars
<1>4. \A k : Submitted(k)' = Submitted(k) /\ Live(k)' = Live(k)
  BY <1>1 DEF sweepVars, Submitted, Live
<1>5. \A k \in Jobs : Lost(k) => Lost(k)'
  BY <1>1, <1>2, <1>4, JobsAreNumbers DEF Lost, RecordSiteRun
<1>6. RecordsNameJobs'
  BY <1>1, <1>2, <1>4 DEF IInv, RecordsNameJobs, OneRecordPerJob, sweepVars
<1>7. OneLiveJobPerDefinition'
  BY <1>1, <1>4, <1>5 DEF IInv, OneLiveJobPerDefinition, sweepVars
<1>8. CallIsChecked' /\ SubmissionsInOrder'
  BY <1>1, <1>4 DEF IInv, CallIsChecked, SubmissionsInOrder, sweepVars, siteVars
<1> QED
  BY <1>3, <1>6, <1>7, <1>8 DEF IInv

LEMMA EditIInv ==
  ASSUME IInv, NEW v \in Versions, Edit(v)
  PROVE  IInv'
<1>1. /\ UNCHANGED <<sweepVars, records, call, recording, handle>>
      /\ current' \in Versions /\ call = "none"
  BY DEF Edit, Idle
<1>2. TypeOK'
  BY <1>1 DEF IInv, TypeOK, SweepTypeOK, ClientTypeOK, sweepVars, siteVars
<1>3. \A k : Submitted(k)' = Submitted(k) /\ Live(k)' = Live(k) /\ Lost(k)' = Lost(k)
  BY <1>1 DEF sweepVars, Submitted, Live, Lost, Recorded
<1> QED
  BY <1>1, <1>2, <1>3 DEF IInv, RecordsNameJobs, OneLiveJobPerDefinition, CallIsChecked,
     SubmissionsInOrder, sweepVars, siteVars

LEMMA ClientDiesIInv == IInv /\ ClientDies => IInv'
<1> SUFFICES ASSUME IInv, ClientDies PROVE IInv'
  OBVIOUS
<1>1. /\ UNCHANGED <<sweepVars, current, records>>
      /\ call' = "none" /\ recording' = 0 /\ handle' = [j \in Jobs |-> "none"]
  BY DEF ClientDies
<1>2. TypeOK'
  BY <1>1 DEF IInv, TypeOK, SweepTypeOK, ClientTypeOK, sweepVars, siteVars
<1>3. \A k : Submitted(k)' = Submitted(k) /\ Live(k)' = Live(k)
  BY <1>1 DEF sweepVars, Submitted, Live
<1>4. \A k \in Jobs : Lost(k) => Lost(k)'
  BY <1>1, JobsAreNumbers DEF Lost, Submitted, Recorded, sweepVars
<1>5. OneLiveJobPerDefinition'
  BY <1>1, <1>3, <1>4 DEF IInv, OneLiveJobPerDefinition, sweepVars
<1>6. RecordsNameJobs' /\ CallIsChecked' /\ SubmissionsInOrder'
  BY <1>1, <1>3
  DEF IInv, RecordsNameJobs, CallIsChecked, SubmissionsInOrder, sweepVars, siteVars
<1> QED
  BY <1>2, <1>5, <1>6 DEF IInv

LEMMA NextIInv == IInv /\ [Next]_vars => IInv'
<1> SUFFICES ASSUME IInv, [Next]_vars PROVE IInv'
  OBVIOUS
<1>1. CASE Reattach
  BY <1>1, ReattachIInv
<1>2. CASE SkipCurrent \/ UNCHANGED vars
  <2>1. UNCHANGED <<sweepVars, current, records, call, recording>> /\ UNCHANGED handle
    BY <1>2 DEF SkipCurrent, vars, clientVars
  <2> QED
    BY <2>1, HandlesIInv DEF IInv, TypeOK, ClientTypeOK
<1>3. CASE \E force \in {FALSE, Forced} : StageInputs(force)
  <2>1. {FALSE, Forced} \subseteq BOOLEAN
    BY ClientAssumption
  <2> QED
    BY <1>3, <2>1, StageInputsIInv
<1>4. CASE \E j \in Jobs : SubmitBatch(j)
  BY <1>4, SubmitBatchIInv
<1>5. CASE \E j \in Jobs : RecordSiteRun(j)
  BY <1>5, RecordSiteRunIInv
<1>6. CASE \E j \in Jobs : PollTerminal(j)
  BY <1>6, PollTerminalIInv
<1>7. ASSUME NEW j \in Jobs, WaitTimesOut(j) PROVE IInv'
  <2>1. /\ UNCHANGED <<sweepVars, current, records, call, recording>>
        /\ handle' = [handle EXCEPT ![j] = "stopped"]
    BY <1>7 DEF WaitTimesOut, Result
  <2> QED
    BY <2>1, HandlesIInv DEF IInv, TypeOK, ClientTypeOK
<1>8. ASSUME NEW j \in Jobs, Cancel(j) PROVE IInv'
  <2>1. SweepTypeOK' /\ NothingSubmitted
    BY <1>8, KillsAreEnds, StopKeeps DEF Cancel, IInv, TypeOK
  <2> QED
    BY <1>8, <2>1, SiteIInv DEF Cancel
<1>9. CASE \E v \in Versions : Edit(v)
  BY <1>9, EditIInv
<1>10. CASE ClientDies
  BY <1>10, ClientDiesIInv
<1>11. ASSUME NEW j \in Jobs, Site(j), UNCHANGED clientVars PROVE IInv'
  <2>1. Submitted(j) => staged \in Versions
    BY <1>11 DEF IInv, SubmissionsInOrder
  <2>2. SweepTypeOK' /\ NothingSubmitted
    BY <1>11, <2>1, SiteKeeps DEF IInv, TypeOK
  <2> QED
    BY <1>11, <2>2, SiteIInv
<1> QED
  BY <1>1, <1>2, <1>3, <1>4, <1>5, <1>6, <1>7, <1>8, <1>9, <1>10, <1>11 DEF Next, Client

LEMMA Invariance == Spec => []IInv
BY InitIInv, NextIInv, PTL DEF Spec

-----------------------------------------------------------------------------
(* Theorems.                                                               *)

\* The variables of the model keep their types, whatever the site and the
\* client do.
THEOREM SlurmRunsTypes == Spec => []TypeOK
<1>1. IInv => TypeOK
  BY DEF IInv
<1> QED
  BY <1>1, Invariance, PTL

\* write_run_record keeps runs.json a book of the Slurm jobs: one record per job,
\* with the definition it was submitted with.
THEOREM RecordsStayTrue == Spec => []RecordsNameJobs
<1>1. IInv => RecordsNameJobs
  BY DEF IInv
<1> QED
  BY <1>1, Invariance, PTL

\* submit() never puts a second live Slurm job on a definition, but by force or
\* after a client that died before its record was written.
THEOREM SubmissionsNeverCollide == Spec => []OneLiveJobPerDefinition
<1>1. IInv => OneLiveJobPerDefinition
  BY DEF IInv
<1> QED
  BY <1>1, Invariance, PTL

-----------------------------------------------------------------------------
(* Whose failure it is: the successive runs of one definition share the    *)
(* status file.  That no client forces a run or dies keeps them apart.     *)

Undisturbed == (\E v : Versions = {v}) /\ ~Forced /\ ~Crashes

\* Why a run may be reported as failed.
Own(j) ==
  \/ slurm[j] \in BadEnds
  \/ Failures(j) # {}
  \/ phase[j] \in {"hung", "exiting"}

Newest(j) == Submitted(j) /\ \A k \in Jobs : k > j => ~Submitted(k)

\* Every job is known, and only the newest may be live.
Orderly ==
  /\ \A j \in Jobs : Submitted(j) => Recorded(j) \/ recording = j
  /\ \A j \in Jobs : ~fresh[j]
  /\ call # "force"
  /\ \A j, k \in Jobs : j < k /\ Submitted(k) => ~Live(j)
  /\ \A j \in Jobs : handle[j] # "none" => Submitted(j)
  /\ \A j \in Jobs : slurm[j] \in {"unsubmitted", "PENDING"} => phase[j] = "none"

\* The status file is that of job j.
StatusOf(j) ==
  /\ slurm[j] = "PENDING" => statusFile = "absent"
  /\ slurm[j] = "RUNNING" =>
       /\ phase[j] \in {"starting", "sizing", "sweep", "post", "hung", "exiting"}
       /\ phase[j] = "starting" => statusFile = "absent"
       /\ phase[j] = "sizing" => statusFile = "pending"
       /\ phase[j] = "post" => statusFile \in {"failed", "complete"}
  /\ statusFile = "failed" => Own(j)

StatusInv ==
  /\ Orderly
  /\ \A j \in Jobs : Newest(j) => StatusOf(j)
  /\ FailureIsOwn

LEMMA InitStatusInv == Init => StatusInv
<1> SUFFICES ASSUME Init PROVE StatusInv
  OBVIOUS
<1>1. \A j \in Jobs : ~Submitted(j) /\ ~Live(j) /\ handle[j] = "none" /\ ~fresh[j] /\ phase[j] = "none"
  BY DEF Init, SweepInit, Submitted, Live
<1>2. Orderly
  BY <1>1 DEF Orderly, Init
<1>3. FailureIsOwn
  BY <1>1 DEF FailureIsOwn
<1> QED
  BY <1>1, <1>2, <1>3 DEF StatusInv, Newest

\* A step of the site, or scancel: of a live job, which is started by it or ends.
StepOf(j) == Site(j) \/ \E end \in BadEnds : Stop(j, end)

LEMMA StepOfOne ==
  ASSUME SweepTypeOK, NEW j \in Jobs, StepOf(j)
  PROVE  /\ Live(j) /\ slurm'[j] \notin {"unsubmitted", "PENDING"}
         /\ \A k \in Jobs \ {j} :
              slurm'[k] = slurm[k] /\ phase'[k] = phase[k] /\ task'[k] = task[k]
<1>1. ASSUME NEW end \in BadEnds, Stop(j, end)
      PROVE  /\ Live(j) /\ slurm'[j] = end
             /\ \A k \in Jobs \ {j} :
                  slurm'[k] = slurm[k] /\ phase'[k] = phase[k] /\ task'[k] = task[k]
  BY <1>1 DEF SweepTypeOK, Stop, GoTo, EndTasks
<1>2. \A end \in BadEnds : end \notin {"unsubmitted", "PENDING"}
  BY DEF BadEnds, OutOfMemory
<1>3. CASE Kill(j)
  BY <1>1, <1>2, <1>3, SweepAssumption DEF Kill
<1>4. CASE Dispatch(j)
  BY <1>4 DEF SweepTypeOK, Dispatch, GoTo, Live
<1>5. CASE Script(j) \/ Heartbeat(j) \/ Hang(j)
  <2>1. slurm[j] = "RUNNING"
    BY <1>5 DEF Script, Heartbeat, Hang, PrepareLogs, StartScheduler, TaskStarts, TaskEnds,
       EndSweep, AbortSweep, ScriptFails, ScriptFailsEarly, ScriptExits, Running
  <2>2. slurm' = slurm \/ \E end \in {"COMPLETED", "FAILED"} : slurm' = [slurm EXCEPT ![j] = end]
    BY <1>5 DEF Script, Heartbeat, Hang, PrepareLogs, StartScheduler, TaskStarts, TaskEnds,
       EndSweep, AbortSweep, ScriptFails, ScriptFailsEarly, ScriptExits
  <2>3. phase' = phase \/ \E p : phase' = [phase EXCEPT ![j] = p]
    BY <1>5 DEF Script, Heartbeat, Hang, PrepareLogs, StartScheduler, TaskStarts, TaskEnds,
       EndSweep, AbortSweep, ScriptFails, ScriptFailsEarly, ScriptExits, GoTo
  <2>4. \A k \in Jobs \ {j} : task'[k] = task[k]
    <3>1. CASE \E t \in Tasks : TaskStarts(j, t) \/ TaskEnds(j, t)
      BY <3>1 DEF SweepTypeOK, TaskStarts, TaskEnds
    <3>2. CASE AbortSweep(j) \/ ScriptExits(j)
      BY <3>2 DEF SweepTypeOK, AbortSweep, ScriptExits, EndTasks
    <3>3. CASE \/ PrepareLogs(j) \/ StartScheduler(j) \/ EndSweep(j) \/ ScriptFails(j)
               \/ ScriptFailsEarly(j) \/ Heartbeat(j) \/ Hang(j)
      BY <3>3 DEF PrepareLogs, StartScheduler, EndSweep, ScriptFails, ScriptFailsEarly,
         Heartbeat, Hang
    <3> QED
      BY <1>5, <3>1, <3>2, <3>3 DEF Script
  <2> QED
    BY <2>1, <2>2, <2>3, <2>4 DEF SweepTypeOK, Live
<1> QED
  BY <1>1, <1>2, <1>3, <1>4, <1>5 DEF StepOf, Site

\* A reason for failure stays one.
LEMMA OwnStays ==
  ASSUME SweepTypeOK, NEW j \in Jobs, Own(j), StepOf(j),
         slurm[j] = "PENDING" => phase[j] = "none"
  PROVE  Own(j)'
<1>1. ASSUME NEW end \in BadEnds, Stop(j, end) PROVE Own(j)'
  BY <1>1 DEF SweepTypeOK, Stop, Own
<1>2. CASE Kill(j)
  BY <1>1, <1>2, SweepAssumption DEF Kill
<1>3. CASE \/ Dispatch(j) \/ PrepareLogs(j) \/ StartScheduler(j) \/ EndSweep(j) \/ Heartbeat(j)
  <2>1. /\ task' = task /\ slurm[j] \in {"PENDING", "RUNNING"}
        /\ phase[j] \notin {"hung", "exiting"}
    BY <1>3 DEF Dispatch, PrepareLogs, StartScheduler, EndSweep, Heartbeat, Running
  <2>2. Failures(j) # {}
    BY <2>1 DEF Own, BadEnds, OutOfMemory
  <2> QED
    BY <2>1, <2>2 DEF Own, Failures
<1>4. ASSUME NEW t \in Tasks, TaskStarts(j, t) \/ TaskEnds(j, t) PROVE Own(j)'
  <2>1. /\ slurm[j] = "RUNNING" /\ phase[j] = "sweep"
        /\ task[j][t] # "failed"
        /\ \E outcome : task' = [task EXCEPT ![j][t] = outcome]
    BY <1>4, SweepAssumption DEF TaskStarts, TaskEnds, Running
  <2>2. PICK f \in Tasks : task[j][f] = "failed"
    BY <2>1 DEF Own, Failures, BadEnds, OutOfMemory
  <2>3. task'[j][f] = "failed"
    BY <2>1, <2>2 DEF SweepTypeOK
  <2> QED
    BY <2>3 DEF Own, Failures
<1>5. CASE AbortSweep(j) \/ ScriptFails(j) \/ ScriptFailsEarly(j) \/ Hang(j)
  BY <1>5 DEF AbortSweep, ScriptFails, ScriptFailsEarly, Hang, GoTo, SweepTypeOK, Own
<1>6. CASE ScriptExits(j)
  <2>1. CASE phase[j] = "post"
    <3>1. PICK f \in Tasks : task[j][f] = "failed"
      BY <1>6, <2>1 DEF ScriptExits, Running, Own, Failures, BadEnds, OutOfMemory
    <3>2. task'[j][f] = "failed"
      BY <1>6, <3>1 DEF ScriptExits, EndTasks, Finished, SweepTypeOK
    <3> QED
      BY <3>2 DEF Own, Failures
  <2>2. CASE phase[j] # "post"
    BY <1>6, <2>2 DEF ScriptExits, SweepTypeOK, Own, BadEnds
  <2> QED
    BY <2>1, <2>2
<1> QED
  BY <1>1, <1>2, <1>3, <1>4, <1>5, <1>6 DEF StepOf, Site, Script

\* What the newest job does to the status file is told by its own state.
LEMMA StatusStays ==
  ASSUME SweepTypeOK, NEW j \in Jobs, StatusOf(j), StepOf(j),
         slurm[j] = "PENDING" => phase[j] = "none"
  PROVE  StatusOf(j)'
<1>1. ASSUME NEW end \in BadEnds, Stop(j, end) PROVE StatusOf(j)'
  <2>1. slurm'[j] = end /\ end \notin {"PENDING", "RUNNING"}
    BY <1>1 DEF SweepTypeOK, Stop, BadEnds, OutOfMemory
  <2> QED
    BY <2>1 DEF StatusOf, Own
<1>2. CASE Kill(j)
  BY <1>1, <1>2, SweepAssumption DEF Kill
<1>3. CASE Dispatch(j)
  BY <1>3 DEF Dispatch, GoTo, siteVars, SweepTypeOK, StatusOf
<1>4. CASE PrepareLogs(j) \/ StartScheduler(j) \/ Heartbeat(j)
  BY <1>4 DEF PrepareLogs, StartScheduler, Heartbeat, Running, GoTo, SweepTypeOK, StatusOf
<1>5. CASE \E t \in Tasks : TaskStarts(j, t) \/ TaskEnds(j, t)
  BY <1>5 DEF TaskStarts, TaskEnds, Running, StatusOf
<1>6. CASE EndSweep(j)
  <2>1. Failures(j)' = Failures(j)
    BY <1>6 DEF EndSweep, Failures
  <2> QED
    BY <1>6, <2>1 DEF EndSweep, Running, GoTo, SweepTypeOK, StatusOf, Own
<1>7. CASE AbortSweep(j) \/ ScriptFails(j) \/ ScriptFailsEarly(j) \/ Hang(j)
  <2>1. slurm'[j] = "RUNNING" /\ phase'[j] \in {"exiting", "hung"}
    BY <1>7 DEF AbortSweep, ScriptFails, ScriptFailsEarly, Hang, Running, GoTo, SweepTypeOK
  <2> QED
    BY <2>1 DEF StatusOf, Own
<1>8. CASE ScriptExits(j)
  <2>1. slurm'[j] \in {"COMPLETED", "FAILED"} /\ statusFile' = statusFile
    BY <1>8 DEF ScriptExits, siteVars, SweepTypeOK
  <2>2. Own(j) => Own(j)'
    BY OwnStays
  <2> QED
    BY <2>1, <2>2 DEF StatusOf
<1> QED
  BY <1>1, <1>2, <1>3, <1>4, <1>5, <1>6, <1>7, <1>8 DEF StepOf, Site, Script

LEMMA SiteStatusInv ==
  ASSUME IInv, StatusInv, NEW j \in Jobs, StepOf(j), NothingSubmitted, UNCHANGED clientVars
  PROVE  StatusInv'
<1> USE JobsAreNumbers
<1>1. SweepTypeOK /\ Orderly /\ FailureIsOwn
  BY DEF IInv, TypeOK, StatusInv
<1>2. /\ Live(j) /\ slurm'[j] \notin {"unsubmitted", "PENDING"}
      /\ \A k \in Jobs \ {j} :
           slurm'[k] = slurm[k] /\ phase'[k] = phase[k] /\ task'[k] = task[k]
  BY <1>1, StepOfOne
<1>3. Newest(j) /\ StatusOf(j) /\ (slurm[j] = "PENDING" => phase[j] = "none")
  BY <1>1, <1>2 DEF Orderly, StatusInv, Newest, Live, Submitted
<1>4. Orderly'
  <2>1. \A k \in Jobs : slurm'[k] \in {"unsubmitted", "PENDING"} => phase'[k] = "none"
    BY <1>1, <1>2 DEF Orderly
  <2>2. \A k \in Jobs : Recorded(k)' <=> Recorded(k)
    BY DEF Recorded, clientVars
  <2> QED
    BY <1>1, <2>1, <2>2 DEF Orderly, NothingSubmitted, clientVars
<1>5. \A k \in Jobs : Newest(k)' => k = j
  BY <1>2, <1>3 DEF Newest, NothingSubmitted, Live, Submitted
<1>6. StatusOf(j)'
  BY <1>1, <1>3, StatusStays
<1>7. FailureIsOwn'
  <2> SUFFICES ASSUME NEW k \in Jobs, handle'[k] = "failed",
                      \A m \in Jobs : m > k => ~Submitted(m)'
               PROVE  Own(k)'
    BY DEF FailureIsOwn, Own
  <2>1. handle[k] = "failed" /\ Submitted(k) /\ \A m \in Jobs : m > k => ~Submitted(m)
    BY <1>1 DEF Orderly, NothingSubmitted, clientVars
  <2>2. k = j /\ Own(j)
    BY <1>1, <1>3, <2>1 DEF FailureIsOwn, Own, Newest
  <2> QED
    BY <1>1, <1>3, <2>2, OwnStays
<1> QED
  BY <1>4, <1>5, <1>6, <1>7 DEF StatusInv

\* Steps of the client that leave the site alone.
LEMMA ClientStatusInv ==
  ASSUME StatusInv, UNCHANGED sweepVars, Orderly', FailureIsOwn'
  PROVE  StatusInv'
BY DEF StatusInv, Newest, StatusOf, Own, Failures, Submitted, sweepVars, siteVars

\* Records are only added to, and the handles of submitted jobs are opened or ended.
LEMMA OrderlyStays ==
  ASSUME IInv, Orderly, UNCHANGED <<sweepVars, call, recording>>,
         \A k \in Jobs : Recorded(k) => Recorded(k)',
         \A k \in Jobs : handle'[k] = handle[k] \/ Submitted(k)
  PROVE  Orderly'
BY DEF Orderly, sweepVars, Submitted, Live

LEMMA FailureStays ==
  ASSUME FailureIsOwn, UNCHANGED sweepVars,
         \A k \in Jobs : handle'[k] = "failed" =>
           handle[k] = "failed" \/ ((\A m \in Jobs : m > k => ~Submitted(m)) => Own(k))
  PROVE  FailureIsOwn'
BY DEF FailureIsOwn, Own, Failures, Submitted, sweepVars

LEMMA RewriteRecords ==
  ASSUME IInv, NEW i \in DOMAIN records, NEW state,
         WriteRunRecord(records[i].job, records[i].version, state)
  PROVE  /\ records[i].job \in Jobs /\ Submitted(records[i].job)
         /\ \A k : Recorded(k)' <=> Recorded(k)
<1>1. records[i] \in Record
  BY DEF IInv, TypeOK, ClientTypeOK
<1>2. records[i].job \in Jobs /\ records[i].version \in Versions
  BY <1>1 DEF Record
<1>3. \A k : Recorded(k)' <=> (Recorded(k) \/ k = records[i].job)
  BY <1>2, WriteKeeps DEF IInv, TypeOK, ClientTypeOK, RecordsNameJobs, OneRecordPerJob
<1> QED
  BY <1>2, <1>3 DEF IInv, RecordsNameJobs, Recorded

LEMMA ReattachStatusInv ==
  ASSUME IInv, StatusInv, Reattach
  PROVE  StatusInv'
<1>1. PICK i \in DOMAIN records :
        /\ WriteRunRecord(records[i].job, records[i].version, UpdateStatus(records[i].job))
        /\ handle' = [handle EXCEPT ![records[i].job] = "open"]
  BY DEF Reattach, InFlight
<1>2. UNCHANGED <<sweepVars, call, recording>> /\ Orderly /\ FailureIsOwn
  BY DEF Reattach, StatusInv
<1>3. Submitted(records[i].job) /\ \A k : Recorded(k)' <=> Recorded(k)
  BY <1>1, RewriteRecords
<1>4. \A k \in Jobs : handle'[k] = handle[k] \/ (handle'[k] = "open" /\ Submitted(k))
  BY <1>1, <1>3 DEF IInv, TypeOK, ClientTypeOK
<1>5. Orderly'
  BY <1>2, <1>3, <1>4, OrderlyStays
<1>6. FailureIsOwn'
  BY <1>2, <1>4, FailureStays
<1> QED
  BY <1>2, <1>5, <1>6, ClientStatusInv

\* A poll takes the newest job for failed only for a reason of its own.
LEMMA PollIsOwn ==
  ASSUME TypeOK, StatusInv, NEW j \in Jobs, NEW file \in {statusFile, "absent"},
         Newest(j), PollRun(j, file) = "failed"
  PROVE  Own(j)
<1>1. StatusOf(j)
  BY DEF StatusInv
<1>2. CASE UpdateStatus(j) = "failed"
  <2>1. slurm[j] \in {"FAILED", "NODE_FAIL"}
    BY <1>2 DEF UpdateStatus
  <2> QED
    BY <2>1 DEF Own, BadEnds
<1>3. CASE file = "failed"
  BY <1>1, <1>3 DEF StatusOf
<1>4. CASE file = "running" /\ UpdateStatus(j) = "running" /\ HeartbeatStopped
  <2>1. slurm[j] = "RUNNING"
    BY <1>4 DEF UpdateStatus
  <2>2. statusFile = "running" /\ phase[j] # "sweep"
    BY <1>4, <2>1 DEF HeartbeatStopped, Running
  <2> QED
    BY <1>1, <2>1, <2>2 DEF StatusOf, Own
<1> QED
  BY <1>2, <1>3, <1>4 DEF PollRun, SchedulerFailure

LEMMA PollStatusInv ==
  ASSUME IInv, StatusInv, NEW j \in Jobs, PollTerminal(j)
  PROVE  StatusInv'
<1>1. PICK file \in {statusFile, "absent"} :
        /\ handle' = [handle EXCEPT ![j] = Result(PollRun(j, file))]
        /\ FinalizeRunRecord(PollRun(j, file))
  BY DEF PollTerminal
<1>2. /\ UNCHANGED <<sweepVars, call, recording>> /\ Orderly /\ FailureIsOwn /\ TypeOK
      /\ handle[j] = "open" /\ Submitted(j)
  BY DEF PollTerminal, StatusInv, Orderly, IInv
<1>3. \A k : Recorded(k)' <=> Recorded(k)
  <2>1. CASE records = <<>>
    BY <1>1, <2>1 DEF FinalizeRunRecord, Recorded
  <2>2. CASE records # <<>>
    <3>1. Len(records) \in DOMAIN records
      BY <2>2 DEF IInv, TypeOK, ClientTypeOK
    <3>2. WriteRunRecord(records[Len(records)].job, records[Len(records)].version,
                         PollRun(j, file))
      BY <1>1, <2>2 DEF FinalizeRunRecord, Latest
    <3> QED
      BY <3>1, <3>2, RewriteRecords
  <2> QED
    BY <2>1, <2>2
<1>4. \A k \in Jobs : k # j => handle'[k] = handle[k]
  BY <1>1, <1>2 DEF TypeOK, ClientTypeOK
<1>5. Orderly'
  BY <1>2, <1>3, <1>4, OrderlyStays
<1>6. handle'[j] = "failed" => PollRun(j, file) = "failed"
  BY <1>1, <1>2 DEF TypeOK, ClientTypeOK, Result
<1>7. FailureIsOwn'
  <2>1. handle'[j] = "failed" /\ (\A m \in Jobs : m > j => ~Submitted(m)) => Own(j)
    BY <1>2, <1>6, PollIsOwn DEF Newest
  <2> QED
    BY <1>2, <1>4, <2>1, FailureStays
<1> QED
  BY <1>2, <1>5, <1>7, ClientStatusInv

LEMMA SubmitStatusInv ==
  ASSUME Undisturbed, IInv, StatusInv, NEW j \in Jobs, SubmitBatch(j)
  PROVE  StatusInv'
<1> USE JobsAreNumbers
<1>1. /\ Orderly /\ FailureIsOwn /\ SweepTypeOK
      /\ call = "submit" /\ recording = 0 /\ recording' = j
  BY DEF StatusInv, Orderly, SubmitBatch, IInv, TypeOK, ClientTypeOK, CallIsChecked
<1>2. /\ ~Submitted(j) /\ Submitted(j)' /\ slurm'[j] = "PENDING" /\ statusFile' = "absent"
      /\ ~fresh'[j] /\ phase' = phase /\ task' = task /\ records' = records
      /\ handle' = handle /\ call' = "none"
  BY <1>1 DEF SubmitBatch, ClearStatus, SweepTypeOK, Submitted
<1>3. \A k \in Jobs \ {j} :
        /\ slurm'[k] = slurm[k] /\ Submitted(k)' = Submitted(k) /\ Live(k)' = Live(k)
        /\ fresh'[k] = fresh[k]
  BY <1>1 DEF SubmitBatch, SweepTypeOK, Submitted, Live
<1>4. \A k \in Jobs : ~Live(k)
  <2> SUFFICES ASSUME NEW k \in Jobs, Live(k) PROVE FALSE
    OBVIOUS
  <2>1. Submitted(k)
    BY DEF Live, Submitted
  <2>2. version[k] = current
    BY <2>1 DEF Undisturbed, IInv, SubmissionsInOrder, TypeOK, ClientTypeOK
  <2>3. Lost(k)
    BY <1>1, <2>2 DEF IInv, CallIsChecked
  <2> QED
    BY <1>1, <2>1, <2>3 DEF Orderly, Lost
<1>5. \A k \in Jobs : k > j => ~Submitted(k)
  BY <1>2 DEF IInv, SubmissionsInOrder
<1>6. Orderly'
  <2>1. \A k \in Jobs : Submitted(k)' => Recorded(k)' \/ recording' = k
    BY <1>1, <1>2, <1>3 DEF Orderly, Recorded
  <2>2. \A a, b \in Jobs : a < b /\ Submitted(b)' => ~Live(a)'
    BY <1>3, <1>4, <1>5
  <2>3. \A k \in Jobs : slurm'[k] \in {"unsubmitted", "PENDING"} => phase'[k] = "none"
    BY <1>1, <1>2, <1>3 DEF Orderly, Submitted
  <2>4. \A k \in Jobs : handle'[k] # "none" => Submitted(k)'
    BY <1>1, <1>2, <1>3 DEF Orderly
  <2>5. \A k \in Jobs : ~fresh'[k]
    BY <1>1, <1>2, <1>3 DEF Orderly
  <2> QED
    BY <1>2, <2>1, <2>2, <2>3, <2>4, <2>5 DEF Orderly
<1>7. \A k \in Jobs : Newest(k)' => StatusOf(k)'
  <2> SUFFICES ASSUME NEW k \in Jobs, Newest(k)' PROVE StatusOf(k)'
    OBVIOUS
  <2>1. k = j
    <3>1. Submitted(k)' /\ ~(j > k)
      BY <1>2 DEF Newest
    <3> QED
      BY <1>3, <1>5, <3>1
  <2> QED
    BY <1>2, <2>1 DEF StatusOf
<1>8. FailureIsOwn'
  <2> SUFFICES ASSUME NEW k \in Jobs, handle'[k] = "failed",
                      \A m \in Jobs : m > k => ~Submitted(m)'
               PROVE  FALSE
    BY DEF FailureIsOwn
  <2>1. Submitted(k)
    BY <1>1, <1>2 DEF Orderly
  <2> QED
    BY <1>2, <1>5, <2>1
<1> QED
  BY <1>6, <1>7, <1>8 DEF StatusInv

LEMMA RecordStatusInv ==
  ASSUME IInv, StatusInv, NEW j \in Jobs, RecordSiteRun(j)
  PROVE  StatusInv'
<1> USE JobsAreNumbers
<1>1. /\ UNCHANGED <<sweepVars, call>> /\ recording = j /\ recording' = 0
      /\ handle' = [handle EXCEPT ![j] = "open"]
      /\ Submitted(j) /\ version[j] \in Versions /\ Orderly /\ FailureIsOwn
  BY DEF RecordSiteRun, IInv, SubmissionsInOrder, StatusInv
<1>2. \A k : Recorded(k)' <=> (Recorded(k) \/ k = j)
  BY <1>1, WriteKeeps
  DEF RecordSiteRun, IInv, TypeOK, ClientTypeOK, RecordsNameJobs, OneRecordPerJob
<1>3. \A k \in Jobs : handle'[k] = handle[k] \/ (handle'[k] = "open" /\ Submitted(k))
  BY <1>1 DEF IInv, TypeOK, ClientTypeOK
<1>4. Orderly'
  BY <1>1, <1>2, <1>3 DEF Orderly, sweepVars, Submitted, Live
<1>5. FailureIsOwn'
  BY <1>1, <1>3, FailureStays
<1> QED
  BY <1>1, <1>4, <1>5, ClientStatusInv

LEMMA NextStatusInv ==
  ASSUME Undisturbed, IInv, StatusInv, [Next]_vars
  PROVE  StatusInv'
<1>1. Orderly /\ FailureIsOwn
  BY DEF StatusInv
<1>2. CASE Reattach
  BY <1>2, ReattachStatusInv
<1>3. CASE SkipCurrent \/ UNCHANGED vars
  <2>1. UNCHANGED <<sweepVars, call, recording>> /\ records' = records /\ handle' = handle
    BY <1>3 DEF SkipCurrent, vars, clientVars
  <2>2. Orderly' /\ FailureIsOwn'
    BY <1>1, <2>1, OrderlyStays, FailureStays DEF Recorded
  <2> QED
    BY <2>1, <2>2, ClientStatusInv
<1>4. CASE \E force \in {FALSE, Forced} : StageInputs(force)
  <2>1. /\ UNCHANGED <<slurm, version, fresh, phase, task, statusFile, results, current,
                       records, recording, handle>>
        /\ call' = "submit"
    <3>1. Forced = FALSE
      BY ClientAssumption DEF Undisturbed
    <3>2. StageInputs(FALSE)
      BY <1>4, <3>1, Zenon
    <3> QED
      BY <3>2 DEF StageInputs
  <2>2. \A k \in Jobs : /\ Submitted(k)' = Submitted(k) /\ Live(k)' = Live(k)
                        /\ Recorded(k)' = Recorded(k)
    BY <2>1 DEF Submitted, Live, Recorded
  <2>3. Orderly'
    BY <1>1, <2>1, <2>2 DEF Orderly
  <2>4. \A k \in Jobs : /\ Own(k)' = Own(k) /\ StatusOf(k)' = StatusOf(k)
                        /\ Newest(k)' = Newest(k)
    BY <2>1, <2>2 DEF Own, Failures, StatusOf, Newest
  <2>5. FailureIsOwn'
    BY <1>1, <2>1, <2>2 DEF FailureIsOwn, Failures
  <2> QED
    BY <2>3, <2>4, <2>5 DEF StatusInv
<1>5. CASE \E j \in Jobs : SubmitBatch(j)
  BY <1>5, SubmitStatusInv
<1>6. CASE \E j \in Jobs : RecordSiteRun(j)
  BY <1>6, RecordStatusInv
<1>7. CASE \E j \in Jobs : PollTerminal(j)
  BY <1>7, PollStatusInv
<1>8. ASSUME NEW j \in Jobs, WaitTimesOut(j) PROVE StatusInv'
  <2>1. /\ UNCHANGED <<sweepVars, call, recording>> /\ records' = records
        /\ handle' = [handle EXCEPT ![j] = "stopped"] /\ Submitted(j)
    BY <1>1, <1>8 DEF WaitTimesOut, Result, Orderly
  <2>2. \A k \in Jobs : handle'[k] = handle[k] \/ (handle'[k] = "stopped" /\ Submitted(k))
    BY <2>1 DEF IInv, TypeOK, ClientTypeOK
  <2>3. Orderly' /\ FailureIsOwn'
    BY <1>1, <2>1, <2>2, OrderlyStays, FailureStays DEF Recorded
  <2> QED
    BY <2>1, <2>3, ClientStatusInv
<1>9. ASSUME NEW j \in Jobs, Cancel(j) PROVE StatusInv'
  <2>1. StepOf(j) /\ NothingSubmitted
    BY <1>9, KillsAreEnds, StopKeeps DEF Cancel, StepOf, IInv, TypeOK
  <2> QED
    BY <1>9, <2>1, SiteStatusInv DEF Cancel
<1>10. CASE \E v \in Versions : Edit(v)
  <2>1. UNCHANGED <<sweepVars, call, recording>> /\ records' = records /\ handle' = handle
    BY <1>10 DEF Edit
  <2>2. Orderly' /\ FailureIsOwn'
    BY <1>1, <2>1, OrderlyStays, FailureStays DEF Recorded
  <2> QED
    BY <2>1, <2>2, ClientStatusInv
<1>11. ~ClientDies
  BY DEF ClientDies, Undisturbed
<1>12. ASSUME NEW j \in Jobs, Site(j), UNCHANGED clientVars PROVE StatusInv'
  <2>1. Submitted(j) => staged \in Versions
    BY <1>12 DEF IInv, SubmissionsInOrder
  <2>2. StepOf(j) /\ NothingSubmitted
    BY <1>12, <2>1, SiteKeeps DEF StepOf, IInv, TypeOK
  <2> QED
    BY <1>12, <2>2, SiteStatusInv
<1> QED
  BY <1>2, <1>3, <1>4, <1>5, <1>6, <1>7, <1>8, <1>9, <1>10, <1>11, <1>12 DEF Next, Client

\* The newest run of a definition is never blamed for the failure of the one before,
\* though they share scheduler_status.json (_submit_slurm_batch removes it), as long as
\* the job is not edited, forced or abandoned by a client that dies.
THEOREM FailuresAreOwn == Undisturbed => (Spec => []FailureIsOwn)
<1> SUFFICES ASSUME Undisturbed PROVE Spec => []FailureIsOwn
  OBVIOUS
<1>1. IInv /\ StatusInv /\ [Next]_vars => StatusInv'
  BY NextStatusInv
<1>2. StatusInv => FailureIsOwn
  BY DEF StatusInv
<1> QED
  BY <1>1, <1>2, InitStatusInv, Invariance, PTL DEF Spec
-----------------------------------------------------------------------------
(* Whether a success is one: normalize_slurm_state knows all the states    *)
(* that Slurm ends a job with but those of jobs out of memory.             *)

InformedClient == Kills \cap OutOfMemory = {}

\* What may become of a Slurm job: once ended, nothing.
SlurmStep ==
  \A j \in Jobs :
    \/ slurm'[j] = slurm[j]
    \/ /\ slurm[j] \notin Ends
       /\ slurm'[j] \in {"PENDING", "RUNNING", "COMPLETED", "FAILED", "CANCELLED"} \cup Kills

SuccessInv ==
  /\ \A j \in Jobs : slurm[j] \notin OutOfMemory
  /\ SuccessIsReal

LEMMA EndsAreNotLive ==
  /\ "unsubmitted" \notin Ends /\ "PENDING" \notin Ends /\ "RUNNING" \notin Ends
  /\ "COMPLETED" \in Ends
BY DEF Ends, BadEnds, OutOfMemory

LEMMA StopIsStep ==
  ASSUME SweepTypeOK, NEW j \in Jobs, NEW end \in Kills \cup {"CANCELLED"}, Stop(j, end)
  PROVE  SlurmStep
<1>1. slurm[j] \notin Ends /\ slurm' = [slurm EXCEPT ![j] = end]
  BY EndsAreNotLive DEF Stop, Live
<1> QED
  BY <1>1 DEF SlurmStep, SweepTypeOK

LEMMA SiteIsStep ==
  ASSUME SweepTypeOK, NEW j \in Jobs, Site(j)
  PROVE  SlurmStep
<1>1. CASE Dispatch(j)
  BY <1>1, EndsAreNotLive DEF Dispatch, SlurmStep, SweepTypeOK
<1>2. CASE ScriptExits(j)
  <2>1. slurm[j] = "RUNNING" /\ \E end \in {"COMPLETED", "FAILED"} :
                                  slurm' = [slurm EXCEPT ![j] = end]
    BY <1>2 DEF ScriptExits, Running
  <2> QED
    BY <2>1, EndsAreNotLive DEF SlurmStep, SweepTypeOK
<1>3. CASE Kill(j)
  BY <1>3, StopIsStep DEF Kill
<1>4. CASE UNCHANGED slurm
  BY <1>4 DEF SlurmStep
<1> QED
  BY <1>1, <1>2, <1>3, <1>4 DEF Site, Script, PrepareLogs, StartScheduler, TaskStarts,
     TaskEnds, EndSweep, AbortSweep, ScriptFails, ScriptFailsEarly, Heartbeat, Hang

LEMMA SubmitIsStep ==
  ASSUME SweepTypeOK, NEW j \in Jobs, SubmitBatch(j)
  PROVE  SlurmStep
<1>1. slurm[j] = "unsubmitted" /\ slurm' = [slurm EXCEPT ![j] = "PENDING"]
  BY DEF SubmitBatch
<1> QED
  BY <1>1, EndsAreNotLive DEF SlurmStep, SweepTypeOK

LEMMA NextIsStep == IInv /\ [Next]_vars => SlurmStep
<1> SUFFICES ASSUME IInv, [Next]_vars PROVE SlurmStep
  OBVIOUS
<1>1. SweepTypeOK
  BY DEF IInv, TypeOK
<1>2. CASE UNCHANGED slurm
  BY <1>2 DEF SlurmStep
<1>3. ASSUME NEW j \in Jobs, SubmitBatch(j) PROVE SlurmStep
  BY <1>1, <1>3, SubmitIsStep
<1>4. ASSUME NEW j \in Jobs, Cancel(j) PROVE SlurmStep
  BY <1>1, <1>4, StopIsStep DEF Cancel
<1>5. ASSUME NEW j \in Jobs, Site(j) PROVE SlurmStep
  BY <1>1, <1>5, SiteIsStep
<1> QED
  BY <1>2, <1>3, <1>4, <1>5
  DEF Next, Client, vars, sweepVars, Reattach, SkipCurrent, StageInputs, RecordSiteRun,
      PollTerminal, WaitTimesOut, Edit, ClientDies

\* A handle gets its success from a poll that found the job completed.
LEMMA SuccessIsPolled ==
  ASSUME IInv, [Next]_vars, NEW j \in Jobs, handle'[j] = "complete"
  PROVE  handle[j] = "complete" \/ UpdateStatus(j) = "complete"
<1>1. handle \in [Jobs -> {"none", "open", "complete", "failed", "stopped"}]
  BY DEF IInv, TypeOK, ClientTypeOK
<1>2. ASSUME NEW k, NEW result, handle' = [handle EXCEPT ![k] = result], result # "complete"
      PROVE  handle[j] = "complete"
  BY <1>1, <1>2
<1>3. ~ClientDies
  BY DEF ClientDies
<1>4. CASE UNCHANGED handle
  BY <1>4
<1>5. ASSUME Reattach PROVE handle[j] = "complete"
  BY <1>2, <1>5 DEF Reattach
<1>6. ASSUME NEW k \in Jobs, RecordSiteRun(k) PROVE handle[j] = "complete"
  BY <1>2, <1>6 DEF RecordSiteRun
<1>7. ASSUME NEW k \in Jobs, WaitTimesOut(k) PROVE handle[j] = "complete"
  BY <1>2, <1>7 DEF WaitTimesOut, Result
<1>8. ASSUME NEW k \in Jobs, PollTerminal(k) PROVE handle[j] = "complete" \/ UpdateStatus(j) = "complete"
  <2>1. PICK file : handle' = [handle EXCEPT ![k] = Result(PollRun(k, file))]
    BY <1>8 DEF PollTerminal
  <2>2. CASE k # j
    BY <1>1, <2>1, <2>2
  <2>3. CASE k = j
    <3>1. Result(PollRun(j, file)) = "complete"
      BY <1>1, <2>1, <2>3
    <3>2. PollRun(j, file) = "complete"
      BY <3>1 DEF Result
    <3> QED
      BY <3>2 DEF PollRun
  <2> QED
    BY <2>2, <2>3
<1> QED
  BY <1>3, <1>4, <1>5, <1>6, <1>7, <1>8
  DEF Next, Client, vars, clientVars, SkipCurrent, StageInputs, SubmitBatch, Cancel, Edit

\* RunResult.successful says that Slurm completed the job, if Slurm ends no job with a
\* state that normalize_slurm_state does not know: the violation has no other cause.
THEOREM SuccessesAreReal == InformedClient => (Spec => []SuccessIsReal)
<1> SUFFICES ASSUME InformedClient PROVE Spec => []SuccessIsReal
  OBVIOUS
<1>1. Init => SuccessInv
  BY DEF Init, SweepInit, SuccessInv, SuccessIsReal, OutOfMemory
<1>2. ASSUME IInv, SuccessInv, [Next]_vars PROVE SuccessInv'
  <2>1. SlurmStep
    BY <1>2, NextIsStep
  <2>2. ASSUME NEW j \in Jobs PROVE slurm'[j] \notin OutOfMemory
    <3>1. slurm[j] \notin OutOfMemory
      BY <1>2 DEF SuccessInv
    <3>2. \/ slurm'[j] = slurm[j]
          \/ slurm'[j] \in {"PENDING", "RUNNING", "COMPLETED", "FAILED", "CANCELLED"}
          \/ slurm'[j] \in Kills
      BY <2>1 DEF SlurmStep
    <3>3. {"PENDING", "RUNNING", "COMPLETED", "FAILED", "CANCELLED"} \cap OutOfMemory = {}
      BY DEF OutOfMemory
    <3> QED
      BY <3>1, <3>2, <3>3 DEF InformedClient
  <2>3. ASSUME NEW j \in Jobs, handle'[j] = "complete" PROVE slurm'[j] = "COMPLETED"
    <3>1. slurm[j] \notin OutOfMemory
      BY <1>2 DEF SuccessInv
    <3>2. UpdateStatus(j) = "complete" => slurm[j] = "COMPLETED"
      BY <3>1 DEF UpdateStatus, OutOfMemory
    <3>3. slurm[j] = "COMPLETED"
      BY <1>2, <2>3, <3>2, SuccessIsPolled DEF SuccessInv, SuccessIsReal
    <3> QED
      BY <2>1, <3>3, EndsAreNotLive DEF SlurmStep
  <2> QED
    BY <2>2, <2>3 DEF SuccessInv, SuccessIsReal
<1>3. SuccessInv => SuccessIsReal
  BY DEF SuccessInv
<1> QED
  BY <1>1, <1>2, <1>3, Invariance, PTL DEF Spec
=============================================================================
