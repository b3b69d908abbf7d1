---------------------------- MODULE FwiRunProofs ----------------------------
(***************************************************************************)
(* What holds of every checkpointed inversion, for every number of stages, *)
(* budget, layout, descent and interruption.                               *)
(***************************************************************************)
EXTENDS FwiRunProps, SequenceTheorems, TLAPS

-----------------------------------------------------------------------------
(* The inductive invariant                                                 *)

InCall == call.pc # "idle"
Complete == PlannedStage = N

\* An open call has an open history, on disk from the first linearization on; a
\* final history belongs to a checkpoint after which nothing is left to do.
HistoryOfCall ==
  /\ InCall => memory.status = "running" /\ call.outcome = "none"
  /\ call.pc \notin {"idle", "linearize"} => history = memory
  /\ checkpoint.exists /\ (history.status = "converged" \/ memory.status = "converged")
       => Complete

\* The state file is the model of the checkpoint, but while the next is written.
StateOfCheckpoint ==
  /\ call.pc = "written" => state = [status |-> "saved", model |-> call.model,
                                     layout |-> Layout(call.stage)]
  /\ checkpoint.exists /\ ~torn /\ call.pc \notin {"truncated", "written"} =>
       state = [status |-> "saved", model |-> checkpoint.model,
                layout |-> Layout(checkpoint.stage)]
  /\ call.checks => call.pc = "linearize" /\ (~torn => call.model = checkpoint.model)

\* A model has been moved within the stages begun, by what the iteration says.
StepsMatch(model, stage, iteration) ==
  /\ model.steps[stage] = iteration
  /\ \A i \in Stages : model.steps[i] <= Budget /\ (i > stage => model.steps[i] = 0)
StepsInv ==
  ~torn => /\ checkpoint.exists => StepsMatch(checkpoint.model, checkpoint.stage,
                                              checkpoint.iteration)
           /\ InCall => StepsMatch(call.model, call.stage, call.iteration)

\* The stages before the present one are over, and that one if it says so.
Over(model, i) == <<model.descent, i>> \in ended \/ model.steps[i] = Budget
OverUpTo(model, stage, completed) ==
  /\ \A i \in Stages : i < stage => Over(model, i)
  /\ completed => Over(model, stage)
Completing == call.then = "next" /\ call.pc \in {"save", "truncated", "written", "next"}
StagesInv ==
  /\ call.pc = "linearize" => call.then = "first"
  /\ call.pc = "next" => /\ checkpoint.exists /\ checkpoint.completed
                         /\ checkpoint.stage = call.stage
                         /\ call.then = "next"
  /\ ~torn => /\ checkpoint.exists => OverUpTo(checkpoint.model, checkpoint.stage,
                                               checkpoint.completed)
              /\ InCall => OverUpTo(call.model, call.stage, Completing)

\* Neither the plan nor the history is refused but after a torn save.
PlanRefusedTorn == call.outcome = "rejected" => torn

IInv == /\ TypeOK /\ HistoryOfCall /\ StateOfCheckpoint /\ StepsInv /\ StagesInv
        /\ PlanRefusedTorn /\ DoneIsDone

-----------------------------------------------------------------------------
(* Helpers                                                                 *)

LEMMA StageZero == 0 \in Stages /\ N - 1 \in Stages
BY FwiAssumption DEF Stages

\* The model a descent starts with, and one more iterate of a stage, are models.
LEMMA StartType ==
  ASSUME NEW d \in 0 .. MaxDescents
  PROVE  Start(d) \in Models
BY DEF Start, Models

LEMMA StepType ==
  ASSUME NEW m \in Models, NEW i \in Stages
  PROVE  [m EXCEPT !.steps[i] = @ + 1] \in Models
BY DEF Models

\* Recording, finishing and stopping make histories of histories.
LEMMA HistoryTypes ==
  ASSUME NEW h \in Histories
  PROVE  /\ NewHistory \in Histories /\ NoHistory \in Histories
         /\ \A r \in [layout : Layouts, model : Models] : RecordIteration(h, r) \in Histories
         /\ \A s \in {"running", "stopped", "converged"} : Finished(h, s) \in Histories
         /\ Stopped(h) \in Histories
<1> DEFINE Records == [layout : Layouts, model : Models]
<1>1. NewHistory \in Histories /\ NoHistory \in Histories
      BY DEF NewHistory, NoHistory, Histories
<1>2. ASSUME NEW r \in Records PROVE RecordIteration(h, r) \in Histories
  <2>1. h.records \in Seq(Records) /\ h.status \in {"none", "running", "stopped", "converged"}
        BY DEF Histories
  <2>2. Append(h.records, r) \in Seq(Records)
        BY <1>2, <2>1 DEF Records
  <2> HIDE DEF Records
  <2>3. [h EXCEPT !.records = Append(h.records, r)] \in
          [status : {"none", "running", "stopped", "converged"}, records : Seq(Records)]
        BY <2>2 DEF Histories, Records
  <2> QED BY <2>3 DEF RecordIteration, Histories, Records
<1>3. ASSUME NEW s \in {"running", "stopped", "converged"} PROVE Finished(h, s) \in Histories
      BY DEF Finished, Histories
<1> QED BY <1>1, <1>2, <1>3 DEF Stopped

LEMMA RecordKeepsStatus ==
  ASSUME NEW h \in Histories, NEW r \in [layout : Layouts, model : Models]
  PROVE  RecordIteration(h, r).status = h.status
BY DEF Histories, RecordIteration

\* The history a call opens is that of the process or of the disk, or a new one.
LEMMA OpenType ==
  ASSUME TypeOK
  PROVE  Open \in Histories /\ (Open.status = "converged" =>
           history.status = "converged" \/ memory.status = "converged")
BY HistoryTypes DEF Open, TypeOK, NewHistory, Histories

\* A call that returns is idle and holds its outcome.
LEMMA ReturnType ==
  ASSUME NEW m \in Models, NEW o \in {"done", "raised", "killed", "rejected", "mismatched"},
         Return(o, m)
  PROVE  /\ call' \in Calls
         /\ call'.pc = "idle" /\ call'.outcome = o /\ call'.model = m
         /\ call'.stage = 0 /\ call'.iteration = 0 /\ call'.then = "first"
         /\ ~call'.checks
<1>1. 0 \in Stages /\ 0 \in 0 .. Budget /\ Start(0) \in Models
      BY StageZero, StartType, FwiAssumption
<1> QED BY <1>1 DEF Return, Idle, Calls

\* The plan: the stage to resume exists, the model on disk has been moved by the
\* iteration to resume from, and the stages before are over.
LEMMA PlanType ==
  ASSUME TypeOK, PlannedStage < N
  PROVE  PlannedStage \in Stages /\ PlannedIteration \in 0 .. Budget
BY FwiAssumption DEF TypeOK, PlannedStage, PlannedIteration, Stages

LEMMA PlanSteps ==
  ASSUME TypeOK, PlannedStage < N,
         StepsMatch(checkpoint.model, checkpoint.stage, checkpoint.iteration)
  PROVE  StepsMatch(checkpoint.model, PlannedStage, PlannedIteration)
<1>1. PlannedStage \in Stages
      BY PlanType
<1>2. checkpoint.stage \in Stages
      BY DEF TypeOK
<1> QED BY <1>1, <1>2 DEF StepsMatch, PlannedStage, PlannedIteration, Stages

LEMMA PlanOver ==
  ASSUME TypeOK,
         StepsMatch(checkpoint.model, checkpoint.stage, checkpoint.iteration),
         OverUpTo(checkpoint.model, checkpoint.stage, checkpoint.completed)
  PROVE  \A i \in Stages : i < PlannedStage => Over(checkpoint.model, i)
<1>1. checkpoint.stage \in Stages /\ checkpoint.iteration \in 0 .. Budget
      BY DEF TypeOK
<1>2. CASE StageOver
  <2>1. Over(checkpoint.model, checkpoint.stage)
        BY <1>1, <1>2, FwiAssumption DEF StageOver, OverUpTo, Over, StepsMatch
  <2> QED BY <1>1, <1>2, <2>1 DEF PlannedStage, OverUpTo, Stages
<1>3. CASE ~StageOver
      BY <1>3 DEF PlannedStage, OverUpTo
<1> QED BY <1>2, <1>3

LEMMA InitIInv == Init => IInv
<1> SUFFICES ASSUME Init PROVE IInv
    OBVIOUS
<1>1. TypeOK
  <2>1. 0 \in Stages /\ 0 \in 0 .. Budget /\ 0 \in 0 .. MaxDescents /\ 0 \in 0 .. MaxFaults
        BY StageZero, FwiAssumption
  <2>2. Start(0) \in Models /\ Layout(0) \in Layouts
        BY <2>1, StartType DEF Layouts
  <2>3. NoHistory \in Histories
        BY DEF NoHistory, Histories
  <2> QED BY <2>1, <2>2, <2>3 DEF Init, TypeOK, Idle, Calls
<1>2. HistoryOfCall /\ StateOfCheckpoint /\ StepsInv /\ StagesInv
      BY DEF Init, HistoryOfCall, StateOfCheckpoint, StepsInv, StagesInv, InCall, Idle,
             NoHistory
<1>3. PlanRefusedTorn /\ DoneIsDone
      BY DEF Init, PlanRefusedTorn, DoneIsDone, Idle
<1> QED BY <1>1, <1>2, <1>3 DEF IInv

-----------------------------------------------------------------------------
(* One lemma per action                                                    *)

LEMMA BeginIInv ==
  ASSUME IInv, NEW resume \in BOOLEAN, Begin(resume)
  PROVE  IInv'
<1>1. TypeOK
      BY DEF IInv
<1>2. 0 \in Stages /\ 0 \in 0 .. Budget /\ descents + 1 \in 0 .. MaxDescents
      BY <1>1, StageZero, FwiAssumption DEF Begin, TypeOK
<1>3. Start(descents + 1) \in Models
      BY <1>2, StartType
<1>4. call' \in Calls
      BY <1>2, <1>3 DEF Begin, Idle, Calls
<1>5. memory' \in Histories
      BY <1>1, HistoryTypes DEF Begin, TypeOK
<1>6. TypeOK'
      BY <1>1, <1>2, <1>4, <1>5 DEF TypeOK, Begin, files
<1>7. HistoryOfCall'
      BY DEF IInv, HistoryOfCall, Begin, files, Idle, InCall, NewHistory, Complete,
             PlannedStage, StageOver
<1>8. StateOfCheckpoint'
      BY DEF IInv, StateOfCheckpoint, Begin, files, Idle
<1>9. call'.model = Start(descents + 1) /\ call'.stage = 0 /\ call'.iteration = 0
      /\ call'.then = "first" /\ call'.pc = "linearize"
      BY DEF Begin, Idle
<1>10. StepsMatch(Start(descents + 1), 0, 0)
      BY <1>2, FwiAssumption DEF StepsMatch, Start
<1>11. StepsInv'
      BY <1>9, <1>10 DEF IInv, StepsInv, StepsMatch, Begin, files, InCall
<1>12. StagesInv'
  <2>1. checkpoint' = checkpoint /\ ended' = ended /\ torn' = torn
        BY DEF Begin, files
  <2>2. \A i \in Stages : ~(i < 0)
        BY DEF Stages
  <2> QED BY <1>9, <2>1, <2>2 DEF IInv, StagesInv, OverUpTo, Over, Completing, InCall
<1>13. PlanRefusedTorn' /\ DoneIsDone'
      BY DEF PlanRefusedTorn, DoneIsDone, Begin, Idle
<1> QED BY <1>6, <1>7, <1>8, <1>11, <1>12, <1>13 DEF IInv

LEMMA ResumeIInv ==
  ASSUME IInv, Resume
  PROVE  IInv'
<1> USE DEF Resume
<1>1. TypeOK /\ PlannedStage < N
      BY DEF IInv
<1>2. PlannedStage \in Stages /\ PlannedIteration \in 0 .. Budget
      BY <1>1, PlanType
<1>3. Open \in Histories
      BY <1>1, OpenType
<1>4. state.model \in Models
      BY <1>1 DEF TypeOK
<1>5. call' \in Calls
  <2> DEFINE Resumed(checks) ==
        [pc |-> "linearize", stage |-> PlannedStage, iteration |-> PlannedIteration,
         checks |-> checks, model |-> state.model, masks |-> {}, then |-> "first",
         ok |-> TRUE, outcome |-> "none"]
  <2>1. call' = Resumed(PlannedIteration > 0)
        BY DEF Idle
  <2>2. \A checks \in BOOLEAN : Resumed(checks) \in Calls
        BY <1>2, <1>4 DEF Calls
  <2> HIDE DEF Resumed
  <2>3. (PlannedIteration > 0) \in BOOLEAN
        OBVIOUS
  <2> QED BY <2>1, <2>2, <2>3, Zenon
<1>6. memory' \in Histories /\ memory'.status = "running"
  <2>1. [Open EXCEPT !.status = "running"] \in Histories
        BY <1>3, HistoryTypes DEF Finished
  <2>2. [Open EXCEPT !.status = "running"].status = "running"
        BY <1>3 DEF Histories
  <2> QED BY <1>3, <2>1, <2>2 DEF Saved
<1>7. history' \in Histories /\ (history'.status = "converged" => history' = history)
      BY <1>1, <1>6 DEF Saved, TypeOK
<1>8. call'.pc = "linearize" /\ call'.stage = PlannedStage
      /\ call'.iteration = PlannedIteration /\ call'.model = state.model
      /\ call'.then = "first" /\ call'.outcome = "none"
      BY DEF Idle
<1>9. checkpoint' = checkpoint /\ state' = state /\ ended' = ended /\ torn' = torn
      BY DEF counters
<1>10. TypeOK'
      BY <1>1, <1>5, <1>6, <1>7, <1>9 DEF TypeOK, counters
<1>11. HistoryOfCall'
      BY <1>6, <1>7, <1>8, <1>9
      DEF IInv, HistoryOfCall, InCall, Complete, PlannedStage, StageOver
<1>12. ~torn => state.model = checkpoint.model
      BY DEF IInv, StateOfCheckpoint
<1>13. StateOfCheckpoint'
      BY <1>8, <1>9, <1>12 DEF IInv, StateOfCheckpoint
<1>14. StepsInv'
      BY <1>1, <1>8, <1>9, <1>12, PlanSteps DEF IInv, StepsInv, StepsMatch, InCall
<1>15. StagesInv'
  <2>1. ~torn => \A i \in Stages : i < PlannedStage => Over(checkpoint.model, i)
        BY <1>1, PlanOver DEF IInv, StepsInv, StagesInv
  <2> QED BY <1>8, <1>9, <1>12, <2>1 DEF IInv, StagesInv, OverUpTo, Over, Completing, InCall
<1>16. PlanRefusedTorn' /\ DoneIsDone'
      BY <1>8 DEF PlanRefusedTorn, DoneIsDone
<1> QED BY <1>10, <1>11, <1>13, <1>14, <1>15, <1>16 DEF IInv

\* A call that returns, or is interrupted outside a save, leaves an idle call and
\* the invariants of the files.
LEMMA ReturnIInv ==
  ASSUME IInv, NEW m \in Models,
         NEW o \in {"done", "raised", "killed", "rejected", "mismatched"}, Return(o, m),
         torn => torn', call.pc \in {"truncated", "written"} => torn',
         torn' \in BOOLEAN, faults' \in 0 .. MaxFaults,
         UNCHANGED <<checkpoint, state, ended, descents>>,
         history' \in Histories, memory' \in Histories,
         checkpoint.exists =>
           \/ {history'.status, memory'.status} \subseteq
                {history.status, memory.status, "none", "running", "stopped"}
           \/ Complete,
         o = "rejected" => torn',
         o = "done" /\ ~torn' => \A i \in Stages : Over(m, i)
  PROVE  IInv'
<1>1. /\ call' \in Calls /\ call'.pc = "idle" /\ call'.outcome = o /\ call'.model = m
      /\ ~call'.checks
      BY ReturnType
<1>2. TypeOK'
      BY <1>1 DEF IInv, TypeOK
<1>3. HistoryOfCall'
      BY <1>1 DEF IInv, HistoryOfCall, InCall, Complete, PlannedStage, StageOver
<1>4. ~torn' => ~torn /\ call.pc \notin {"truncated", "written"}
      BY DEF IInv, TypeOK
<1>5. StateOfCheckpoint'
      BY <1>1, <1>4 DEF IInv, StateOfCheckpoint
<1>6. StepsInv'
      BY <1>1, <1>4 DEF IInv, StepsInv, StepsMatch, InCall
<1>7. StagesInv'
      BY <1>1, <1>4 DEF IInv, StagesInv, OverUpTo, Over, InCall
<1>8. PlanRefusedTorn' /\ DoneIsDone'
      BY <1>1 DEF PlanRefusedTorn, DoneIsDone, Over
<1> QED BY <1>2, <1>3, <1>5, <1>6, <1>7, <1>8 DEF IInv

LEMMA SkipIInv ==
  ASSUME IInv, Skip
  PROVE  IInv'
<1>1. TypeOK /\ Complete /\ state.model \in Models
      BY DEF IInv, Skip, Complete, TypeOK
<1>2. history' \in Histories /\ memory' \in Histories
      BY <1>1, OpenType, HistoryTypes DEF Skip, Saved, TypeOK
<1>3. ~torn => \A i \in Stages : Over(state.model, i)
  <2>1. ~torn => state.model = checkpoint.model
        BY DEF IInv, StateOfCheckpoint, Skip
  <2>2. ~torn => \A i \in Stages : i < PlannedStage => Over(checkpoint.model, i)
        BY <1>1, PlanOver DEF IInv, StepsInv, StagesInv, Skip
  <2> QED BY <1>1, <2>1, <2>2, FwiAssumption DEF Complete, Stages
<1> QED BY <1>1, <1>2, <1>3, ReturnIInv DEF Skip, counters, TypeOK

LEMMA RejectPlanIInv ==
  ASSUME IInv, RejectPlan
  PROVE  IInv'
<1>1. TypeOK
      BY DEF IInv
<1>2. torn
  <2>1. CASE ~Loadable
        BY <2>1 DEF IInv, StateOfCheckpoint, RejectPlan, Loadable
  <2>2. CASE PlannedStage < N /\ Open.status = "converged"
        BY <1>1, <2>2, OpenType, FwiAssumption DEF IInv, HistoryOfCall, RejectPlan, Complete
  <2> QED BY <2>1, <2>2 DEF RejectPlan
<1>3. Start(0) \in Models
      BY StartType, FwiAssumption
<1> QED BY <1>1, <1>2, <1>3, ReturnIInv DEF RejectPlan, files, counters, TypeOK

LEMMA LinearizeIInv ==
  ASSUME IInv, Linearize
  PROVE  IInv'
<1>1. TypeOK /\ memory.status = "running"
      BY DEF IInv, HistoryOfCall, InCall, Linearize
<1>m. PICK masks \in Measured :
        call' = [call EXCEPT !.pc = "save", !.checks = FALSE, !.masks = masks]
      BY Zenon DEF Linearize
<1>n. masks \in SUBSET Dofs
      BY DEF Measured, Free
<1>2. /\ call' \in Calls
      /\ call'.pc = "save" /\ call'.stage = call.stage /\ call'.iteration = call.iteration
      /\ ~call'.checks /\ call'.model = call.model /\ call'.then = call.then
      /\ call'.outcome = call.outcome
      BY <1>1, <1>m, <1>n DEF TypeOK, Calls
<1>3. TypeOK'
      BY <1>1, <1>2 DEF TypeOK, Linearize, Saved, counters
<1>4. HistoryOfCall'
      BY <1>1, <1>2 DEF IInv, HistoryOfCall, InCall, Linearize, Saved
<1>5. StateOfCheckpoint' /\ StepsInv'
      BY <1>2 DEF IInv, StateOfCheckpoint, StepsInv, StepsMatch, InCall, Linearize, counters
<1>6. StagesInv'
      BY <1>2 DEF IInv, StagesInv, OverUpTo, Over, Completing, InCall, Linearize, counters
<1>7. PlanRefusedTorn' /\ DoneIsDone'
      BY <1>2 DEF IInv, HistoryOfCall, InCall, Linearize, PlanRefusedTorn, DoneIsDone
<1> QED BY <1>3, <1>4, <1>5, <1>6, <1>7 DEF IInv

LEMMA RejectModelIInv ==
  ASSUME IInv, RejectModel
  PROVE  IInv'
<1>1. TypeOK
      BY DEF IInv
<1>2. Start(0) \in Models
      BY StartType, FwiAssumption
<1>3. Stopped(memory) \in Histories /\ Stopped(memory).status \in {memory.status, "stopped"}
      BY <1>1, HistoryTypes DEF TypeOK, Stopped, Finished, Histories
<1> QED BY <1>1, <1>2, <1>3, ReturnIInv DEF RejectModel, Saved, counters, TypeOK

LEMMA SaveIInv ==
  ASSUME IInv, TruncateState \/ WriteState \/ WriteCheckpoint
  PROVE  IInv'
<1>1. TypeOK'
  <2>1. CASE TruncateState
        BY <2>1 DEF IInv, TypeOK, Calls, TruncateState, counters
  <2>2. CASE WriteState
        BY <2>2 DEF IInv, TypeOK, Calls, Layouts, WriteState, counters
  <2>3. CASE WriteCheckpoint
        BY <2>3 DEF IInv, TypeOK, Calls, WriteCheckpoint, counters
  <2> QED BY <2>1, <2>2, <2>3
<1>2. TypeOK
      BY DEF IInv
<1>3. HistoryOfCall'
  <2>1. CASE TruncateState
        BY <1>2, <2>1 DEF IInv, TypeOK, Calls, HistoryOfCall, InCall, Complete, PlannedStage,
           StageOver, StagesInv, Completing, TruncateState, counters
  <2>2. CASE WriteState
        BY <1>2, <2>2 DEF IInv, TypeOK, Calls, HistoryOfCall, InCall, Complete, PlannedStage,
           StageOver, StagesInv, Completing, WriteState, counters
  <2>3. CASE WriteCheckpoint
        BY <1>2, <2>3 DEF IInv, TypeOK, Calls, HistoryOfCall, InCall, Complete, PlannedStage,
           StageOver, StagesInv, Completing, WriteCheckpoint, counters
  <2> QED BY <2>1, <2>2, <2>3
<1>4. StateOfCheckpoint'
  <2>1. CASE TruncateState
        BY <1>2, <2>1 DEF IInv, TypeOK, Calls, StateOfCheckpoint, TruncateState, counters
  <2>2. CASE WriteState
        BY <1>2, <2>2 DEF IInv, TypeOK, Calls, StateOfCheckpoint, WriteState, counters
  <2>3. CASE WriteCheckpoint
        BY <1>2, <2>3 DEF IInv, TypeOK, Calls, StateOfCheckpoint, WriteCheckpoint, counters
  <2> QED BY <2>1, <2>2, <2>3
<1>5. StepsInv'
  <2>1. CASE TruncateState
        BY <1>2, <2>1 DEF IInv, TypeOK, Calls, StepsInv, StepsMatch, InCall, TruncateState, counters
  <2>2. CASE WriteState
        BY <1>2, <2>2 DEF IInv, TypeOK, Calls, StepsInv, StepsMatch, InCall, WriteState, counters
  <2>3. CASE WriteCheckpoint
        BY <1>2, <2>3 DEF IInv, TypeOK, Calls, StepsInv, StepsMatch, InCall, WriteCheckpoint, counters
  <2> QED BY <2>1, <2>2, <2>3
<1>6. StagesInv'
  <2>1. CASE TruncateState
        BY <1>2, <2>1 DEF IInv, TypeOK, Calls, StagesInv, OverUpTo, Over, Completing,
           InCall, TruncateState, counters
  <2>2. CASE WriteState
        BY <1>2, <2>2 DEF IInv, TypeOK, Calls, StagesInv, OverUpTo, Over, Completing,
           InCall, WriteState, counters
  <2>3. CASE WriteCheckpoint
        BY <1>2, <2>3 DEF IInv, TypeOK, Calls, StagesInv, OverUpTo, Over, Completing,
           InCall, WriteCheckpoint, counters
  <2> QED BY <2>1, <2>2, <2>3
<1>7. PlanRefusedTorn' /\ DoneIsDone'
      BY <1>2 DEF IInv, HistoryOfCall, InCall, PlanRefusedTorn, DoneIsDone, TypeOK, Calls,
         TruncateState, WriteState, WriteCheckpoint, counters
<1> QED BY <1>1, <1>3, <1>4, <1>5, <1>6, <1>7 DEF IInv

\* An iterate, the first model included, is recorded within the budget.
LEMMA RecordIInv ==
  ASSUME IInv, call.pc \in {"first", "solve"},
         NEW m \in Models, NEW k \in 0 .. Budget, Record(m, k),
         ~torn => StepsMatch(m, call.stage, k) /\ OverUpTo(m, call.stage, FALSE)
  PROVE  IInv'
<1>1. TypeOK /\ memory.status = "running" /\ call.stage \in Stages
      BY DEF IInv, HistoryOfCall, InCall, TypeOK, Calls
<1>2. /\ call' \in Calls
      /\ call'.pc = "save" /\ call'.stage = call.stage /\ call'.iteration = k
      /\ call'.checks = call.checks /\ call'.model = m /\ call'.then = "solve"
      /\ call'.outcome = call.outcome
      BY <1>1 DEF Record, TypeOK, Calls
<1>3. [layout |-> Layout(call.stage), model |-> m] \in [layout : Layouts, model : Models]
      BY <1>1 DEF Layouts
<1>4. memory' \in Histories /\ memory'.status = "running" /\ history' = memory'
      BY <1>1, <1>3, HistoryTypes, RecordKeepsStatus DEF Record, Saved, TypeOK
<1>5. checkpoint' = checkpoint /\ state' = state /\ ended' = ended /\ torn' = torn
      BY DEF Record, counters
<1>6. TypeOK'
      BY <1>1, <1>2, <1>4, <1>5 DEF TypeOK, Record, counters
<1>7. HistoryOfCall'
      BY <1>2, <1>4 DEF IInv, HistoryOfCall, InCall
<1>8. StateOfCheckpoint' /\ StepsInv'
      BY <1>2, <1>5 DEF IInv, StateOfCheckpoint, StepsInv, StepsMatch, InCall
<1>9. StagesInv'
      BY <1>2, <1>5 DEF IInv, StagesInv, OverUpTo, Over, Completing, InCall
<1>10. PlanRefusedTorn' /\ DoneIsDone'
      BY <1>2 DEF IInv, HistoryOfCall, InCall, PlanRefusedTorn, DoneIsDone
<1> QED BY <1>6, <1>7, <1>8, <1>9, <1>10 DEF IInv

LEMMA FirstIterateIInv ==
  ASSUME IInv, FirstIterate
  PROVE  IInv'
<1>1. call.model \in Models /\ call.iteration \in 0 .. Budget
      BY DEF IInv, TypeOK, Calls
<1>2. ~torn => StepsMatch(call.model, call.stage, call.iteration)
               /\ OverUpTo(call.model, call.stage, FALSE)
      BY DEF IInv, StepsInv, StagesInv, OverUpTo, InCall, FirstIterate
<1> QED BY <1>1, <1>2, RecordIInv DEF FirstIterate

LEMMA AcceptIInv ==
  ASSUME IInv, Accept
  PROVE  IInv'
<1> DEFINE m == [call.model EXCEPT !.steps[call.stage] = @ + 1]
<1>1. call.model \in Models /\ call.stage \in Stages /\ call.iteration + 1 \in 0 .. Budget
      BY FwiAssumption DEF IInv, TypeOK, Calls, Accept
<1>2. m \in Models
      BY <1>1, StepType
<1>3. /\ m.descent = call.model.descent
      /\ m.steps[call.stage] = call.model.steps[call.stage] + 1
      /\ \A i \in Stages : i # call.stage => m.steps[i] = call.model.steps[i]
      BY <1>1 DEF Models
<1>4. ~torn => StepsMatch(call.model, call.stage, call.iteration)
               /\ OverUpTo(call.model, call.stage, FALSE)
      BY DEF IInv, StepsInv, StagesInv, OverUpTo, InCall, Accept
<1>5. ~torn => StepsMatch(m, call.stage, call.iteration + 1)
      BY <1>1, <1>3, <1>4, FwiAssumption DEF StepsMatch, Stages
<1>6. ~torn => OverUpTo(m, call.stage, FALSE)
      BY <1>1, <1>3, <1>4 DEF OverUpTo, Over, Stages
<1>7. Record(m, call.iteration + 1)
      BY DEF Accept
<1> HIDE DEF m
<1> QED BY <1>1, <1>2, <1>5, <1>6, <1>7, RecordIInv DEF Accept

LEMMA EndStageIInv ==
  ASSUME IInv, NEW ok \in BOOLEAN, EndStage(ok)
  PROVE  IInv'
<1>1. TypeOK /\ call.model.descent \in 0 .. MaxDescents /\ call.stage \in Stages
      BY DEF IInv, TypeOK, Calls, Models
<1>2. /\ call'.pc = "save" /\ call'.stage = call.stage /\ call'.iteration = call.iteration
      /\ call'.checks = call.checks /\ call'.model = call.model /\ call'.then = "next"
      /\ call'.outcome = call.outcome
      BY <1>1 DEF EndStage, TypeOK, Calls
<1>3. call' \in Calls
  <2>1. PICK b \in BOOLEAN : call' = [call EXCEPT !.pc = "save", !.then = "next", !.ok = b]
    <3>1. call' = [call EXCEPT !.pc = "save", !.then = "next", !.ok = call.ok /\ ok]
          BY DEF EndStage
    <3> QED BY <3>1, Zenon
  <2> QED BY <1>1, <2>1 DEF TypeOK, Calls
<1>4. ended' = ended \cup {<<call.model.descent, call.stage>>}
      BY DEF EndStage
<1>5. checkpoint' = checkpoint /\ state' = state /\ history' = history
      /\ memory' = memory /\ torn' = torn
      BY DEF EndStage, files
<1>6. TypeOK'
      BY <1>1, <1>3, <1>4, <1>5 DEF TypeOK, EndStage
<1>7. HistoryOfCall' /\ StateOfCheckpoint' /\ StepsInv'
      BY <1>2, <1>5 DEF IInv, HistoryOfCall, StateOfCheckpoint, StepsInv, StepsMatch, InCall,
         Complete, PlannedStage, StageOver, EndStage
<1>9. StagesInv'
      BY <1>2, <1>4, <1>5 DEF IInv, StagesInv, OverUpTo, Over, Completing, InCall, EndStage
<1>10. PlanRefusedTorn' /\ DoneIsDone'
      BY <1>2 DEF IInv, HistoryOfCall, InCall, EndStage, PlanRefusedTorn, DoneIsDone
<1> QED BY <1>6, <1>7, <1>9, <1>10 DEF IInv

LEMMA NextStageIInv ==
  ASSUME IInv, NextStage
  PROVE  IInv'
<1>1. TypeOK /\ call.stage \in Stages /\ call.stage + 1 \in Stages
      BY FwiAssumption DEF IInv, TypeOK, Calls, NextStage, Stages
<1>2. /\ call'.pc = "linearize" /\ call'.stage = call.stage + 1 /\ call'.iteration = 0
      /\ call'.checks = call.checks /\ call'.model = call.model /\ call'.then = "first"
      /\ call'.outcome = call.outcome
      BY <1>1 DEF NextStage, TypeOK, Calls
<1>3. call' \in Calls
  <2>1. call \in Calls /\ 0 \in 0 .. Budget
        BY <1>1, FwiAssumption DEF TypeOK
  <2>2. call' = [call EXCEPT !.pc = "linearize", !.stage = call.stage + 1, !.iteration = 0,
                             !.masks = {}, !.then = "first"]
        BY DEF NextStage
  <2>3. {} \in SUBSET Dofs
        OBVIOUS
  <2> DEFINE i == call.stage + 1
  <2>4. call' = [call EXCEPT !.pc = "linearize", !.stage = i, !.iteration = 0,
                             !.masks = {}, !.then = "first"] /\ i \in Stages
        BY <1>1, <2>2
  <2> HIDE DEF i
  <2> QED BY <2>1, <2>3, <2>4 DEF Calls
<1>4. UNCHANGED <<checkpoint, state, history, memory, ended, torn>>
      BY DEF NextStage, files, counters
<1>5. TypeOK'
      BY <1>1, <1>3, <1>4 DEF TypeOK, NextStage, counters
<1>6. HistoryOfCall' /\ StateOfCheckpoint'
      BY <1>2, <1>4 DEF IInv, HistoryOfCall, StateOfCheckpoint, InCall, Complete,
         PlannedStage, StageOver, NextStage
<1>7. StepsInv'
      BY <1>1, <1>2, <1>4 DEF IInv, StepsInv, StepsMatch, InCall, NextStage, Stages
<1>8. StagesInv'
  <2>1. ~torn => \A i \in Stages : i < call.stage + 1 => Over(call.model, i)
        BY <1>1 DEF IInv, StagesInv, OverUpTo, Completing, InCall, NextStage, Stages
  <2> QED BY <1>2, <1>4, <2>1 DEF IInv, StagesInv, OverUpTo, Over, Completing, InCall
<1>9. PlanRefusedTorn' /\ DoneIsDone'
      BY <1>2 DEF IInv, HistoryOfCall, InCall, NextStage, PlanRefusedTorn, DoneIsDone
<1> QED BY <1>5, <1>6, <1>7, <1>8, <1>9 DEF IInv

LEMMA FinishIInv ==
  ASSUME IInv, Finish
  PROVE  IInv'
<1>1. TypeOK /\ call.model \in Models /\ call.stage \in Stages
      BY DEF IInv, TypeOK, Calls
<1>2. history' \in Histories /\ memory' \in Histories
      BY <1>1, HistoryTypes DEF Finish, Saved, TypeOK
<1>3. checkpoint.exists => Complete
      BY <1>1 DEF IInv, StagesInv, Finish, Complete, PlannedStage, StageOver
<1>4. ~torn => \A i \in Stages : Over(call.model, i)
      BY <1>1, FwiAssumption
      DEF IInv, StagesInv, OverUpTo, Completing, InCall, Finish, Stages
<1> QED BY <1>1, <1>2, <1>3, <1>4, ReturnIInv DEF Finish, counters, TypeOK

LEMMA InterruptIInv ==
  ASSUME IInv, Raise \/ Kill
  PROVE  IInv'
<1>1. TypeOK /\ Start(0) \in Models
      BY StartType, FwiAssumption DEF IInv
<1>2. /\ torn => torn'
      /\ call.pc \in {"truncated", "written"} => torn'
      /\ torn' \in BOOLEAN
      BY <1>1 DEF Raise, Kill, Interrupt, TypeOK
<1>3. faults' \in 0 .. MaxFaults
      BY <1>1, FwiAssumption DEF Raise, Kill, Interrupt, TypeOK
<1>4. CASE Raise
  <2>1. Stopped(memory) \in Histories /\ Stopped(memory).status \in {memory.status, "stopped"}
        BY <1>1, HistoryTypes DEF TypeOK, Stopped, Finished, Histories
  <2> QED BY <1>1, <1>2, <1>3, <1>4, <2>1, ReturnIInv DEF Raise, Interrupt, Saved
<1>5. CASE Kill
  <2>1. NoHistory \in Histories /\ NoHistory.status = "none" /\ history \in Histories
        BY <1>1 DEF NoHistory, Histories, TypeOK
  <2> QED BY <1>1, <1>2, <1>3, <1>5, <2>1, ReturnIInv DEF Kill, Interrupt
<1> QED BY <1>4, <1>5

LEMMA NewProcessIInv ==
  ASSUME IInv, NewProcess
  PROVE  IInv'
<1>1. UNCHANGED <<checkpoint, state, history, call, ended, descents, faults, torn>>
      BY DEF NewProcess, files, counters
<1>2. memory' = NoHistory /\ NoHistory \in Histories /\ NoHistory.status = "none"
      BY DEF NewProcess, NoHistory, Histories
<1>3. TypeOK' /\ HistoryOfCall'
      BY <1>1, <1>2 DEF IInv, TypeOK, HistoryOfCall, InCall, NewProcess, Complete,
         PlannedStage, StageOver
<1>4. StateOfCheckpoint' /\ StepsInv' /\ StagesInv'
      BY <1>1 DEF IInv, StateOfCheckpoint, StepsInv, StepsMatch, StagesInv, OverUpTo, Over,
         Completing, InCall
<1>5. PlanRefusedTorn' /\ DoneIsDone'
      BY <1>1 DEF IInv, PlanRefusedTorn, DoneIsDone
<1> QED BY <1>3, <1>4, <1>5 DEF IInv

LEMMA StutterIInv ==
  ASSUME IInv, UNCHANGED vars
  PROVE  IInv'
<1>1. UNCHANGED <<checkpoint, state, history, memory, call, ended, descents, faults, torn>>
      BY DEF vars, files, counters
<1>2. TypeOK' /\ HistoryOfCall'
      BY <1>1 DEF IInv, TypeOK, HistoryOfCall, InCall, Complete, PlannedStage, StageOver
<1>3. StateOfCheckpoint' /\ StepsInv' /\ StagesInv'
      BY <1>1 DEF IInv, StateOfCheckpoint, StepsInv, StepsMatch, StagesInv, OverUpTo, Over,
         Completing, InCall
<1>4. PlanRefusedTorn' /\ DoneIsDone'
      BY <1>1 DEF IInv, PlanRefusedTorn, DoneIsDone
<1> QED BY <1>2, <1>3, <1>4 DEF IInv

LEMMA NextIInv == IInv /\ [Next]_vars => IInv'
<1> SUFFICES ASSUME IInv, [Next]_vars PROVE IInv'
    OBVIOUS
<1>1. CASE \E resume \in BOOLEAN : Begin(resume)
  <2>1. ASSUME NEW resume \in BOOLEAN, Begin(resume) PROVE IInv'
        BY <2>1, BeginIInv
  <2> QED BY <1>1, <2>1
<1>2. CASE Continue \/ RejectPlan
      BY <1>2, ResumeIInv, SkipIInv, RejectPlanIInv DEF Continue
<1>4. CASE Solve
  <2>1. CASE Linearize \/ RejectModel \/ FirstIterate \/ Accept \/ NextStage \/ Finish
        BY <2>1, LinearizeIInv, RejectModelIInv, FirstIterateIInv, AcceptIInv, NextStageIInv, FinishIInv
  <2>2. CASE TruncateState \/ WriteState \/ WriteCheckpoint
        BY <2>2, SaveIInv
  <2>3. CASE \E ok \in BOOLEAN : EndStage(ok)
    <3>1. ASSUME NEW ok \in BOOLEAN, EndStage(ok) PROVE IInv'
          BY <3>1, EndStageIInv
    <3> QED BY <2>3, <3>1
  <2> QED BY <1>4, <2>1, <2>2, <2>3 DEF Solve
<1>5. CASE Raise \/ Kill \/ NewProcess
      BY <1>5, InterruptIInv, NewProcessIInv
<1>6. CASE UNCHANGED vars
      BY <1>6, StutterIInv
<1> QED BY <1>1, <1>2, <1>4, <1>5, <1>6 DEF Next

LEMMA Invariance == Spec => []IInv
<1> QED BY InitIInv, NextIInv, PTL DEF Spec

-----------------------------------------------------------------------------
(* Theorems                                                                *)

\* Whatever the stages, budgets and interruptions, the three files and the call hold
\* only what run() can write.
THEOREM FwiTypes == Spec => []TypeOK
<1>1. IInv => TypeOK
      BY DEF IInv
<1> QED BY <1>1, Invariance, PTL

\* However a descent is interrupted and resumed, no stage gets more than its budget,
\* and the checkpoint knows how much of it is used.
THEOREM FwiKeepsBudget == Spec => []BudgetKept
<1>1. IInv => BudgetKept
      BY DEF IInv, StepsInv, StepsMatch, BudgetKept
<1> QED BY <1>1, Invariance, PTL

\* A call that returns, also one that skips every stage, has a model each of whose
\* stages is over: its optimizer stopped or used its budget.
THEOREM FwiDoneIsDone == Spec => []DoneIsDone
<1>1. IInv => DoneIsDone
      BY DEF IInv
<1> QED BY <1>1, Invariance, PTL

-----------------------------------------------------------------------------
(* History and checkpoint: an invariant that needs IInv                    *)

Has(h, stage, model) ==
  \E k \in DOMAIN h.records : h.records[k] = [layout |-> Layout(stage), model |-> model]
Covered(h) ==
  checkpoint.exists /\ checkpoint.iteration > 0 =>
    \/ \A k \in DOMAIN h.records : h.records[k].model.descent # checkpoint.model.descent
    \/ Has(h, checkpoint.stage, checkpoint.model)

\* No record of the model's descent is more than an iterate ahead of it.
Behind(h, model) ==
  \A k \in DOMAIN h.records :
    h.records[k].model.descent = model.descent =>
      \A i \in Stages : h.records[k].model.steps[i] <= model.steps[i] + 1
Known(h) == \A k \in DOMAIN h.records : h.records[k].model.descent <= descents

\* Both histories, that of the process and that on disk, fit to both files.
Kept(h) == Covered(h) /\ Known(h) /\ (state.status = "saved" => Behind(h, state.model))

AtCheckpoint ==
  /\ checkpoint.exists /\ checkpoint.stage = call.stage
  /\ checkpoint.iteration = call.iteration /\ checkpoint.model = call.model

\* What a call is about to write: the checkpointed iterate again, one at the start of
\* a stage, or one that the history has.
CallKept ==
  /\ InCall => Behind(memory, call.model)
  /\ call.pc \in {"first", "solve", "next"} =>
       AtCheckpoint /\ state.status = "saved" /\ state.model = call.model
  /\ InCall /\ call.then # "first" => Has(memory, call.stage, call.model)
  /\ InCall /\ call.then = "first" /\ call.iteration > 0 =>
       /\ call.pc = "linearize" => call.checks
       /\ checkpoint.exists /\ checkpoint.stage = call.stage
       /\ checkpoint.iteration = call.iteration
       /\ call.pc # "linearize" => checkpoint.model = call.model
  /\ call.pc = "solve" => call.then = "solve"

DescentsInv ==
  /\ state.status = "saved" => state.model.descent <= descents
  /\ InCall => call.model.descent <= descents

HistoryInv == Kept(memory) /\ Kept(history) /\ CallKept /\ DescentsInv

-----------------------------------------------------------------------------
(* Helpers                                                                 *)

\* What is kept of a history is kept of every history with its records.
LEMMA KeptRecords ==
  ASSUME NEW g, NEW h, h.records = g.records
  PROVE  Kept(g) => Kept(h)
BY DEF Kept, Covered, Known, Behind, Has

LEMMA KeptNone == Kept(NewHistory) /\ Kept(NoHistory)
BY DEF Kept, Covered, Known, Behind, NewHistory, NoHistory

LEMMA SameRecords ==
  ASSUME NEW h \in Histories
  PROVE  /\ Stopped(h).records = h.records
         /\ \A s : Finished(h, s).records = h.records
BY DEF Stopped, Finished, Histories

\* A record adds itself, if anything, and loses nothing.
LEMMA RecordAdds ==
  ASSUME NEW h \in Histories, NEW r \in [layout : Layouts, model : Models]
  PROVE  LET g == RecordIteration(h, r)
         IN /\ \A k \in DOMAIN g.records :
                 g.records[k] = r \/ \E j \in DOMAIN h.records : h.records[j] = g.records[k]
            /\ \A j \in DOMAIN h.records :
                 \E k \in DOMAIN g.records : g.records[k] = h.records[j]
            /\ \E k \in DOMAIN g.records : g.records[k] = r
<1> DEFINE g == RecordIteration(h, r)
           Records == [layout : Layouts, model : Models]
<1>1. h.records \in Seq(Records)
      BY DEF Histories
<1>2. CASE h.records # <<>> /\ h.records[Len(h.records)] = r
  <2>1. g = h
        BY <1>2 DEF RecordIteration
  <2>2. Len(h.records) \in DOMAIN h.records
        BY <1>1, <1>2
  <2> QED BY <1>2, <2>1, <2>2
<1>3. CASE ~(h.records # <<>> /\ h.records[Len(h.records)] = r)
  <2>1. g.records = Append(h.records, r)
        BY <1>3 DEF RecordIteration, Histories
  <2> DEFINE n == Len(h.records)
  <2>2. /\ n \in Nat /\ DOMAIN h.records = 1 .. n /\ DOMAIN g.records = 1 .. n + 1
        /\ g.records[n + 1] = r
        /\ \A k \in 1 .. n : g.records[k] = h.records[k]
        BY <1>1, <2>1
  <2> HIDE DEF n, g
  <2>3. \A k \in 1 .. n + 1 : k \in 1 .. n \/ k = n + 1
        BY <2>2
  <2>4. n + 1 \in 1 .. n + 1 /\ \A k \in 1 .. n : k \in 1 .. n + 1
        BY <2>2
  <2> QED BY <2>2, <2>3, <2>4 DEF g
<1> QED BY <1>2, <1>3

\* Records hold models.
LEMMA RecordModel ==
  ASSUME NEW h \in Histories, NEW k \in DOMAIN h.records
  PROVE  h.records[k].model \in Models
<1> DEFINE Records == [layout : Layouts, model : Models]
<1>1. h.records \in Seq(Records)
      BY DEF Histories
<1>2. ASSUME NEW S, NEW q \in Seq(S), NEW i \in DOMAIN q
      PROVE  q[i] \in S
      OBVIOUS
<1>3. h.records[k] \in Records
  <2> HIDE DEF Records
  <2> QED BY <1>1, <1>2
<1> QED BY <1>3

\* The descents of records, models and counter are naturals.
LEMMA TypeOKDescents ==
  ASSUME TypeOK
  PROVE  /\ descents \in Nat /\ state.model.descent \in Nat /\ call.model.descent \in Nat
         /\ \A h \in {memory, history} : \A k \in DOMAIN h.records :
              h.records[k].model.descent \in Nat
<1>1. \A m \in Models : m.descent \in Nat
      BY FwiAssumption DEF Models
<1>2. ASSUME NEW h \in Histories, NEW k \in DOMAIN h.records
      PROVE  h.records[k].model \in Models
      BY RecordModel
<1>3. state.model \in Models /\ call.model \in Models
      BY DEF TypeOK, Calls
<1>4. memory \in Histories /\ history \in Histories
      BY DEF TypeOK
<1>5. descents \in Nat
      BY FwiAssumption DEF TypeOK
<1>6. \A h \in {memory, history} : \A k \in DOMAIN h.records :
        h.records[k].model.descent \in Nat
      BY <1>1, <1>2, <1>4
<1> QED BY <1>1, <1>3, <1>5, <1>6

LEMMA InitHistoryInv == Init => HistoryInv
BY DEF Init, HistoryInv, Kept, Covered, Known, Behind, CallKept, DescentsInv, InCall, Idle,
       NoHistory

\* A call that returns keeps the records of one of the histories, or none.
LEMMA ReturnHistoryInv ==
  ASSUME HistoryInv, call'.pc = "idle", UNCHANGED <<checkpoint, state, descents>>,
         memory'.records \in {memory.records, history.records, <<>>},
         history'.records \in {memory.records, history.records, <<>>}
  PROVE  HistoryInv'
<1>1. \A h : h.records \in {memory.records, history.records, <<>>} => Kept(h)
  <2>1. NoHistory.records = <<>>
        BY DEF NoHistory
  <2> QED BY <2>1, KeptRecords, KeptNone DEF HistoryInv
<1>2. Kept(memory)' /\ Kept(history)'
      BY <1>1 DEF Kept, Covered, Known, Behind, Has
<1>3. CallKept' /\ DescentsInv'
      BY DEF HistoryInv, CallKept, DescentsInv, InCall
<1> QED BY <1>2, <1>3 DEF HistoryInv

-----------------------------------------------------------------------------
(* One lemma per action                                                    *)

LEMMA BeginHistoryInv ==
  ASSUME IInv, HistoryInv, NEW resume \in BOOLEAN, Begin(resume)
  PROVE  HistoryInv'
<1>1. descents \in Nat /\ descents' = descents + 1
      BY FwiAssumption DEF IInv, TypeOK, Begin
<1>2. UNCHANGED <<checkpoint, state, history>> /\ memory'.records \in {memory.records, <<>>}
      BY DEF Begin, files, NewHistory
<1>3. Kept(memory)' /\ Kept(history)'
  <2>1. \A h \in {memory, history} : \A k \in DOMAIN h.records :
          h.records[k].model.descent <= descents =>
            h.records[k].model.descent <= descents + 1
        BY <1>1, TypeOKDescents DEF IInv
  <2> QED BY <1>1, <1>2, <2>1 DEF HistoryInv, Kept, Covered, Known, Behind, Has
<1>4. /\ call'.pc = "linearize" /\ call'.iteration = 0 /\ call'.then = "first"
      /\ call'.model = Start(descents + 1)
      BY DEF Begin, Idle
<1>5. Start(descents + 1).descent = descents + 1
      BY DEF Start
<1>6. Behind(memory', Start(descents + 1))
  <2>1. \A k \in DOMAIN memory'.records : memory'.records[k].model.descent # descents + 1
        BY <1>1, <1>2, TypeOKDescents DEF IInv, HistoryInv, Kept, Known
  <2> QED BY <1>5, <2>1 DEF Behind
<1>7. CallKept'
      BY <1>4, <1>6 DEF CallKept, Behind
<1>8. DescentsInv'
      BY <1>1, <1>2, <1>4, <1>5, TypeOKDescents DEF IInv, HistoryInv, DescentsInv
<1> QED BY <1>3, <1>7, <1>8 DEF HistoryInv

LEMMA ResumeHistoryInv ==
  ASSUME IInv, HistoryInv, Resume
  PROVE  HistoryInv'
<1>1. UNCHANGED <<checkpoint, state, descents>>
      BY DEF Resume, counters
<1>2. state.status = "saved"
      BY DEF Resume, Loadable
<1>3. Open \in Histories /\ Open.records \in {memory.records, history.records, <<>>}
      BY OpenType DEF IInv, Open, NewHistory
<1>4. /\ memory'.records \in {memory.records, history.records, <<>>}
      /\ history'.records \in {memory.records, history.records, <<>>}
  <2>1. [Open EXCEPT !.status = "running"].records = Open.records
        BY <1>3 DEF Histories
  <2> QED BY <1>3, <2>1 DEF Resume, Saved
<1>5. \A h : h.records \in {memory.records, history.records, <<>>} => Kept(h)
  <2>1. NoHistory.records = <<>>
        BY DEF NoHistory
  <2> QED BY <2>1, KeptRecords, KeptNone DEF HistoryInv
<1>6. Kept(memory)' /\ Kept(history)'
      BY <1>1, <1>4, <1>5 DEF Kept, Covered, Known, Behind, Has
<1>7. /\ call'.pc = "linearize" /\ call'.stage = PlannedStage
      /\ call'.iteration = PlannedIteration /\ call'.then = "first"
      /\ call'.checks = (PlannedIteration > 0) /\ call'.model = state.model
      BY DEF Resume, Idle
<1>8. PlannedIteration > 0 =>
        PlannedStage = checkpoint.stage /\ PlannedIteration = checkpoint.iteration
      BY DEF PlannedIteration, PlannedStage
<1>9. Behind(memory', state.model)
      BY <1>2, <1>4, <1>5 DEF Kept, Behind
<1>10. CallKept'
      BY <1>1, <1>7, <1>8, <1>9 DEF CallKept, Behind, InCall, Resume
<1>11. DescentsInv'
      BY <1>1, <1>2, <1>7 DEF HistoryInv, DescentsInv
<1> QED BY <1>6, <1>10, <1>11 DEF HistoryInv

LEMMA LinearizeHistoryInv ==
  ASSUME IInv, HistoryInv, Linearize
  PROVE  HistoryInv'
<1>1. /\ call'.pc = "save" /\ call'.stage = call.stage /\ call'.iteration = call.iteration
      /\ call'.model = call.model /\ call'.then = call.then
      BY DEF IInv, TypeOK, Calls, Linearize
<1>2. UNCHANGED <<checkpoint, state, descents>> /\ memory' = memory /\ history' = memory
      BY DEF Linearize, Saved, counters
<1>3. Kept(memory)' /\ Kept(history)'
      BY <1>2 DEF HistoryInv, Kept, Covered, Known, Behind, Has
<1>4. CallKept' /\ DescentsInv'
      BY <1>1, <1>2 DEF HistoryInv, CallKept, DescentsInv, InCall, Behind, Has, Linearize
<1> QED BY <1>3, <1>4 DEF HistoryInv

LEMMA SaveHistoryInv ==
  ASSUME IInv, HistoryInv, TruncateState \/ WriteState \/ WriteCheckpoint
  PROVE  HistoryInv'
<1>1. /\ call'.stage = call.stage /\ call'.iteration = call.iteration
      /\ call'.model = call.model /\ call'.then = call.then
      BY DEF IInv, TypeOK, Calls, TruncateState, WriteState, WriteCheckpoint
<1>2. history' = history /\ memory' = memory /\ history = memory /\ descents' = descents
      BY DEF IInv, HistoryOfCall, TruncateState, WriteState, WriteCheckpoint, counters
<1>3. CASE TruncateState
  <2>1. state'.status = "torn" /\ checkpoint' = checkpoint /\ call'.pc = "truncated"
        BY <1>3 DEF IInv, TypeOK, Calls, TruncateState
  <2>2. Kept(memory)' /\ Kept(history)'
        BY <1>2, <2>1 DEF HistoryInv, Kept, Covered, Known, Has
  <2>3. CallKept' /\ DescentsInv'
        BY <1>1, <1>2, <1>3, <2>1
        DEF HistoryInv, CallKept, DescentsInv, InCall, Behind, Has, TruncateState
  <2> QED BY <2>2, <2>3 DEF HistoryInv
<1>4. CASE WriteState
  <2>1. state'.model = call.model /\ checkpoint' = checkpoint /\ call'.pc = "written"
        BY <1>4 DEF IInv, TypeOK, Calls, WriteState
  <2>2. Behind(memory, call.model)
        BY <1>4 DEF HistoryInv, CallKept, InCall, WriteState
  <2>3. Kept(memory)' /\ Kept(history)'
        BY <1>2, <2>1, <2>2 DEF HistoryInv, Kept, Covered, Known, Behind, Has
  <2>4. CallKept' /\ DescentsInv'
        BY <1>1, <1>2, <1>4, <2>1
        DEF HistoryInv, CallKept, DescentsInv, InCall, Behind, Has, WriteState
  <2> QED BY <2>3, <2>4 DEF HistoryInv
<1>5. CASE WriteCheckpoint
  <2>1. /\ checkpoint'.exists /\ checkpoint'.stage = call.stage
        /\ checkpoint'.iteration = call.iteration /\ checkpoint'.model = call.model
        /\ state' = state /\ call'.pc = call.then
        BY <1>5 DEF IInv, TypeOK, Calls, WriteCheckpoint
  <2>2. state.status = "saved" /\ state.model = call.model
        BY <1>5 DEF IInv, StateOfCheckpoint, WriteCheckpoint
  <2>3. Covered(memory)'
    <3>1. CASE call.then # "first"
          BY <1>2, <1>5, <2>1, <3>1
          DEF HistoryInv, CallKept, InCall, Covered, Has, WriteCheckpoint
    <3>2. CASE call.then = "first" /\ call.iteration > 0
      <4>1. /\ checkpoint.exists /\ checkpoint.stage = call.stage
            /\ checkpoint.iteration = call.iteration /\ checkpoint.model = call.model
            BY <1>5, <3>2 DEF HistoryInv, CallKept, InCall, WriteCheckpoint
      <4> QED BY <1>2, <2>1, <4>1 DEF HistoryInv, Kept, Covered, Has
    <3>3. CASE ~(call.iteration > 0)
          BY <2>1, <3>3 DEF Covered
    <3> QED BY <3>1, <3>2, <3>3
  <2>4. Kept(memory)' /\ Kept(history)'
        BY <1>2, <2>1, <2>3 DEF HistoryInv, Kept, Covered, Known, Behind, Has
  <2>5. call.then \in {"first", "solve", "next"}
        BY DEF IInv, TypeOK, Calls
  <2>6. CallKept' /\ DescentsInv'
        BY <1>1, <1>2, <1>5, <2>1, <2>2, <2>5
        DEF HistoryInv, CallKept, DescentsInv, InCall, Behind, Has, AtCheckpoint, WriteCheckpoint
  <2> QED BY <2>4, <2>6 DEF HistoryInv
<1> QED BY <1>3, <1>4, <1>5

\* An iterate, the first model of a stage included, is recorded before it is saved.
LEMMA RecordHistoryInv ==
  ASSUME IInv, HistoryInv, call.pc \in {"first", "solve"},
         NEW m \in Models, NEW n \in 0 .. Budget, Record(m, n),
         m = call.model \/ Has(memory, call.stage, call.model),
         m.descent = call.model.descent,
         \A i \in Stages : m.steps[i] \in {call.model.steps[i], call.model.steps[i] + 1}
  PROVE  HistoryInv'
<1> DEFINE r == [layout |-> Layout(call.stage), model |-> m]
           g == RecordIteration(memory, r)
<1>1. /\ memory \in Histories /\ call.stage \in Stages /\ call.model \in Models
      /\ r \in [layout : Layouts, model : Models]
      BY DEF IInv, TypeOK, Calls, Layouts
<1>2. /\ \A k \in DOMAIN g.records :
           g.records[k] = r \/ \E j \in DOMAIN memory.records : memory.records[j] = g.records[k]
      /\ \A j \in DOMAIN memory.records :
           \E k \in DOMAIN g.records : g.records[k] = memory.records[j]
      /\ \E k \in DOMAIN g.records : g.records[k] = r
      BY <1>1, RecordAdds
<1>3. memory' = g /\ history' = g /\ UNCHANGED <<checkpoint, state, descents>>
      BY DEF Record, Saved, counters
<1>4. /\ call'.pc = "save" /\ call'.stage = call.stage /\ call'.model = m
      /\ call'.then = "solve"
      BY DEF IInv, TypeOK, Calls, Record
<1>5. r.layout = Layout(call.stage) /\ r.model = m
      OBVIOUS
<1> HIDE DEF g
<1>6. AtCheckpoint /\ state.status = "saved" /\ state.model = call.model
      BY DEF HistoryInv, CallKept
<1>7. Behind(memory, call.model)
      BY DEF HistoryInv, CallKept, InCall
<1>8. \A i \in Stages : call.model.steps[i] \in Nat /\ m.steps[i] \in Nat
      BY <1>1 DEF Models
<1>9. Has(g, call.stage, m)
      BY <1>2 DEF Has
<1>10. Has(g, call.stage, call.model)
  <2>1. Has(memory, call.stage, call.model) => Has(g, call.stage, call.model)
        BY <1>2 DEF Has
  <2> QED BY <1>9, <2>1
<1>11. Covered(g)
      BY <1>6, <1>10 DEF Covered, AtCheckpoint
<1>12. Known(g)
  <2>1. Known(memory) /\ m.descent <= descents
        BY DEF HistoryInv, Kept, DescentsInv, InCall
  <2> QED BY <1>2, <1>5, <2>1 DEF Known
<1>13. Behind(g, call.model)
  <2> SUFFICES ASSUME NEW k \in DOMAIN g.records,
                      g.records[k].model.descent = call.model.descent, NEW i \in Stages
               PROVE  g.records[k].model.steps[i] <= call.model.steps[i] + 1
      BY DEF Behind
  <2>1. CASE g.records[k] = r
        BY <1>5, <1>8, <2>1
  <2>2. CASE \E j \in DOMAIN memory.records : memory.records[j] = g.records[k]
        BY <1>7, <2>2 DEF Behind
  <2> QED BY <1>2, <2>1, <2>2
<1>14. Behind(g, m)
  <2> SUFFICES ASSUME NEW k \in DOMAIN g.records,
                      g.records[k].model.descent = m.descent, NEW i \in Stages
               PROVE  g.records[k].model.steps[i] <= m.steps[i] + 1
      BY DEF Behind
  <2>1. CASE g.records[k] = r
        BY <1>5, <1>8, <2>1
  <2>2. CASE \E j \in DOMAIN memory.records : memory.records[j] = g.records[k]
    <3>1. PICK j \in DOMAIN memory.records : memory.records[j] = g.records[k]
          BY <2>2
    <3>2. memory.records[j].model.steps[i] \in Nat
      <4>1. memory.records[j].model \in Models
            BY <1>1, RecordModel
      <4> QED BY <4>1 DEF Models
    <3>3. memory.records[j].model.steps[i] <= call.model.steps[i] + 1
          BY <1>7, <3>1 DEF Behind
    <3> QED BY <1>8, <3>1, <3>2, <3>3
  <2> QED BY <1>2, <2>1, <2>2
<1>15. Kept(memory)' /\ Kept(history)'
      BY <1>3, <1>6, <1>11, <1>12, <1>13 DEF Kept, Covered, Known, Behind, Has
<1>16. CallKept'
      BY <1>3, <1>4, <1>9, <1>14 DEF CallKept, Behind, Has
<1>17. DescentsInv'
      BY <1>3, <1>4 DEF HistoryInv, DescentsInv, InCall
<1> QED BY <1>15, <1>16, <1>17 DEF HistoryInv

LEMMA FirstIterateHistoryInv ==
  ASSUME IInv, HistoryInv, FirstIterate
  PROVE  HistoryInv'
<1>1. call.model \in Models /\ call.iteration \in 0 .. Budget
      BY DEF IInv, TypeOK, Calls
<1> QED BY <1>1, RecordHistoryInv DEF FirstIterate

LEMMA AcceptHistoryInv ==
  ASSUME IInv, HistoryInv, Accept
  PROVE  HistoryInv'
<1> DEFINE m == [call.model EXCEPT !.steps[call.stage] = @ + 1]
<1>1. call.model \in Models /\ call.stage \in Stages /\ call.iteration + 1 \in 0 .. Budget
      BY FwiAssumption DEF IInv, TypeOK, Calls, Accept
<1>2. m \in Models
      BY <1>1, StepType
<1>3. /\ m.descent = call.model.descent
      /\ \A i \in Stages : m.steps[i] \in {call.model.steps[i], call.model.steps[i] + 1}
      BY <1>1 DEF Models
<1>4. Has(memory, call.stage, call.model)
      BY DEF HistoryInv, CallKept, InCall, Accept
<1>5. Record(m, call.iteration + 1) /\ call.pc = "solve"
      BY DEF Accept
<1> HIDE DEF m
<1> QED BY <1>1, <1>2, <1>3, <1>4, <1>5, RecordHistoryInv

\* What the end of a stage leaves of its call.
LEMMA Ends ==
  ASSUME call \in Calls, \E ok \in BOOLEAN : EndStage(ok)
  PROVE  /\ call.pc = "solve" /\ call'.pc = "save" /\ call'.then = "next"
         /\ call'.stage = call.stage /\ call'.iteration = call.iteration
         /\ call'.model = call.model /\ call'.masks = call.masks
         /\ call'.checks = call.checks /\ call'.outcome = call.outcome
         /\ UNCHANGED <<checkpoint, state, history, memory, descents, torn>>
<1>1. call.pc = "solve" /\ UNCHANGED <<checkpoint, state, history, memory, descents, torn>>
  <2>1. UNCHANGED files => UNCHANGED <<checkpoint, state, history>>
        BY DEF files
  <2> QED BY <2>1, Zenon DEF EndStage
<1>2. PICK ok : call' = [call EXCEPT !.pc = "save", !.then = "next", !.ok = ok]
      BY Zenon DEF EndStage
<1> QED BY <1>1, <1>2 DEF Calls

LEMMA StageHistoryInv ==
  ASSUME IInv, HistoryInv, (\E ok \in BOOLEAN : EndStage(ok)) \/ NextStage
  PROVE  HistoryInv'
<1>c. call \in Calls
      BY DEF IInv, TypeOK
<1>n. NextStage => /\ UNCHANGED <<checkpoint, state, history, memory, descents>>
                   /\ call'.model = call.model /\ call.pc = "next"
      BY <1>c DEF NextStage, files, counters, Calls
<1>1. UNCHANGED <<checkpoint, state, history, memory, descents>>
      BY <1>c, <1>n, Ends
<1>2. call'.model = call.model /\ InCall
      BY <1>c, <1>n, Ends DEF InCall
<1>3. Behind(memory, call.model)
      BY <1>2 DEF HistoryInv, CallKept
<1>4. CallKept'
  <2>1. CASE \E ok \in BOOLEAN : EndStage(ok)
    <3>1. call.pc = "solve" /\ call.then = "solve" /\ Has(memory, call.stage, call.model)
          BY <1>c, <1>2, <2>1, Ends DEF HistoryInv, CallKept
    <3>2. call'.pc = "save" /\ call'.then = "next" /\ call'.stage = call.stage
          BY <1>c, <2>1, Ends
    <3> QED BY <1>1, <1>2, <1>3, <3>1, <3>2 DEF CallKept, Behind, Has
  <2>2. CASE NextStage
    <3>1. call'.pc = "linearize" /\ call'.then = "first" /\ call'.iteration = 0
          BY <1>c, <2>2 DEF Calls, NextStage
    <3> QED BY <1>1, <1>2, <1>3, <3>1 DEF CallKept, Behind
  <2> QED BY <2>1, <2>2
<1>5. Kept(memory)' /\ Kept(history)'
      BY <1>1 DEF HistoryInv, Kept, Covered, Known, Behind, Has
<1>6. DescentsInv'
      BY <1>1, <1>2 DEF HistoryInv, DescentsInv
<1> QED BY <1>4, <1>5, <1>6 DEF HistoryInv

LEMMA OverHistoryInv ==
  ASSUME IInv, HistoryInv, Skip \/ RejectPlan \/ RejectModel \/ Finish \/ Raise \/ Kill
  PROVE  HistoryInv'
<1>1. UNCHANGED <<checkpoint, state, descents>> /\ call'.pc = "idle"
      BY DEF Skip, RejectPlan, RejectModel, Finish, Raise, Kill, Interrupt, Return, Idle,
             files, counters
<1>2. /\ memory \in Histories /\ Open \in Histories
      /\ Open.records \in {memory.records, history.records, <<>>}
      BY OpenType DEF IInv, TypeOK, Open, NewHistory
<1>3. \A s : /\ Finished(Open, s).records = Open.records
             /\ Finished(memory, s).records = memory.records
      BY <1>2, SameRecords
<1>4. Stopped(memory).records = memory.records /\ NoHistory.records = <<>>
      BY <1>2, SameRecords DEF NoHistory
<1>5. memory'.records \in {memory.records, history.records, <<>>}
      /\ history'.records \in {memory.records, history.records, <<>>}
      BY <1>2, <1>3, <1>4
      DEF Skip, RejectPlan, RejectModel, Finish, Raise, Kill, Saved, files
<1> QED BY <1>1, <1>5, ReturnHistoryInv

LEMMA NewProcessHistoryInv ==
  ASSUME IInv, HistoryInv, NewProcess \/ UNCHANGED vars
  PROVE  HistoryInv'
<1>1. UNCHANGED <<checkpoint, state, history, call, descents>>
      BY DEF NewProcess, vars, files, counters
<1>2. memory' = memory \/ (call.pc = "idle" /\ memory' = NoHistory)
      BY DEF NewProcess, vars
<1>3. Kept(memory)' /\ Kept(history)'
      BY <1>1, <1>2, KeptNone DEF HistoryInv, Kept, Covered, Known, Behind, Has
<1>4. CallKept' /\ DescentsInv'
      BY <1>1, <1>2 DEF HistoryInv, CallKept, DescentsInv, AtCheckpoint, InCall, Behind, Has
<1> QED BY <1>3, <1>4 DEF HistoryInv

LEMMA NextHistoryInv == IInv /\ HistoryInv /\ [Next]_vars => HistoryInv'
<1> SUFFICES ASSUME IInv, HistoryInv, [Next]_vars PROVE HistoryInv'
    OBVIOUS
<1>1. CASE \E resume \in BOOLEAN : Begin(resume)
  <2>1. ASSUME NEW resume \in BOOLEAN, Begin(resume) PROVE HistoryInv'
        BY <2>1, BeginHistoryInv
  <2> QED BY <1>1, <2>1
<1>2. CASE Continue \/ RejectPlan
      BY <1>2, ResumeHistoryInv, OverHistoryInv DEF Continue
<1>3. CASE Solve
      BY <1>3, LinearizeHistoryInv, SaveHistoryInv, FirstIterateHistoryInv, AcceptHistoryInv,
         StageHistoryInv, OverHistoryInv DEF Solve
<1>4. CASE Raise \/ Kill
      BY <1>4, OverHistoryInv
<1>5. CASE NewProcess \/ UNCHANGED vars
      BY <1>5, NewProcessHistoryInv
<1> QED BY <1>1, <1>2, <1>3, <1>4, <1>5 DEF Next

LEMMA HistoryInvariance == Spec => []HistoryInv
<1> QED BY InitHistoryInv, NextHistoryInv, Invariance, PTL DEF Spec

-----------------------------------------------------------------------------
(* Theorems                                                                *)

\* Whatever is interrupted, the iterate of the checkpoint is in the history, if the
\* history has anything of its descent.
THEOREM FwiHistoryCovers == Spec => []HistoryCovers
<1>1. HistoryInv => HistoryCovers
      BY DEF HistoryInv, Kept, Covered, Has, HistoryCovers
<1> QED BY <1>1, HistoryInvariance, PTL

\* A call that resumes, whenever and in whatever process, is at most one accepted
\* iterate behind what the history has of its descent.
THEOREM FwiLosesAtMostOne == Spec => LosesAtMostOne
<1>1. HistoryInv /\ Resume =>
        \A k \in DOMAIN history.records :
          LET r == history.records[k].model
          IN r.descent = call'.model.descent =>
               \A i \in Stages : r.steps[i] <= call'.model.steps[i] + 1
  <2> SUFFICES ASSUME HistoryInv, Resume
               PROVE  Behind(history, call'.model)
      BY DEF Behind
  <2>1. call'.model = state.model /\ state.status = "saved"
        BY DEF Resume, Idle, Loadable
  <2> QED BY <2>1 DEF HistoryInv, Kept
<1> QED BY <1>1, HistoryInvariance, PTL DEF LosesAtMostOne

-----------------------------------------------------------------------------
(* The masks of a stage: an invariant that needs IInv and HistoryInv       *)

At(model, stage, k) == [model EXCEPT !.steps[stage] = k]
Points(model, stage, n) == {Authored} \cup {At(model, stage, k) : k \in 0 .. n}

\* Masks were measured on the way through the stage, and are as many as at its start.
OnPath(masks, stage, model, n) ==
  \E p \in Points(model, stage, n) : masks = Free(stage, p)
OfStart(masks, stage, model) ==
  \E p \in {Authored, At(model, stage, 0)} : Cardinality(masks) = Cardinality(Free(stage, p))
Fits(masks, stage, model, n) == OnPath(masks, stage, model, n) /\ OfStart(masks, stage, model)
Varies == \E p, q \in Path : Free(checkpoint.stage, p) # Free(checkpoint.stage, q)

\* Checkpoint and call are on such masks, and a call that compares is past a start.
MasksInv ==
  /\ ~torn =>
       /\ checkpoint.exists => Fits(checkpoint.masks, checkpoint.stage, checkpoint.model,
                                    checkpoint.iteration)
       /\ InCall /\ call.pc # "linearize" =>
            Fits(call.masks, call.stage, call.model, call.iteration)
  /\ call.checks => call.iteration > 0
  /\ call.outcome = "mismatched" => torn \/ Varies

\* Going on within the steps of a stage.
LEMMA AtAt ==
  ASSUME NEW m \in Models, NEW i \in Stages, NEW n \in Nat
  PROVE  /\ m.steps[i] = n => At(m, i, n) = m
         /\ \A k \in Nat : At(At(m, i, n), i, k) = At(m, i, k)
<1> DEFINE Set(k) == [m.steps EXCEPT ![i] = k]
<1>1. /\ m = [descent |-> m.descent, steps |-> m.steps] /\ m.steps \in [Stages -> Nat]
      BY DEF Models
<1>2. \A k : At(m, i, k) = [descent |-> m.descent, steps |-> Set(k)]
      BY <1>1 DEF At
<1>3. m.steps[i] = n => Set(n) = m.steps
      BY <1>1
<1>4. \A k \in Nat : Set(n) \in [Stages -> Nat] /\ [Set(n) EXCEPT ![i] = k] = Set(k)
      BY <1>1
<1>5. ASSUME NEW k \in Nat PROVE At(At(m, i, n), i, k) = At(m, i, k)
  <2>1. At(At(m, i, n), i, k) = [descent |-> m.descent, steps |-> [Set(n) EXCEPT ![i] = k]]
        BY <1>2 DEF At
  <2> QED BY <1>2, <1>4, <2>1
<1>6. m.steps[i] = n => At(m, i, n) = m
      BY <1>1, <1>2, <1>3
<1> QED BY <1>5, <1>6

\* Where the masks of an unbroken stage are measured: at its start, or where the
\* checkpoint is, which the call compares with.
LEMMA MeasuredOnPath ==
  ASSUME IInv, HistoryInv, call.pc = "linearize", ~torn, NEW masks \in Measured
  PROVE  /\ OnPath(masks, call.stage, call.model, call.iteration)
         /\ call.iteration = 0 => OfStart(masks, call.stage, call.model)
<1>1. call.model \in Models /\ call.stage \in Stages /\ call.iteration \in Nat
      BY FwiAssumption DEF IInv, TypeOK, Calls
<1>2. call.model.steps[call.stage] = call.iteration
      BY DEF IInv, StepsInv, StepsMatch, InCall
<1>3. At(call.model, call.stage, call.iteration) = call.model
      BY <1>1, <1>2, AtAt
<1>4. PICK p \in {call.model, Authored} : masks = Free(call.stage, p)
      BY DEF Measured
<1>5. p \in Points(call.model, call.stage, call.iteration)
      BY <1>1, <1>3, <1>4 DEF Points
<1>6. call.iteration = 0 => p \in {Authored, At(call.model, call.stage, 0)}
      BY <1>3, <1>4
<1> QED BY <1>4, <1>5, <1>6 DEF OnPath, OfStart

\* A call that compares is on the stage and iteration of the checkpoint.
LEMMA ComparesWithCheckpoint ==
  ASSUME IInv, HistoryInv, call.pc = "linearize", call.iteration > 0
  PROVE  /\ call.checks /\ checkpoint.exists /\ checkpoint.stage = call.stage
         /\ checkpoint.iteration = call.iteration
         /\ ~torn => call.model = checkpoint.model
BY DEF IInv, StagesInv, StateOfCheckpoint, HistoryInv, CallKept, InCall

\* A step that leaves the checkpoint alone, and the call no further than its masks fit.
LEMMA CallFits ==
  ASSUME MasksInv, checkpoint' = checkpoint, torn' = torn,
         ~call'.checks, call'.outcome # "mismatched",
         call'.pc \in {"idle", "linearize"} \/
           (~torn => Fits(call'.masks, call'.stage, call'.model, call'.iteration))
  PROVE  MasksInv'
BY DEF MasksInv, Fits, OnPath, OfStart, InCall, Points, At, Free

LEMMA OverMasksInv ==
  ASSUME IInv, HistoryInv, MasksInv,
         Skip \/ RejectPlan \/ Finish \/ Raise \/ Kill \/ RejectModel
  PROVE  MasksInv'
<1>1. /\ checkpoint' = checkpoint /\ call'.pc = "idle" /\ ~call'.checks
      /\ torn => torn'
      /\ call'.outcome = "mismatched" => RejectModel /\ torn' = torn
  <2>1. CASE Skip \/ RejectPlan \/ Finish
    <3>1. UNCHANGED <<checkpoint, torn>>
          BY <2>1 DEF Skip, RejectPlan, Finish, files, counters
    <3>2. \E outcome \in {"done", "rejected"} : \E model : Return(outcome, model)
          BY <2>1, Zenon DEF Skip, RejectPlan, Finish
    <3> QED BY <3>1, <3>2 DEF Return, Idle
  <2>2. CASE Raise \/ Kill
        BY <2>2 DEF IInv, TypeOK, Raise, Kill, Interrupt, Return, Idle
  <2>3. CASE RejectModel
    <3>1. Return("mismatched", Start(0)) /\ UNCHANGED <<checkpoint, state, counters>>
          BY <2>3, Zenon DEF RejectModel
    <3> QED BY <2>3, <3>1 DEF Return, Idle, counters
  <2> QED BY <2>1, <2>2, <2>3
<1>3. ASSUME RejectModel, ~torn PROVE Varies
  <2>1. PICK masks \in Measured : call.model # checkpoint.model \/ masks # checkpoint.masks
        BY <1>3 DEF RejectModel
  <2>2. call.pc = "linearize" /\ call.iteration > 0
        BY <1>3 DEF MasksInv, RejectModel
  <2>3. /\ checkpoint.exists /\ checkpoint.stage = call.stage
        /\ checkpoint.iteration = call.iteration /\ call.model = checkpoint.model
        BY <1>3, <2>2, ComparesWithCheckpoint
  <2>4. Path = Points(checkpoint.model, checkpoint.stage, checkpoint.iteration)
        BY DEF Path, StageModel, Points, At
  <2>5. PICK p \in Path : masks = Free(checkpoint.stage, p)
        BY <1>3, <2>2, <2>3, <2>4, MeasuredOnPath DEF OnPath
  <2>6. PICK q \in Path : checkpoint.masks = Free(checkpoint.stage, q)
        BY <1>3, <2>3, <2>4 DEF MasksInv, Fits, OnPath
  <2> QED BY <2>1, <2>3, <2>5, <2>6 DEF Varies
<1>4. Varies' <=> Varies
      BY <1>1 DEF Varies, Path, StageModel
<1>5. call'.outcome = "mismatched" => torn' \/ Varies'
      BY <1>1, <1>3, <1>4
<1>6. ~torn' /\ checkpoint'.exists =>
        Fits(checkpoint.masks, checkpoint.stage, checkpoint.model, checkpoint.iteration)'
      BY <1>1 DEF MasksInv, Fits, OnPath, OfStart, Points
<1> QED BY <1>1, <1>5, <1>6 DEF MasksInv, InCall

LEMMA LinearizeMasksInv ==
  ASSUME IInv, HistoryInv, MasksInv, Linearize
  PROVE  MasksInv'
<1>1. PICK masks \in Measured :
        /\ call.checks => call.model = checkpoint.model /\ SameSize(masks)
        /\ call' = [call EXCEPT !.pc = "save", !.checks = FALSE, !.masks = masks]
      BY Zenon DEF Linearize
<1>2. /\ call'.pc = "save" /\ call'.stage = call.stage /\ call'.iteration = call.iteration
      /\ ~call'.checks /\ call'.model = call.model /\ call'.masks = masks
      /\ call'.outcome = call.outcome
      BY <1>1 DEF IInv, TypeOK, Calls
<1>3. call.pc = "linearize" /\ checkpoint' = checkpoint /\ torn' = torn
      BY Zenon DEF Linearize, counters
<1>4. call.outcome = "none"
      BY <1>3 DEF IInv, HistoryOfCall, InCall
<1>5. ~torn => OfStart(masks, call.stage, call.model)
  <2>1. CASE call.iteration > 0
    <3>1. /\ call.checks /\ checkpoint.exists /\ checkpoint.stage = call.stage
          /\ ~torn => call.model = checkpoint.model
          BY <1>3, <2>1, ComparesWithCheckpoint
    <3>2. ~torn => OfStart(checkpoint.masks, call.stage, call.model)
          BY <3>1 DEF MasksInv, Fits
    <3>3. Cardinality(masks) = Cardinality(checkpoint.masks)
          BY <1>1, <3>1 DEF SameSize
    <3> QED BY <3>2, <3>3 DEF OfStart
  <2>2. CASE ~(call.iteration > 0)
    <3>1. call.iteration = 0
          BY <2>2, FwiAssumption DEF IInv, TypeOK, Calls
    <3> QED BY <1>3, <3>1, MeasuredOnPath
  <2> QED BY <2>1, <2>2
<1>6. ~torn => Fits(masks, call.stage, call.model, call.iteration)
      BY <1>3, <1>5, MeasuredOnPath DEF Fits
<1> QED BY <1>2, <1>3, <1>4, <1>6, CallFits

\* The masks of a call go with it, from iterate to iterate.
LEMMA StepMasksInv ==
  ASSUME IInv, HistoryInv, MasksInv,
         \/ TruncateState \/ WriteState \/ FirstIterate \/ Accept \/ NextStage
         \/ \E ok \in BOOLEAN : EndStage(ok)
  PROVE  MasksInv'
<1>1. call \in Calls /\ call.model \in Models /\ call.stage \in Stages
      /\ call.iteration \in Nat
      BY FwiAssumption DEF IInv, TypeOK, Calls
<1>2. ~torn /\ InCall /\ call.pc # "linearize" =>
        Fits(call.masks, call.stage, call.model, call.iteration)
      BY DEF MasksInv
<1>3. (InCall => call.outcome = "none") /\ (call.pc # "linearize" => ~call.checks)
      BY DEF IInv, HistoryOfCall, StateOfCheckpoint
<1>4. CASE TruncateState \/ WriteState
  <2>1. /\ checkpoint' = checkpoint /\ torn' = torn /\ InCall /\ call.pc # "linearize"
        /\ call'.masks = call.masks /\ call'.stage = call.stage
        /\ call'.model = call.model /\ call'.iteration = call.iteration
        /\ call'.checks = call.checks /\ call'.outcome = call.outcome
        BY <1>1, <1>4 DEF TruncateState, WriteState, Calls, InCall, counters
  <2> QED BY <1>2, <1>3, <2>1, CallFits
<1>5. CASE FirstIterate
  <2>1. /\ checkpoint' = checkpoint /\ torn' = torn /\ InCall /\ call.pc # "linearize"
        /\ call'.masks = call.masks /\ call'.stage = call.stage
        /\ call'.model = call.model /\ call'.iteration = call.iteration
        /\ call'.checks = call.checks /\ call'.outcome = call.outcome
        BY <1>1, <1>5 DEF FirstIterate, Record, Calls, InCall, counters
  <2> QED BY <1>2, <1>3, <2>1, CallFits
<1>6. CASE Accept
  <2>1. /\ checkpoint' = checkpoint /\ torn' = torn /\ InCall /\ call.pc # "linearize"
        /\ call'.masks = call.masks /\ call'.stage = call.stage
        /\ call'.iteration = call.iteration + 1
        /\ call'.model = [call.model EXCEPT !.steps[call.stage] = @ + 1]
        /\ call'.checks = call.checks /\ call'.outcome = call.outcome
        BY <1>1, <1>6 DEF Accept, Record, Calls, InCall, counters
  <2>2. \A k : At(call'.model, call.stage, k) = At(call.model, call.stage, k)
        BY <1>1, <2>1 DEF At, Models
  <2>3. Points(call.model, call.stage, call.iteration)
          \subseteq Points(call'.model, call.stage, call.iteration + 1)
        BY <1>1, <2>2 DEF Points
  <2>4. ~torn => Fits(call.masks, call.stage, call'.model, call.iteration + 1)
        BY <1>2, <2>1, <2>2, <2>3 DEF Fits, OnPath, OfStart
  <2> QED BY <1>3, <2>1, <2>4, CallFits
<1>7. CASE NextStage
  <2>1. /\ checkpoint' = checkpoint /\ torn' = torn /\ InCall /\ call.pc # "linearize"
        /\ call'.pc = "linearize" /\ call'.checks = call.checks
        /\ call'.outcome = call.outcome
        BY <1>1, <1>7 DEF NextStage, Calls, InCall, files, counters
  <2> QED BY <1>3, <2>1, CallFits
<1>8. CASE \E ok \in BOOLEAN : EndStage(ok)
  <2>1. /\ checkpoint' = checkpoint /\ torn' = torn /\ InCall /\ call.pc # "linearize"
        /\ call'.masks = call.masks /\ call'.stage = call.stage
        /\ call'.model = call.model /\ call'.iteration = call.iteration
        /\ call'.checks = call.checks /\ call'.outcome = call.outcome
        BY <1>1, <1>8, Ends DEF InCall
  <2> QED BY <1>2, <1>3, <2>1, CallFits
<1> QED BY <1>4, <1>5, <1>6, <1>7, <1>8

\* The checkpoint takes over the masks of the call.
LEMMA CheckpointMasksInv ==
  ASSUME IInv, MasksInv, WriteCheckpoint
  PROVE  MasksInv'
<1>1. /\ call.pc = "written" /\ torn' = torn /\ call'.pc = call.then
      /\ call'.masks = call.masks /\ call'.stage = call.stage
      /\ call'.model = call.model /\ call'.iteration = call.iteration
      /\ call'.checks = call.checks /\ call'.outcome = call.outcome
      BY DEF IInv, TypeOK, Calls, WriteCheckpoint, counters
<1>2. /\ checkpoint'.masks = call.masks /\ checkpoint'.stage = call.stage
      /\ checkpoint'.model = call.model /\ checkpoint'.iteration = call.iteration
      BY DEF WriteCheckpoint
<1>3. call.outcome = "none" /\ ~call.checks
      BY <1>1 DEF IInv, HistoryOfCall, StateOfCheckpoint, InCall
<1>4. ~torn => Fits(call.masks, call.stage, call.model, call.iteration)
      BY <1>1 DEF MasksInv, InCall
<1> QED BY <1>1, <1>2, <1>3, <1>4
    DEF MasksInv, Fits, OnPath, OfStart, InCall, Points, At, Free

LEMMA NewCallMasksInv ==
  ASSUME IInv, MasksInv, Resume \/ \E resume \in BOOLEAN : Begin(resume)
  PROVE  MasksInv'
<1>1. /\ checkpoint' = checkpoint /\ torn' = torn /\ call'.pc = "linearize"
      /\ call'.outcome = "none" /\ (call'.checks => call'.iteration > 0)
      BY DEF Resume, Begin, Idle, files, counters
<1> QED BY <1>1 DEF MasksInv, Fits, OnPath, OfStart, InCall, Points, At, Free

LEMMA NextMasksInv == IInv /\ HistoryInv /\ MasksInv /\ [Next]_vars => MasksInv'
<1> SUFFICES ASSUME IInv, HistoryInv, MasksInv, [Next]_vars PROVE MasksInv'
    OBVIOUS
<1>1. CASE Resume \/ \E resume \in BOOLEAN : Begin(resume)
      BY <1>1, NewCallMasksInv
<1>2. CASE Skip \/ RejectPlan \/ Finish \/ Raise \/ Kill \/ RejectModel
      BY <1>2, OverMasksInv
<1>3. CASE Linearize
      BY <1>3, LinearizeMasksInv
<1>4. CASE \/ TruncateState \/ WriteState \/ FirstIterate \/ Accept \/ NextStage
           \/ \E ok \in BOOLEAN : EndStage(ok)
      BY <1>4, StepMasksInv
<1>5. CASE WriteCheckpoint
      BY <1>5, CheckpointMasksInv
<1>6. CASE NewProcess \/ UNCHANGED vars
  <2>1. UNCHANGED <<checkpoint, call, torn>>
        BY <1>6 DEF NewProcess, vars, files, counters
  <2> QED BY <2>1 DEF MasksInv, Fits, OnPath, OfStart, InCall, Points, At, Free, Varies,
                      Path, StageModel
<1> QED BY <1>1, <1>2, <1>3, <1>4, <1>5, <1>6 DEF Next, Continue, Solve

LEMMA MasksInvariance == Spec => []MasksInv
<1>1. Init => MasksInv
      BY DEF Init, MasksInv, InCall, Idle
<1> QED BY <1>1, NextMasksInv, Invariance, HistoryInvariance, PTL DEF Spec

-----------------------------------------------------------------------------
(* Theorems                                                                *)

\* run(resume=True) refuses files it wrote itself for two causes only: an interruption
\* between the saves of the control state and of the checkpoint, or a support that is
\* not the same all along the checkpointed stage; never for a history that is final.
THEOREM FwiRefusalHasCause == Spec => []RefusalHasCause
<1>1. IInv /\ MasksInv => RefusalHasCause
      BY DEF IInv, PlanRefusedTorn, MasksInv, Varies, RefusalHasCause
<1> QED BY <1>1, Invariance, MasksInvariance, PTL

\* However often a stage is resumed, with masks measured anew, its vector keeps the
\* size of the masks measured at its start, or at the authored point.
THEOREM FwiSizeHeld == Spec => []SizeHeld
<1>1. MasksInv => SizeHeld
      BY DEF MasksInv, Fits, OfStart, At, StageModel, SizeHeld
<1> QED BY <1>1, MasksInvariance, PTL

-----------------------------------------------------------------------------
(* The abstract specification: stages in their order                       *)

Untouched(model, stage) == \A k \in Stages : k > stage => model.steps[k] = 0

\* A model that can be resumed has not been moved beyond the stage it is resumed at,
\* even when the state file has run ahead of its checkpoint.
OrderInv ==
  /\ InCall => Untouched(call.model, call.stage)
  /\ checkpoint.exists /\ InCall => Untouched(call.model, checkpoint.stage)
  /\ checkpoint.exists /\ state.status = "saved" => Untouched(state.model, checkpoint.stage)
  /\ call.pc = "truncated" => state.status = "torn"

\* Steps of a call that touch neither its model nor its outcome.
LEMMA CallGoesOn ==
  ASSUME call \in Calls,
         Linearize \/ FirstIterate \/ NextStage \/ \E ok \in BOOLEAN : EndStage(ok)
  PROVE  /\ call.pc # "idle" /\ call'.pc \in {"linearize", "save"}
         /\ call'.model = call.model /\ call'.outcome = call.outcome
         /\ ~NextStage => call'.stage = call.stage
         /\ UNCHANGED <<checkpoint, state, descents>>
<1>1. CASE Linearize
  <2>1. PICK masks : call' = [call EXCEPT !.pc = "save", !.checks = FALSE, !.masks = masks]
        BY <1>1, Zenon DEF Linearize
  <2>2. call.pc = "linearize" /\ UNCHANGED <<checkpoint, state, descents>>
        BY <1>1, Zenon DEF Linearize, counters
  <2> QED BY <2>1, <2>2 DEF Calls
<1>2. CASE FirstIterate
      BY <1>2 DEF FirstIterate, Record, Calls, counters
<1>3. CASE NextStage
      BY <1>3 DEF NextStage, Calls, files, counters
<1>4. CASE \E ok \in BOOLEAN : EndStage(ok)
      BY <1>4, Ends
<1> QED BY <1>1, <1>2, <1>3, <1>4

LEMMA OrderOutside ==
  ASSUME OrderInv, call'.pc = "idle", UNCHANGED <<checkpoint, state>>
  PROVE  OrderInv'
BY DEF OrderInv, InCall, Untouched

\* A step of a call that goes on with the same model, in the same or a later stage.
LEMMA OrderInside ==
  ASSUME IInv, OrderInv, InCall, UNCHANGED <<checkpoint, state>>, call'.pc # "truncated",
         call'.model = call.model, call'.stage \in Stages, call'.stage >= call.stage
  PROVE  OrderInv'
<1>1. call.stage \in Nat /\ call'.stage \in Nat /\ Stages \subseteq Nat
      BY FwiAssumption DEF IInv, TypeOK, Calls, Stages
<1>2. \A k \in Stages : k > call'.stage => k > call.stage
      BY <1>1
<1>3. Untouched(call'.model, call'.stage)
      BY <1>2 DEF OrderInv, Untouched
<1> QED BY <1>3 DEF OrderInv, InCall, Untouched

LEMMA NewCallOrder ==
  ASSUME IInv, OrderInv, Resume \/ \E resume \in BOOLEAN : Begin(resume)
  PROVE  OrderInv'
<1>1. UNCHANGED <<checkpoint, state>>
      BY DEF Resume, Begin, files
<1>2. CASE Resume
  <2>1. /\ call'.pc = "linearize" /\ call'.stage = PlannedStage /\ call'.model = state.model
        /\ checkpoint.exists /\ state.status = "saved"
        BY <1>2 DEF Resume, Idle, Loadable
  <2>2. checkpoint.stage \in Nat /\ Stages \subseteq Nat
        BY FwiAssumption DEF IInv, TypeOK, Stages
  <2>3. \A k \in Stages : k > PlannedStage => k > checkpoint.stage
        BY <2>2 DEF PlannedStage
  <2>4. Untouched(state.model, checkpoint.stage)
        BY <2>1 DEF OrderInv
  <2> QED BY <1>1, <2>1, <2>3, <2>4 DEF OrderInv, Untouched
<1>3. CASE \E resume \in BOOLEAN : Begin(resume)
  <2>1. call'.pc = "linearize" /\ \A k \in Stages : call'.model.steps[k] = 0
        BY <1>3 DEF Begin, Idle, Start
  <2> QED BY <1>1, <2>1 DEF OrderInv, Untouched
<1> QED BY <1>2, <1>3

LEMMA SaveOrder ==
  ASSUME IInv, OrderInv, TruncateState \/ WriteState \/ WriteCheckpoint
  PROVE  OrderInv'
<1>1. call'.stage = call.stage /\ call'.model = call.model /\ InCall
      BY DEF IInv, TypeOK, Calls, TruncateState, WriteState, WriteCheckpoint, InCall
<1>2. CASE TruncateState
  <2>1. state'.status = "torn" /\ checkpoint' = checkpoint
        BY <1>2 DEF IInv, TypeOK, TruncateState
  <2> QED BY <1>1, <2>1 DEF OrderInv, Untouched
<1>3. CASE WriteState
  <2>1. state'.model = call.model /\ checkpoint' = checkpoint /\ call'.pc = "written"
        BY <1>3 DEF IInv, TypeOK, Calls, WriteState
  <2> QED BY <1>1, <2>1 DEF OrderInv, Untouched
<1>4. CASE WriteCheckpoint
  <2>1. /\ checkpoint'.stage = call.stage /\ state' = state /\ state.model = call.model
        /\ call'.pc = call.then /\ call.then # "truncated"
        BY <1>4 DEF IInv, TypeOK, Calls, StateOfCheckpoint, WriteCheckpoint
  <2> QED BY <1>1, <2>1 DEF OrderInv, Untouched
<1> QED BY <1>2, <1>3, <1>4

\* What an iterate does to the call.
LEMMA Accepts ==
  ASSUME IInv, HistoryInv, Accept
  PROVE  /\ call.model \in Models /\ call.stage \in Stages
         /\ call'.pc = "save" /\ call'.stage = call.stage
         /\ call'.model = [call.model EXCEPT !.steps[call.stage] = @ + 1]
         /\ UNCHANGED <<checkpoint, state, descents>> /\ call'.outcome = call.outcome
         /\ AtCheckpoint /\ state.status = "saved" /\ state.model = call.model
<1>1. call \in Calls /\ call.model \in Models /\ call.stage \in Stages
      BY DEF IInv, TypeOK, Calls
<1> QED BY <1>1 DEF Accept, Record, Calls, counters, HistoryInv, CallKept

LEMMA AcceptOrder ==
  ASSUME IInv, HistoryInv, OrderInv, Accept
  PROVE  OrderInv'
<1>1. \A k \in Stages : k > call.stage => call'.model.steps[k] = call.model.steps[k]
  <2>1. call.stage \in Nat /\ Stages \subseteq Nat
        BY FwiAssumption, Accepts DEF Stages
  <2> QED BY <2>1, Accepts DEF Models
<1>2. Untouched(call'.model, call.stage)
      BY <1>1 DEF OrderInv, InCall, Untouched, Accept
<1> QED BY <1>2, Accepts DEF OrderInv, AtCheckpoint, Untouched

LEMMA NextOrder == IInv /\ HistoryInv /\ OrderInv /\ [Next]_vars => OrderInv'
<1> SUFFICES ASSUME IInv, HistoryInv, OrderInv, [Next]_vars PROVE OrderInv'
    OBVIOUS
<1>1. CASE Resume \/ \E resume \in BOOLEAN : Begin(resume)
      BY <1>1, NewCallOrder
<1>2. CASE Skip \/ RejectPlan \/ RejectModel \/ Finish \/ Raise \/ Kill
  <2>1. call'.pc = "idle" /\ UNCHANGED <<checkpoint, state>>
        BY <1>2 DEF Skip, RejectPlan, RejectModel, Finish, Raise, Kill, Interrupt, Return,
           Idle, files
  <2> QED BY <2>1, OrderOutside
<1>3. CASE TruncateState \/ WriteState \/ WriteCheckpoint
      BY <1>3, SaveOrder
<1>4. CASE Accept
      BY <1>4, AcceptOrder
<1>5. CASE Linearize \/ FirstIterate \/ NextStage \/ \E ok \in BOOLEAN : EndStage(ok)
  <2>1. call \in Calls /\ call.stage \in Stages /\ Stages = 0 .. N - 1 /\ N \in Nat
        BY FwiAssumption DEF IInv, TypeOK, Calls, Stages
  <2>2. InCall /\ UNCHANGED <<checkpoint, state>>
        BY <1>5, <2>1, CallGoesOn DEF InCall
  <2>3. call'.model = call.model /\ call'.pc # "truncated"
        BY <1>5, <2>1, CallGoesOn
  <2>4. call'.stage \in Stages /\ call'.stage >= call.stage
    <3>1. CASE ~NextStage
          BY <1>5, <2>1, <3>1, CallGoesOn
    <3>2. CASE NextStage
      <4>1. call'.stage = call.stage + 1 /\ call.stage + 1 < N
            BY <2>1, <3>2 DEF NextStage, Calls
      <4> QED BY <2>1, <4>1
    <3> QED BY <3>1, <3>2
  <2> QED BY <2>2, <2>3, <2>4, OrderInside
<1>6. CASE NewProcess \/ UNCHANGED vars
  <2>1. UNCHANGED <<checkpoint, state, call>>
        BY <1>6 DEF NewProcess, vars, files
  <2> QED BY <2>1 DEF OrderInv, InCall, Untouched
<1> QED BY <1>1, <1>2, <1>3, <1>4, <1>5, <1>6 DEF Next, Continue, Solve

SimulationInv == IInv /\ HistoryInv /\ OrderInv

LEMMA SimulationInvariance == Spec => []SimulationInv
<1>1. Init => OrderInv
      BY DEF Init, OrderInv, InCall, Idle
<1> QED BY <1>1, NextOrder, Invariance, HistoryInvariance, PTL DEF Spec, SimulationInv

-----------------------------------------------------------------------------
(* The refinement: one lemma per abstract action                           *)

LEMMA BeginSimulates ==
  ASSUME NEW resume \in BOOLEAN, Begin(resume)
  PROVE  Descent!Begin
<1>1. /\ call.pc = "idle" /\ call'.pc = "linearize" /\ call'.outcome = "none"
      /\ call'.model = Start(descents + 1) /\ descents' = descents + 1
      /\ UNCHANGED <<checkpoint, state>>
      BY DEF Begin, Idle, files
<1> QED BY <1>1 DEF Descent!Begin, Working, Durable, Result, Start

LEMMA ResumeSimulates == Resume => Descent!Recover
<1> SUFFICES ASSUME Resume PROVE Descent!Recover
    OBVIOUS
<1>1. /\ call.pc = "idle" /\ call'.pc = "linearize" /\ call'.outcome = "none"
      /\ call'.model = state.model /\ checkpoint.exists /\ state.status = "saved"
      /\ UNCHANGED <<checkpoint, state, descents>>
      BY DEF Resume, Loadable, Idle, counters
<1> QED BY <1>1 DEF Descent!Recover, Working, Durable, Result

LEMMA SaveSimulates ==
  ASSUME SimulationInv, TruncateState \/ WriteState \/ WriteCheckpoint
  PROVE  Descent!Replace \/ Descent!Save \/ UNCHANGED Descent!descentVars
<1>1. call \in Calls /\ state \in [status : {"none", "torn", "saved"}, model : Models,
                                   layout : Layouts]
      BY DEF SimulationInv, IInv, TypeOK
<1>2. /\ call.pc # "idle" /\ call'.pc # "idle" /\ call'.model = call.model
      /\ call'.outcome = call.outcome /\ descents' = descents
      BY <1>1 DEF TruncateState, WriteState, WriteCheckpoint, Calls, counters
<1>3. Working = {call.model} /\ UNCHANGED <<Working, Result, descents>>
      BY <1>2 DEF Working, Result
<1>4. CASE TruncateState
  <2>1. Durable' = {}
        BY <1>1, <1>4 DEF TruncateState, Durable
  <2> QED BY <1>3, <2>1 DEF Descent!Replace
<1>5. CASE WriteState
  <2>1. state.status = "torn" /\ state'.status = "saved" /\ state'.model = call.model
        /\ checkpoint' = checkpoint
        BY <1>5 DEF SimulationInv, OrderInv, WriteState
  <2>2. Durable = {} /\ Durable' \in {{}, {call.model}}
        BY <2>1 DEF Durable
  <2> QED BY <1>3, <2>2 DEF Descent!Save, Descent!descentVars
<1>6. CASE WriteCheckpoint
  <2>1. /\ state.status = "saved" /\ state.model = call.model /\ state' = state
        /\ checkpoint'.exists
        BY <1>6 DEF SimulationInv, IInv, StateOfCheckpoint, WriteCheckpoint
  <2>2. Durable \in {{}, {call.model}} /\ Durable' = {call.model}
        BY <2>1 DEF Durable
  <2> QED BY <1>3, <2>2 DEF Descent!Save, Descent!descentVars
<1> QED BY <1>4, <1>5, <1>6

LEMMA AcceptSimulates ==
  ASSUME SimulationInv, Accept
  PROVE  \E m \in Working : \E i \in Stages : Descent!Advance(m, i)
<1>1. /\ call.model \in Models /\ call.stage \in Stages
      /\ call'.pc = "save" /\ call'.stage = call.stage
      /\ call'.model = [call.model EXCEPT !.steps[call.stage] = @ + 1]
      /\ UNCHANGED <<checkpoint, state, descents>> /\ call'.outcome = call.outcome
      /\ AtCheckpoint /\ state.status = "saved" /\ state.model = call.model
      /\ call.pc = "solve" /\ call.outcome = "none"
      BY Accepts DEF SimulationInv, Accept, IInv, HistoryOfCall, InCall
<1>2. Working = {call.model} /\ Durable = {call.model} /\ Working' = {call'.model}
      BY <1>1 DEF Working, Durable, AtCheckpoint
<1>3. UNCHANGED <<Durable, Result, descents>>
      BY <1>1 DEF Durable, Result
<1>4. \A k \in Stages : k > call.stage => call.model.steps[k] = 0
      BY <1>1 DEF SimulationInv, OrderInv, InCall, Untouched
<1>5. Descent!Advance(call.model, call.stage)
      BY <1>1, <1>2, <1>3, <1>4 DEF Descent!Advance
<1> QED BY <1>1, <1>2, <1>5

LEMMA DoneSimulates ==
  ASSUME SimulationInv, Skip \/ Finish
  PROVE  Descent!Deliver
<1>1. UNCHANGED <<checkpoint, state, descents>>
      BY DEF Skip, Finish, counters
<1>2. /\ checkpoint.exists /\ state.status = "saved"
      /\ call.pc = "idle" \/ state.model = call.model
      /\ call'.pc = "idle" /\ call'.outcome = "done" /\ call'.model = state.model
      BY DEF Skip, Finish, Return, Idle, Loadable, SimulationInv, HistoryInv, CallKept,
             AtCheckpoint
<1>3. Durable = {state.model} /\ Durable' = {state.model} /\ Working \in {{}, {state.model}}
      /\ Working' = {} /\ Result' = {state.model}
      BY <1>1, <1>2 DEF Durable, Working, Result
<1> QED BY <1>1, <1>3 DEF Descent!Deliver

LEMMA LoseSimulates ==
  ASSUME RejectPlan \/ RejectModel \/ Raise \/ Kill
  PROVE  Descent!Lose
<1>1. /\ call'.pc = "idle" /\ call'.outcome # "done"
      /\ UNCHANGED <<checkpoint, state, descents>>
      BY DEF RejectPlan, RejectModel, Raise, Kill, Interrupt, Return, Idle, files, counters
<1> QED BY <1>1 DEF Descent!Lose, Working, Durable, Result

LEMMA StutterSimulates ==
  ASSUME SimulationInv,
         \/ Linearize \/ FirstIterate \/ NextStage \/ NewProcess \/ UNCHANGED vars
         \/ \E ok \in BOOLEAN : EndStage(ok)
  PROVE  UNCHANGED Descent!descentVars
<1>1. call \in Calls
      BY DEF SimulationInv, IInv, TypeOK
<1>2. CASE NewProcess \/ UNCHANGED vars
  <2>1. UNCHANGED <<checkpoint, state, call, descents>>
        BY <1>2 DEF NewProcess, vars, files, counters
  <2> QED BY <2>1 DEF Descent!descentVars, Working, Durable, Result
<1>3. CASE Linearize \/ FirstIterate \/ NextStage \/ \E ok \in BOOLEAN : EndStage(ok)
  <2>1. /\ UNCHANGED <<checkpoint, state, descents>>
        /\ call'.model = call.model /\ call'.outcome = call.outcome
        /\ call.pc # "idle" /\ call'.pc # "idle"
        BY <1>1, <1>3, CallGoesOn
  <2> QED BY <2>1 DEF Descent!descentVars, Working, Durable, Result
<1> QED BY <1>2, <1>3

LEMMA NextSimulates ==
  SimulationInv /\ [Next]_vars => [Descent!DescentNext]_(Descent!descentVars)
<1> SUFFICES ASSUME SimulationInv, [Next]_vars
             PROVE  Descent!DescentNext \/ UNCHANGED Descent!descentVars
    OBVIOUS
<1>1. CASE \E resume \in BOOLEAN : Begin(resume)
      BY <1>1, BeginSimulates DEF Descent!DescentNext
<1>2. CASE Resume
      BY <1>2, ResumeSimulates DEF Descent!DescentNext
<1>3. CASE TruncateState \/ WriteState \/ WriteCheckpoint
      BY <1>3, SaveSimulates DEF Descent!DescentNext
<1>4. CASE Accept
      BY <1>4, AcceptSimulates DEF Descent!DescentNext
<1>5. CASE Skip \/ Finish
      BY <1>5, DoneSimulates DEF Descent!DescentNext
<1>6. CASE RejectPlan \/ RejectModel \/ Raise \/ Kill
      BY <1>6, LoseSimulates DEF Descent!DescentNext
<1>7. CASE \/ Linearize \/ FirstIterate \/ NextStage \/ NewProcess \/ UNCHANGED vars
           \/ \E ok \in BOOLEAN : EndStage(ok)
      BY <1>7, StutterSimulates
<1> QED BY <1>1, <1>2, <1>3, <1>4, <1>5, <1>6, <1>7 DEF Next, Continue, Solve

\* A checkpointed inversion implements the durable descent, torn files included: it is
\* never more than an iterate ahead of what it can resume from, resumes from nothing
\* else, moves the stages in their order, and returns what is on disk.
THEOREM FwiImplementsDescent == Spec => ImplementsDescent
<1>1. Init => Descent!DescentInit
      BY DEF Init, Descent!DescentInit, Working, Durable, Result, Idle
<1>2. SimulationInv /\ [Next]_vars => [Descent!DescentNext]_(Descent!descentVars)
      BY NextSimulates
<1> QED BY <1>1, <1>2, SimulationInvariance, PTL
    DEF Spec, ImplementsDescent, Descent!DescentSpec

=============================================================================
