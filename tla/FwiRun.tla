------------------------------- MODULE FwiRun -------------------------------
(***************************************************************************)
(* A staged inversion with checkpoint and history (imaging/workflows.py,   *)
(* class FWI): a call of run() resumes from the checkpoint or starts over, *)
(* solves stage after stage, and writes after every accepted iterate the   *)
(* history, the control state and the checkpoint: three files.  Calls are  *)
(* interrupted by exceptions, after which the process still holds its      *)
(* history, and by kills, after which only the files are left.             *)
(*                                                                         *)
(* The optimizer is abstract: it accepts iterates within its budget and    *)
(* stops when it likes.  A model is known by the descent it belongs to (a  *)
(* start without checkpoint begins a descent) and by the number of         *)
(* iterates accepted in each stage on the way to it.  The vector of a      *)
(* model has the coordinates that the support masks of the stage leave     *)
(* free; the solver measures them at a point, and what it measures there   *)
(* is a constant.                                                          *)
(***************************************************************************)
EXTENDS Naturals, Sequences, FiniteSets

CONSTANTS
  N,            \* number of stages
  Budget,       \* iterations of a stage
  Refined,      \* stages with controls: they change the control layout
  Dofs,         \* degrees of freedom of the controls
  Supported(_, _, _),  \* whether the solver supports one, for a stage, at a model
  MaxFaults,    \* bound: interruptions
  MaxDescents   \* bound: starts without a checkpoint

Stages == 0 .. N - 1

ASSUME FwiAssumption ==
  /\ N \in Nat \ {0} /\ Budget \in Nat \ {0}
  /\ Refined \subseteq Stages
  /\ MaxFaults \in Nat /\ MaxDescents \in Nat

VARIABLES
  checkpoint,  \* the checkpoint file
  state,       \* the control state file beside it
  history,     \* the history file
  memory,      \* the history object of the process, none in a new process
  call,        \* the call of run()
  ended,       \* stages of a descent whose optimizer has stopped
  descents,    \* descents begun
  faults,      \* interruptions so far
  torn         \* one of them fell between the saves of the state and the checkpoint

files == <<checkpoint, state, history>>
counters == <<ended, descents, faults, torn>>
vars == <<files, memory, call, counters>>

Layout(i) == Cardinality({k \in Refined : k <= i})
Start(d) == [descent |-> d, steps |-> [i \in Stages |-> 0]]
Authored == Start(0)
Idle == [pc |-> "idle", stage |-> 0, iteration |-> 0, checks |-> FALSE, model |-> Start(0),
         masks |-> {}, then |-> "first", ok |-> TRUE, outcome |-> "none"]

-----------------------------------------------------------------------------
(* The history: iteration records of a layout and a model, and a status.   *)
(* Evaluation records are left out: they only save the history.            *)

NoHistory == [status |-> "none", records |-> <<>>]
NewHistory == [status |-> "running", records |-> <<>>]
Saved(h) == memory' = h /\ history' = h
RecordIteration(h, r) ==
  IF h.records # <<>> /\ h.records[Len(h.records)] = r
    THEN h ELSE [h EXCEPT !.records = Append(@, r)]
Finished(h, status) == [h EXCEPT !.status = status]
\* Mutant of Stopped: the history of an interrupted call is final.
StoppedForGood(h) == IF h.status = "running" THEN Finished(h, "converged") ELSE h
Stopped(h) == IF h.status = "running" THEN Finished(h, "stopped") ELSE h

-----------------------------------------------------------------------------
(* run(): plan and open the history                                        *)

\* Mutant of StageOver: the last iteration counts as done when it begins.
StageOverEarly == checkpoint.completed \/ checkpoint.iteration + 1 >= Budget
StageOver == checkpoint.completed \/ checkpoint.iteration >= Budget
\* Mutant of PlannedStage: a resumed call goes through all the stages again.
PlannedStageFirst == 0
PlannedStage == IF StageOver THEN checkpoint.stage + 1 ELSE checkpoint.stage
\* Mutant of PlannedIteration: the resumed stage has its whole budget again.
PlannedIterationReset == 0
PlannedIteration == IF StageOver THEN 0 ELSE checkpoint.iteration

\* Mutant of Loadable: the state is read onto the layout of the next stage.
LoadableAhead == state.status = "saved" /\ state.layout = Layout(PlannedStage)
Loadable == state.status = "saved" /\ state.layout = Layout(checkpoint.stage)

Open == CASE memory # NoHistory -> memory
          [] memory = NoHistory /\ history # NoHistory -> history
          [] OTHER -> NewHistory
Return(outcome, model) ==
  call' = [Idle EXCEPT !.outcome = outcome, !.model = model]

\* No checkpoint, or resume=False.
Begin(resume) ==
  /\ call.pc = "idle"
  /\ resume => ~checkpoint.exists
  /\ descents < MaxDescents
  /\ descents' = descents + 1
  /\ call' = [Idle EXCEPT !.pc = "linearize", !.model = Start(descents + 1)]
  /\ memory' = IF memory.status = "running" THEN memory ELSE NewHistory
  /\ UNCHANGED <<files, ended, faults, torn>>

\* The checkpoint and the state are read; the interrupted stage, or the one after
\* the checkpointed stage, is next.
Resume ==
  /\ call.pc = "idle" /\ checkpoint.exists
  /\ Loadable /\ PlannedStage < N
  /\ Open.status # "converged"
  /\ call' = [Idle EXCEPT !.pc = "linearize",
                !.stage = PlannedStage, !.iteration = PlannedIteration,
                !.checks = PlannedIteration > 0, !.model = state.model]
  /\ IF Open.status = "running" THEN memory' = Open /\ UNCHANGED history
                                ELSE Saved([Open EXCEPT !.status = "running"])
  /\ UNCHANGED <<checkpoint, state, counters>>

\* Every stage was completed by an earlier call.
Skip ==
  /\ call.pc = "idle" /\ checkpoint.exists
  /\ Loadable /\ PlannedStage = N
  /\ IF Open.status = "running" THEN Saved(Finished(Open, "converged"))
                                ELSE memory' = Open /\ UNCHANGED history
  /\ Return("done", state.model)
  /\ UNCHANGED <<checkpoint, state, counters>>

\* The state cannot be read onto the layout of the checkpoint, or the history is final.
RejectPlan ==
  /\ call.pc = "idle" /\ checkpoint.exists
  /\ \/ ~Loadable
     \/ PlannedStage < N /\ Open.status = "converged"
  /\ Return("rejected", Start(0))
  /\ UNCHANGED <<files, memory, counters>>

-----------------------------------------------------------------------------
(* _solve_stage                                                            *)

\* The masks measured at a point leave these coordinates free.
Free(stage, point) == {d \in Dofs : Supported(d, stage, point)}

\* The first linearization of a stage's view adopts fresh masks, also in a resumed
\* call: those of its model or, if it has to discover the registry of its problem
\* first, in a new process or on a new layout, those of the authored point.
Measured == {Free(call.stage, point) : point \in {call.model, Authored}}

\* Mutant of SameSize: the shapes of the vectors are not compared.
SameSizeAnyway(masks) == TRUE
SameSize(masks) == Cardinality(masks) = Cardinality(checkpoint.masks)

\* The resumed vector must be the checkpointed one.  On other coordinates, if they are
\* as many, its values may happen to be the same.
Linearize ==
  /\ call.pc = "linearize"
  /\ \E masks \in Measured :
       /\ call.checks => call.model = checkpoint.model /\ SameSize(masks)
       /\ call' = [call EXCEPT !.pc = "save", !.checks = FALSE, !.masks = masks]
  /\ Saved(memory)
  /\ UNCHANGED <<checkpoint, state, counters>>

RejectModel ==
  /\ call.pc = "linearize" /\ call.checks
  /\ \E masks \in Measured : call.model # checkpoint.model \/ masks # checkpoint.masks
  /\ Saved(Stopped(memory))
  /\ Return("mismatched", Start(0))
  /\ UNCHANGED <<checkpoint, state, counters>>

\* _write_checkpoint: the state file is written in place, the checkpoint is replaced.
TruncateState ==
  /\ call.pc = "save"
  /\ state' = [state EXCEPT !.status = "torn"]
  /\ call' = [call EXCEPT !.pc = "truncated"]
  /\ UNCHANGED <<checkpoint, history, memory, counters>>

WriteState ==
  /\ call.pc = "truncated"
  /\ state' = [status |-> "saved", model |-> call.model, layout |-> Layout(call.stage)]
  /\ call' = [call EXCEPT !.pc = "written"]
  /\ UNCHANGED <<checkpoint, history, memory, counters>>

WriteCheckpoint ==
  /\ call.pc = "written"
  /\ checkpoint' = [exists |-> TRUE, stage |-> call.stage, iteration |-> call.iteration,
                    completed |-> call.then = "next",
                    model |-> call.model, masks |-> call.masks]
  /\ call' = [call EXCEPT !.pc = call.then]
  /\ UNCHANGED <<state, history, memory, counters>>

\* Mutant of Record: the history is not saved with every record.
RecordInMemory(model, iteration) ==
  /\ memory' = RecordIteration(memory, [layout |-> Layout(call.stage), model |-> model])
  /\ call' = [call EXCEPT !.pc = "save", !.then = "solve",
                          !.iteration = iteration, !.model = model]
  /\ UNCHANGED <<files, counters>>

\* The callback of an iterate, that of the first model included: it is recorded,
\* then checkpointed.
Record(model, iteration) ==
  /\ Saved(RecordIteration(memory, [layout |-> Layout(call.stage), model |-> model]))
  /\ call' = [call EXCEPT !.pc = "save", !.then = "solve",
                          !.iteration = iteration, !.model = model]
  /\ UNCHANGED <<checkpoint, state, counters>>

FirstIterate == call.pc = "first" /\ Record(call.model, call.iteration)

\* Mutant of Accept: the remaining budget is not passed on.
AcceptUnlimited ==
  /\ call.pc = "solve"
  /\ Record([call.model EXCEPT !.steps[call.stage] = @ + 1], call.iteration + 1)

\* Mutant of Accept: only the ends of the stages are checkpointed.
AcceptUnsaved ==
  /\ call.pc = "solve" /\ call.iteration < Budget
  /\ LET next == [call.model EXCEPT !.steps[call.stage] = @ + 1]
     IN /\ Saved(RecordIteration(memory, [layout |-> Layout(call.stage), model |-> next]))
        /\ call' = [call EXCEPT !.iteration = @ + 1, !.model = next]
  /\ UNCHANGED <<checkpoint, state, counters>>

Accept ==
  /\ call.pc = "solve" /\ call.iteration < Budget
  /\ Record([call.model EXCEPT !.steps[call.stage] = @ + 1], call.iteration + 1)

\* The optimizer stops: it has converged, failed (not ok) or used its budget.
EndStage(ok) ==
  /\ call.pc = "solve"
  /\ call' = [call EXCEPT !.pc = "save", !.then = "next", !.ok = @ /\ ok]
  /\ ended' = ended \cup {<<call.model.descent, call.stage>>}
  /\ UNCHANGED <<files, memory, descents, faults, torn>>

\* The state is transferred to the next stage, which starts with fresh masks.
NextStage ==
  /\ call.pc = "next" /\ call.stage + 1 < N
  /\ call' = [call EXCEPT !.pc = "linearize", !.stage = @ + 1, !.iteration = 0,
                          !.masks = {}, !.then = "first"]
  /\ UNCHANGED <<files, memory, counters>>

Finish ==
  /\ call.pc = "next" /\ call.stage + 1 = N
  /\ Saved(Finished(memory, IF call.ok THEN "converged" ELSE "stopped"))
  /\ Return("done", call.model)
  /\ UNCHANGED <<checkpoint, state, counters>>

-----------------------------------------------------------------------------
(* Interruptions                                                           *)

Interrupt(outcome) ==
  /\ call.pc # "idle" /\ faults < MaxFaults
  /\ faults' = faults + 1
  /\ torn' = (torn \/ call.pc \in {"truncated", "written"})
  /\ Return(outcome, Start(0))
  /\ UNCHANGED <<checkpoint, state, ended, descents>>

\* An exception (of a solver, a callback, the user): the history is finished.
Raise == Interrupt("raised") /\ Saved(Stopped(memory))

Kill == Interrupt("killed") /\ memory' = NoHistory /\ UNCHANGED history

\* The next call is made by another process.
NewProcess ==
  /\ call.pc = "idle" /\ memory # NoHistory
  /\ memory' = NoHistory
  /\ UNCHANGED <<files, call, counters>>

-----------------------------------------------------------------------------
Init ==
  /\ checkpoint = [exists |-> FALSE, stage |-> 0, iteration |-> 0, completed |-> FALSE,
                   model |-> Start(0), masks |-> {}]
  /\ state = [status |-> "none", model |-> Start(0), layout |-> Layout(0)]
  /\ history = NoHistory /\ memory = NoHistory
  /\ call = Idle
  /\ ended = {} /\ descents = 0 /\ faults = 0 /\ torn = FALSE

Solve == Linearize \/ RejectModel \/ TruncateState \/ WriteState \/ WriteCheckpoint \/ FirstIterate
           \/ Accept \/ (\E ok \in BOOLEAN : EndStage(ok)) \/ NextStage \/ Finish
Continue == Resume \/ Skip

Next ==
  \/ \E resume \in BOOLEAN : Begin(resume)
  \/ Continue \/ RejectPlan \/ Solve
  \/ Raise \/ Kill \/ NewProcess

Spec == Init /\ [][Next]_vars

\* A call of run() goes on, and the caller calls run() again after an interruption.
Fairness == WF_vars(Solve) /\ WF_vars(Continue)
FairSpec == Spec /\ Fairness
=============================================================================
