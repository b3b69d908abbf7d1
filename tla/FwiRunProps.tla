---------------------------- MODULE FwiRunProps ----------------------------
(* What a checkpointed inversion promises. *)
EXTENDS FwiRun

Layouts == {Layout(i) : i \in Stages}
Models == [descent : 0 .. MaxDescents, steps : [Stages -> Nat]]
Histories == [status : {"none", "running", "stopped", "converged"},
              records : Seq([layout : Layouts, model : Models])]

Calls == [pc : {"idle", "linearize", "save", "truncated", "written", "first", "solve", "next"},
          stage : Stages, iteration : 0 .. Budget, checks : BOOLEAN, model : Models,
          masks : SUBSET Dofs, then : {"first", "solve", "next"}, ok : BOOLEAN,
          outcome : {"none", "done", "raised", "killed", "rejected", "mismatched"}]

\* Every file, and the call, hold what run() can write.
TypeOK ==
  /\ checkpoint \in [exists : BOOLEAN, stage : Stages, iteration : 0 .. Budget,
                     completed : BOOLEAN, model : Models, masks : SUBSET Dofs]
  /\ state \in [status : {"none", "torn", "saved"}, model : Models, layout : Layouts]
  /\ history \in Histories /\ memory \in Histories
  /\ call \in Calls
  /\ ended \subseteq (0 .. MaxDescents) \X Stages
  /\ descents \in 0 .. MaxDescents /\ faults \in 0 .. MaxFaults /\ torn \in BOOLEAN

\* run(resume=True) continues what it has written itself: no plan, no model and no
\* history of its own is refused.
NeverRejected == call.outcome \notin {"rejected", "mismatched"}

\* The points at which the calls that worked on the checkpointed stage may have
\* measured its support: the authored one, and its iterates up to the checkpoint.
StageModel(k) == [checkpoint.model EXCEPT !.steps[checkpoint.stage] = k]
Path == {Authored} \cup {StageModel(k) : k \in 0 .. checkpoint.iteration}

\* A refusal has one of two causes.  An interruption fell between the save of the
\* control state and that of the checkpoint; or the support measured along the
\* checkpointed stage is not everywhere the same, since a resumed call adopts the
\* masks of where it resumes.  The plan and the history are only refused for the first.
RefusalHasCause ==
  /\ call.outcome = "rejected" => torn
  /\ call.outcome = "mismatched" =>
       torn \/ \E p, q \in Path : Free(checkpoint.stage, p) # Free(checkpoint.stage, q)

\* A stage keeps the size of the vector it was started with: however often it is
\* resumed, with masks measured anew each time, the optimizer goes on in a vector as
\* long as that of the masks of the stage's start, or of the authored point.
SizeHeld ==
  checkpoint.exists /\ ~torn =>
    Cardinality(checkpoint.masks) \in
      {Cardinality(Free(checkpoint.stage, p)) : p \in {Authored, StageModel(0)}}

\* However often a stage is interrupted and resumed, the model on disk is never
\* more than its budget of iterates away from the one the stage started with.
BudgetKept ==
  checkpoint.exists /\ ~torn =>
    /\ checkpoint.model.steps[checkpoint.stage] = checkpoint.iteration
    /\ \A i \in Stages : checkpoint.model.steps[i] <= Budget

\* A checkpointed iterate is in the history of its descent.
HistoryCovers ==
  checkpoint.exists /\ checkpoint.iteration > 0 =>
    LET at(k) == history.records[k]
        mine == {k \in DOMAIN history.records :
                   at(k).model.descent = checkpoint.model.descent}
    IN mine # {} => \E k \in mine : at(k) = [layout |-> Layout(checkpoint.stage),
                                              model |-> checkpoint.model]

\* A call that returns has a model whose stages are all over: the optimizer of each
\* has stopped, in this call or an earlier one, or has used its budget.
DoneIsDone ==
  call.outcome = "done" /\ ~torn =>
    \A i \in Stages : \/ <<call.model.descent, i>> \in ended
                      \/ call.model.steps[i] = Budget

\* A resumed call is at most one accepted iterate behind the history.
LosesAtMostOne ==
  [][Resume =>
       \A k \in DOMAIN history.records :
         LET r == history.records[k].model
         IN r.descent = call'.model.descent =>
              \A i \in Stages : r.steps[i] <= call'.model.steps[i] + 1]_vars

\* Once there is a checkpoint, an inversion that is run again after every
\* interruption returns, or is refused for the causes of RefusalHasCause.
Completes == checkpoint.exists ~> call.outcome \in {"done", "mismatched"} \/ torn

-----------------------------------------------------------------------------
(* The abstract specification                                              *)

Working == IF call.pc = "idle" THEN {} ELSE {call.model}
Durable == IF checkpoint.exists /\ state.status = "saved" THEN {state.model} ELSE {}
Result == IF call.outcome = "done" THEN {call.model} ELSE {}

Descent == INSTANCE DurableDescent WITH
  working <- Working, durable <- Durable, result <- Result, begun <- descents

\* However often run() is interrupted, in whatever process it goes on: it never works
\* more than one iterate ahead of the checkpoint, moves the stages in their order,
\* resumes from what it saved last, and returns a model that is on disk.
ImplementsDescent == Descent!DescentSpec

=============================================================================
