------------------------------ MODULE MCFwiRun ------------------------------
(***************************************************************************)
(* What the solver supports, for TLC.  In the first stage an iterate       *)
(* trades one degree of freedom for another: the masks change and not      *)
(* their size.  In the second stage each iterate of either adds one: the   *)
(* authored point, the start of the stage and its iterates differ in size. *)
(***************************************************************************)
EXTENDS FwiRunProps

CONSTANTS deep, shallow, edge

MCSupported(d, stage, m) ==
  \/ d = deep
  \/ d = shallow /\ (stage = 0 <=> m.steps[0] = 0)
  \/ d = edge /\ m.steps[stage] > 0

\* Every degree of freedom is supported everywhere.
SupportedEverywhere(d, stage, m) == TRUE
=============================================================================
