-------------------------- MODULE MCLinearizations --------------------------
(***************************************************************************)
(* A family of two problems for TLC: one that installs its points in the   *)
(* simulation, with one view, and one that stages them, with two views.    *)
(* One view of the latter is extended, the other is replaced.              *)
(***************************************************************************)
EXTENDS LinearizationsProps, TLC

CONSTANTS model, sources, stage, other, extended

MCProblemOf == model :> model @@ stage :> sources @@ other :> sources
MCViewOf == extended :> stage
=============================================================================
