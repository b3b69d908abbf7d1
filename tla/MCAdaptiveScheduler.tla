------------------------ MODULE MCAdaptiveScheduler ------------------------
(***************************************************************************)
(* Instances of the adaptive scheduler for TLC.  The estimates are in      *)
(* units of the memory of one rank over four, so that the divisions round. *)
(***************************************************************************)
EXTENDS AdaptiveSchedulerProps

MCEstimates == {1, 9, 40}
=============================================================================
