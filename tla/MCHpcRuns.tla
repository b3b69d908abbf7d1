----------------------------- MODULE MCHpcRuns -----------------------------
(***************************************************************************)
(* Instances of the Slurm runs for TLC.                                    *)
(***************************************************************************)
EXTENDS HpcRunsProps, TLC

CONSTANTS v1, v2

MCKills == {"TIMEOUT"}
MCKillsMemory == {"TIMEOUT"} \cup OutOfMemory

\* Nothing tells one definition from another: for the run without liveness.
MCSymmetry == Permutations({v1, v2})
=============================================================================
