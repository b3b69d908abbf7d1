------------------------------ MODULE TaskPool ------------------------------
(***************************************************************************)
(* What the adaptive scheduler promises, with nothing said of how it       *)
(* chooses: every task is started at most once, alone on the ranks it is   *)
(* given, its outcome is final, and nothing is started any more once the   *)
(* failures exceed the tolerance.                                          *)
(***************************************************************************)
CONSTANTS
  Tasks,      \* the tasks of the sweep
  Ranks,      \* the ranks that can be given to them
  Tolerated(_) \* whether the sweep goes on when these tasks have failed

VARIABLES
  state,  \* where each task is
  held    \* the ranks each task holds

poolVars == <<state, held>>

States == {"waiting", "running", "succeeded", "failed", "stopped"}

Failures == {t \in Tasks : state[t] = "failed"}

PoolInit ==
  /\ state = [t \in Tasks |-> "waiting"]
  /\ held = [t \in Tasks |-> {}]

Start(t, ranks) ==
  /\ state[t] = "waiting"
  /\ Tolerated(Failures)
  /\ \A u \in Tasks : state[u] # "stopped" /\ held[u] \cap ranks = {}
  /\ ranks # {}
  /\ state' = [state EXCEPT ![t] = "running"]
  /\ held' = [held EXCEPT ![t] = ranks]

Settle(t, outcome) ==
  /\ state[t] = "running"
  /\ state' = [state EXCEPT ![t] = outcome]
  /\ held' = [held EXCEPT ![t] = {}]

GiveUp ==
  /\ ~Tolerated(Failures)
  /\ state' = [t \in Tasks |-> IF state[t] = "running" THEN "stopped" ELSE state[t]]
  /\ held' = [t \in Tasks |-> {}]

PoolNext ==
  \/ \E t \in Tasks : \E ranks \in SUBSET Ranks : Start(t, ranks)
  \/ \E t \in Tasks : \E outcome \in {"succeeded", "failed"} : Settle(t, outcome)
  \/ GiveUp

PoolSpec == PoolInit /\ [][PoolNext]_poolVars
=============================================================================
