--------------------------- MODULE DurableDescent ---------------------------
(***************************************************************************)
(* What a checkpointed inversion promises whatever interrupts it, with     *)
(* nothing said of its files: it works on a model that is never more than  *)
(* one accepted iterate ahead of the one that can be read back; it moves   *)
(* the stages in their order; an interruption takes it back to what can be *)
(* read back, or to nothing if that was just being replaced; and what it   *)
(* returns is what can be read back.                                       *)
(***************************************************************************)
EXTENDS Naturals

CONSTANT Stages

\* Each holds a model or is empty, but for the last.
VARIABLES
  working,  \* the model of the call
  durable,  \* the model that another process would resume from
  result,   \* the model that the last call has returned
  begun     \* number of descents begun

descentVars == <<working, durable, result, begun>>

DescentInit ==
  /\ working = {} /\ durable = {} /\ result = {}
  /\ begun = 0

Begin ==
  /\ working = {}
  /\ begun' = begun + 1
  /\ working' = {[descent |-> begun', steps |-> [i \in Stages |-> 0]]}
  /\ result' = {}
  /\ UNCHANGED durable

Recover ==
  /\ working = {} /\ durable # {}
  /\ working' = durable /\ result' = {}
  /\ UNCHANGED <<durable, begun>>

\* An iterate of a stage is accepted, on top of what can be read back.
Advance(m, i) ==
  /\ working = {m} /\ durable = {m}
  /\ \A k \in Stages : k > i => m.steps[k] = 0
  /\ working' = {[m EXCEPT !.steps[i] = @ + 1]}
  /\ UNCHANGED <<durable, result, begun>>

\* A save is two steps.
Replace ==
  /\ working # {}
  /\ durable' = {}
  /\ UNCHANGED <<working, result, begun>>

Save ==
  /\ working # {} /\ durable = {}
  /\ durable' = working
  /\ UNCHANGED <<working, result, begun>>

Lose ==
  /\ working' = {} /\ result' = {}
  /\ UNCHANGED <<durable, begun>>

Deliver ==
  /\ durable # {}
  /\ working \in {{}, durable}
  /\ working' = {} /\ result' = durable
  /\ UNCHANGED <<durable, begun>>

DescentNext ==
  \/ Begin \/ Recover \/ Replace \/ Save \/ Lose \/ Deliver
  \/ \E m \in working : \E i \in Stages : Advance(m, i)

DescentSpec == DescentInit /\ [][DescentNext]_descentVars
=============================================================================
