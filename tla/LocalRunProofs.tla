--------------------------- MODULE LocalRunProofs ---------------------------
(***************************************************************************)
(* What holds of every local site, for every number of runs, jobs and      *)
(* tasks and every way they may be interrupted.                            *)
(***************************************************************************)
EXTENDS LocalRunProps, FiniteSetTheorems, TLAPS

-----------------------------------------------------------------------------
(* The inductive invariant                                                 *)

HandlesInv ==
  \A r \in Runs :
    /\ run[r].pc = "idle" => run[r] = NoRun
    /\ run[r].pc # "idle" => Job(r) \in Jobs
    /\ run[r].pc = "over" <=> run[r].result # None
    /\ run[r].pc = "mesh" => \A k \in Steps \ {"mesh"} : run[r].future[k] = None
    /\ run[r].pc = "active" => run[r].future["pack"] = None

\* A run-state file that is final before its run is, is that of a run being judged.
Agree(status, handle) ==
  IF handle.result = None
    THEN handle.pc = "judged" /\ status = "completed"
    ELSE status = handle.result \/ (status = "failed" /\ handle.result = "raised")
RecordsInv ==
  \A j \in Jobs, r \in Runs :
    record[j].by = r =>
      /\ run[r].pc # "idle" /\ Job(r) = j
      /\ record[j].status \in Final => Agree(record[j].status, run[r])

\* A key is of the job whose run created the execution.
KeysInv ==
  \A q \in Keys : key[q] # None => /\ run[key[q]].pc # "idle" /\ Job(key[q]) = q[1]
                                   /\ ex[key[q]][q[2]].state # "none"

\* Only a run that was submitted has executions; a solver has read its input.
ReadsInv ==
  \A r \in Runs, k \in Steps :
    /\ ex[r][k].state # "none" => run[r].pc # "idle" /\ run[r].future[k] = r
    /\ ex[r][k].solver => /\ ex[r][k].state \in {"running", "error", "cancelled"}
                          /\ ex[r][k].read \in ReadBy(k)

IInv == TypeOK /\ HandlesInv /\ RecordsInv /\ KeysInv /\ ReadsInv

-----------------------------------------------------------------------------
(* Helpers                                                                 *)

LEMMA StepsNames ==
  /\ {"mesh", "post", "pack"} \subseteq Steps /\ Tasks \subseteq Steps
  /\ \A k \in Tasks : k # "mesh" /\ k # "post" /\ k # "pack"
BY LocalAssumption DEF Steps

LEMMA NoRunType == NoRun \in Handles /\ \A k : NoExecution \in Executions(k)
<1>1. 0 \in Contents
      BY LocalAssumption DEF Contents
<1>2. [k \in Steps |-> None] \in [Steps -> Runs \cup {None}]
      OBVIOUS
<1>3. {} \in SUBSET Tasks
      OBVIOUS
<1>4. NoRun \in Handles
      BY <1>1, <1>2, <1>3 DEF NoRun, Handles
<1>5. \A k : NoExecution \in Executions(k)
      BY DEF NoExecution, Executions
<1> QED BY <1>4, <1>5

\* Another step of the execution is an execution.
LEMMA ExecutionType ==
  ASSUME NEW k, NEW e \in Executions(k)
  PROVE  /\ e.state \in {"none", "queued", "running", "done", "error", "cancelled"}
         /\ \A s \in {"none", "queued", "running", "done", "error", "cancelled"} :
              /\ [e EXCEPT !.state = s] \in Executions(k)
              /\ [e EXCEPT !.state = s].solver = e.solver
              /\ [e EXCEPT !.state = s].state = s
              /\ [e EXCEPT !.state = s].read = e.read
BY DEF Executions, Over

\* A submission: the futures of K are there, the executions of others are left alone.
LEMMA SubmitFuturesType ==
  ASSUME TypeOK, NEW r \in Runs, NEW h \in Handles, h.job \in Jobs, NEW K \in SUBSET Steps,
         SubmitFutures(r, h, K)
  PROVE  /\ key' \in [Keys -> Runs \cup {None}] /\ held' \subseteq Runs \X Steps
         /\ client' \in BOOLEAN /\ run' \in [Runs -> Handles]
         /\ ex' = [s \in Runs |-> [k \in Steps |-> ex'[s][k]]]
         /\ \A s \in Runs, k \in Steps :
              /\ ex'[s][k] \in Executions(k)
              /\ \/ ex'[s][k] = ex[s][k]
                 \/ /\ s = r /\ k \in K /\ run'[r].future[k] = r
                    /\ ex'[s][k].state = "queued" /\ ~ex'[s][k].solver
         /\ \A s \in Runs \ {r} : run'[s] = run[s]
         /\ run'[r].job = h.job /\ run'[r].pc = h.pc /\ run'[r].result = h.result
         /\ run'[r].polled = h.polled /\ run'[r].cancelled = h.cancelled
         /\ \A k \in Steps : IF k \in K THEN run'[r].future[k] \in Runs
                                        ELSE run'[r].future[k] = h.future[k]
         /\ \A p \in Keys :
              \/ key'[p] \in {key[p], None}
              \/ /\ key'[p] = r /\ p[1] = h.job /\ p[2] \in Steps
                 /\ ex'[r][p[2]].state = "queued"
<1> DEFINE q(k) == <<h.job, k, h.fresh \/ k = "pack">>
           new == {k \in K : key[q(k)] = None}
           f == [k \in Steps |-> IF k \in new THEN r
                                 ELSE IF k \in K THEN key[q(k)] ELSE h.future[k]]
           e == [k \in Steps |-> IF k \in new THEN [NoExecution EXCEPT !.state = "queued"]
                                 ELSE ex[r][k]]
<1>1. /\ key \in [Keys -> Runs \cup {None}] /\ held \subseteq Runs \X Steps
      /\ run \in [Runs -> Handles]
      /\ ex = [s \in Runs |-> [k \in Steps |-> ex[s][k]]]
      /\ \A s \in Runs, k \in Steps : ex[s][k] \in Executions(k)
      BY DEF TypeOK
<1>2. "mesh" \in Steps
      BY StepsNames
<1>3. \A k \in Steps : q(k) \in Keys
  <2>1. \A k \in Steps, b \in BOOLEAN : <<h.job, k, b>> \in Keys
        BY DEF Keys
  <2>2. \A k : (h.fresh \/ k = "pack") \in BOOLEAN
        OBVIOUS
  <2> QED BY <2>1, <2>2
<1>4. \A p \in Keys, k \in Steps : p = q(k) => p[1] = h.job /\ p[2] = k
      OBVIOUS
<1>5. key' = [p \in Keys |-> IF \E k \in new : p = q(k) THEN r
                             ELSE IF p = q("mesh") /\ <<r, "mesh">> \in held THEN None
                             ELSE key[p]]
      BY DEF SubmitFutures
<1>6. ex' = [ex EXCEPT ![r] = e]
      BY DEF SubmitFutures
<1>7. run' = [run EXCEPT ![r] = [h EXCEPT !.future = f]]
      BY DEF SubmitFutures
<1>8. held' = (held \ {<<r, "mesh">>}) \cup {<<r, k>> : k \in K} /\ client' = TRUE
      BY DEF SubmitFutures
<1>9. f \in [Steps -> Runs \cup {None}]
  <2>1. \A k \in Steps : h.future[k] \in Runs \cup {None}
        BY DEF Handles
  <2>2. \A k \in Steps : key[q(k)] \in Runs \cup {None}
        BY <1>1, <1>3
  <2> QED BY <2>1, <2>2
<1>10. \A k \in K \ new : key[q(k)] \in Runs
      BY <1>1, <1>3
<1>11. \A k \in Steps : IF k \in K THEN f[k] \in Runs ELSE f[k] = h.future[k]
      BY <1>10
<1>12. \A k \in Steps : /\ e[k] \in Executions(k)
                        /\ \/ e[k] = ex[r][k]
                           \/ /\ k \in K /\ f[k] = r
                              /\ e[k].state = "queued" /\ ~e[k].solver
  <2>1. \A k : LET n == [NoExecution EXCEPT !.state = "queued"]
               IN n \in Executions(k) /\ n.state = "queued" /\ ~n.solver
        BY DEF NoExecution, Executions
  <2> QED BY <1>1, <2>1
<1>13. key' \in [Keys -> Runs \cup {None}]
       /\ \A p \in Keys :
            \/ key'[p] \in {key[p], None}
            \/ key'[p] = r /\ p[1] = h.job /\ p[2] \in new
  <2>1. key' \in [Keys -> Runs \cup {None}]
        BY <1>1, <1>5
  <2>2. ASSUME NEW p \in Keys, NEW k \in new, p = q(k)
        PROVE  key'[p] = r /\ p[1] = h.job /\ p[2] \in new
        BY <1>4, <1>5, <2>2
  <2>3. ASSUME NEW p \in Keys, ~ \E k \in new : p = q(k)
        PROVE  key'[p] \in {key[p], None}
        BY <1>5, <2>3
  <2> QED BY <2>1, <2>2, <2>3
<1>21. \A k \in new : k \in Steps /\ e[k].state = "queued"
      BY DEF NoExecution
<1> HIDE DEF q, new, f, e
<1> DEFINE g == [h EXCEPT !.future = f]
<1>14. g \in Handles /\ g.future = f /\ g.job = h.job /\ g.pc = h.pc /\ g.result = h.result
       /\ g.polled = h.polled /\ g.cancelled = h.cancelled
      BY <1>9 DEF Handles
<1>23. run' = [run EXCEPT ![r] = g]
      BY <1>7
<1> HIDE DEF g
<1>15. /\ run' \in [Runs -> Handles] /\ run'[r].future = f
       /\ run'[r].job = h.job /\ run'[r].pc = h.pc /\ run'[r].result = h.result
       /\ run'[r].polled = h.polled /\ run'[r].cancelled = h.cancelled
       /\ \A s \in Runs \ {r} : run'[s] = run[s]
      BY <1>1, <1>14, <1>23
<1>16. \A s \in Runs : ex'[s] = IF s = r THEN e ELSE ex[s]
      BY <1>1, <1>6
<1>17. DOMAIN e = Steps /\ e = [k \in Steps |-> e[k]]
      BY DEF e
<1>18. ex' = [s \in Runs |-> [k \in Steps |-> ex'[s][k]]]
  <2>1. ex' = [s \in Runs |-> IF s = r THEN e ELSE ex[s]]
        BY <1>1, <1>6
  <2>2. \A s \in Runs : ex[s] = [k \in Steps |-> ex[s][k]]
        BY <1>1
  <2>3. \A s \in Runs : ex'[s] = [k \in Steps |-> ex'[s][k]]
        BY <1>16, <1>17, <2>2
  <2> QED BY <2>1, <2>3
<1>19. \A s \in Runs, k \in Steps :
         /\ ex'[s][k] \in Executions(k)
         /\ \/ ex'[s][k] = ex[s][k]
            \/ /\ s = r /\ k \in K /\ run'[r].future[k] = r
               /\ ex'[s][k].state = "queued" /\ ~ex'[s][k].solver
      BY <1>1, <1>12, <1>15, <1>16, ZenonT(60)
<1>20. held' \subseteq Runs \X Steps /\ client' \in BOOLEAN
      BY <1>1, <1>8
<1>22. \A p \in Keys :
        \/ key'[p] \in {key[p], None}
        \/ /\ key'[p] = r /\ p[1] = h.job /\ p[2] \in Steps
           /\ ex'[r][p[2]].state = "queued"
      BY <1>13, <1>16, <1>21
<1> QED BY <1>11, <1>13, <1>15, <1>18, <1>19, <1>20, <1>22

\* A cancellation changes states only, and only those of executions known by a key
\* of the job, or all of them when the client is closed.
LEMMA LetGoType ==
  ASSUME TypeOK, NEW r \in Runs, Job(r) \in Jobs,
         NEW C \in SUBSET Steps, NEW R, LetGo(r, C, R)
  PROVE  /\ key' \in [Keys -> Runs \cup {None}] /\ held' \subseteq Runs \X Steps
         /\ client' \in BOOLEAN
         /\ ex' = [s \in Runs |-> [k \in Steps |-> ex'[s][k]]]
         /\ \A s \in Runs, k \in Steps :
              /\ ex'[s][k] \in Executions(k)
              /\ ex'[s][k].read = ex[s][k].read
              /\ ex'[s][k].solver => ex[s][k].solver
              /\ \/ ex'[s][k].state = ex[s][k].state
                 \/ /\ ex'[s][k].state = "cancelled"
                    /\ \E p \in Keys :
                        /\ key[p] = s /\ p[2] = k
                        /\ run[r].shutdown \/ p[1] = Job(r)
         /\ \A p \in Keys : key'[p] \in {key[p], None}
<1>1. /\ key \in [Keys -> Runs \cup {None}] /\ held \subseteq Runs \X Steps
      /\ client \in BOOLEAN
      /\ \A s \in Runs, k \in Steps : ex[s][k] \in Executions(k)
      BY DEF TypeOK
<1>2. CASE run[r].shutdown
  <2>1. CloseClient
        BY <1>2, SMTT(30) DEF LetGo
  <2>2. PICK orphans \in SUBSET {p \in Runs \X Steps : ex[p[1]][p[2]].solver} :
          ex' = [s \in Runs |-> [k \in Steps |->
                  [ex[s][k] EXCEPT
                     !.state = IF \E q \in Keys : key[q] = s /\ q[2] = k
                                 THEN "cancelled" ELSE ex[s][k].state,
                     !.solver = <<s, k>> \in orphans]]]
        BY <2>1 DEF CloseClient
  <2>3. /\ key' = [q \in Keys |-> None] /\ held' = {} /\ client' = FALSE
        BY <2>1 DEF CloseClient
  <2>4. ASSUME NEW s \in Runs, NEW k \in Steps
        PROVE  /\ ex'[s][k] \in Executions(k)
               /\ ex'[s][k].read = ex[s][k].read
               /\ ex'[s][k].solver => ex[s][k].solver
               /\ \/ ex'[s][k].state = ex[s][k].state
                  \/ /\ ex'[s][k].state = "cancelled"
                     /\ \E p \in Keys : key[p] = s /\ p[2] = k
    <3>1. ex[s][k] \in Executions(k)
          BY <1>1
    <3>2. \A t \in {ex[s][k].state, "cancelled"}, b \in BOOLEAN :
            LET e == [ex[s][k] EXCEPT !.state = t, !.solver = b]
            IN e \in Executions(k) /\ e.read = ex[s][k].read /\ e.state = t
               /\ (~b => ~e.solver)
          BY <3>1 DEF Executions, Over
    <3>3. (<<s, k>> \in orphans) \in BOOLEAN /\ (<<s, k>> \in orphans => ex[s][k].solver)
          OBVIOUS
    <3> DEFINE t == IF \E q \in Keys : key[q] = s /\ q[2] = k
                      THEN "cancelled" ELSE ex[s][k].state
    <3>4. ex'[s][k] = [ex[s][k] EXCEPT !.state = t, !.solver = <<s, k>> \in orphans]
          BY <2>2
    <3>5. \/ t = ex[s][k].state
          \/ t = "cancelled" /\ \E p \in Keys : key[p] = s /\ p[2] = k
          OBVIOUS
    <3> HIDE DEF t
    <3> DEFINE b == <<s, k>> \in orphans
    <3>6. b \in BOOLEAN /\ (b => ex[s][k].solver)
          BY <3>3
    <3>7. ex'[s][k] = [ex[s][k] EXCEPT !.state = t, !.solver = b]
          BY <3>4
    <3> HIDE DEF b
    <3>8. ex'[s][k] \in Executions(k) /\ ex'[s][k].read = ex[s][k].read
          /\ ex'[s][k].state = t /\ (~b => ~ex'[s][k].solver)
      <4>1. t \in {ex[s][k].state, "cancelled"}
            BY <3>5
      <4> QED BY <3>2, <3>6, <3>7, <4>1, ZenonT(60)
    <3>9. ex'[s][k].solver => ex[s][k].solver
          BY <3>6, <3>8
    <3> QED BY <3>5, <3>8, <3>9
  <2>5. ex' = [s \in Runs |-> [k \in Steps |-> ex'[s][k]]]
        BY <2>2
  <2>6. key' \in [Keys -> Runs \cup {None}] /\ \A p \in Keys : key'[p] \in {key[p], None}
        BY <2>3
  <2>7. ASSUME NEW s \in Runs, NEW k \in Steps
        PROVE  \/ ex'[s][k].state = ex[s][k].state
               \/ /\ ex'[s][k].state = "cancelled"
                  /\ \E p \in Keys :
                       /\ key[p] = s /\ p[2] = k
                       /\ run[r].shutdown \/ p[1] = Job(r)
    <3>1. \/ ex'[s][k].state = ex[s][k].state
          \/ ex'[s][k].state = "cancelled" /\ \E p \in Keys : key[p] = s /\ p[2] = k
          BY <2>4
    <3> QED BY <1>2, <3>1
  <2>8. held' \subseteq Runs \X Steps /\ client' \in BOOLEAN
        BY <2>3
  <2> QED BY <2>4, <2>5, <2>6, <2>7, <2>8
<1>3. CASE ~run[r].shutdown
  <2> DEFINE gone == {KeyOf(r, k) : k \in C}
  <2>1. DropFutures(r, C, R)
        BY <1>3 DEF LetGo
  <2>2. ex' = [s \in Runs |-> [k \in Steps |-> [ex[s][k] EXCEPT !.state =
                  IF \E q \in gone : q[2] = k /\ key[q] = s
                    THEN "cancelled" ELSE ex[s][k].state]]]
        BY <2>1 DEF DropFutures
  <2>3. /\ held' = held \ {<<r, k>> : k \in R} /\ client' = client
        BY <2>1 DEF DropFutures
  <2>4. key' \in [Keys -> Runs \cup {None}] /\ \A p \in Keys : key'[p] \in {key[p], None}
        BY <1>1, <2>1 DEF DropFutures
  <2>5. ASSUME NEW k \in C
        PROVE  KeyOf(r, k) \in Keys /\ KeyOf(r, k)[1] = Job(r)
    <3>1. \A b \in BOOLEAN : <<Job(r), k, b>> \in Keys /\ <<Job(r), k, b>>[1] = Job(r)
          BY DEF Keys
    <3>2. (run[r].fresh \/ k = "pack") \in BOOLEAN
          OBVIOUS
    <3> QED BY <3>1, <3>2 DEF KeyOf
  <2>6. ASSUME NEW s \in Runs, NEW q \in gone, key[q] = s
        PROVE  \E p \in Keys : p[1] = Job(r) /\ key[p] = s /\ p[2] = q[2]
        BY <2>5, <2>6
  <2>7. ASSUME NEW s \in Runs, NEW k \in Steps
        PROVE  /\ ex'[s][k] \in Executions(k)
               /\ ex'[s][k].read = ex[s][k].read
               /\ ex'[s][k].solver => ex[s][k].solver
               /\ \/ ex'[s][k].state = ex[s][k].state
                  \/ /\ ex'[s][k].state = "cancelled"
                     /\ \E p \in Keys : p[1] = Job(r) /\ key[p] = s /\ p[2] = k
    <3> DEFINE t == IF \E q \in gone : q[2] = k /\ key[q] = s
                      THEN "cancelled" ELSE ex[s][k].state
    <3>1. ex[s][k] \in Executions(k) /\ ex'[s][k] = [ex[s][k] EXCEPT !.state = t]
          BY <1>1, <2>2
    <3>2. \/ t = ex[s][k].state
          \/ t = "cancelled" /\ \E p \in Keys : p[1] = Job(r) /\ key[p] = s /\ p[2] = k
          BY <2>6
    <3> HIDE DEF t
    <3>3. t \in {"none", "queued", "running", "done", "error", "cancelled"}
          BY <3>1, <3>2 DEF Executions, Over
    <3>4. /\ [ex[s][k] EXCEPT !.state = t] \in Executions(k)
          /\ [ex[s][k] EXCEPT !.state = t].solver = ex[s][k].solver
          /\ [ex[s][k] EXCEPT !.state = t].state = t
          /\ [ex[s][k] EXCEPT !.state = t].read = ex[s][k].read
          BY <3>1, <3>3 DEF Executions, Over
    <3> QED BY <3>1, <3>2, <3>4
  <2>8. ex' = [s \in Runs |-> [k \in Steps |-> ex'[s][k]]]
        BY <2>2
  <2> QED BY <1>1, <2>3, <2>4, <2>7, <2>8
<1> QED BY <1>2, <1>3

-----------------------------------------------------------------------------
(* Steps of a handle                                                       *)

\* What Dask may know after a step of r: executions r has just submitted, and others
\* as before or cancelled.
DaskStep(r) ==
  /\ key' \in [Keys -> Runs \cup {None}] /\ held' \subseteq Runs \X Steps
  /\ client' \in BOOLEAN
  /\ ex' = [s \in Runs |-> [k \in Steps |-> ex'[s][k]]]
  /\ \A s \in Runs, k \in Steps :
       /\ ex'[s][k] \in Executions(k)
       /\ ex[s][k].state # "none" => ex'[s][k].state # "none"
       /\ ex'[s][k].state # "none" =>
            ex[s][k].state # "none" \/ (s = r /\ run'[r].future[k] = r)
       /\ ex'[s][k].solver =>
            /\ ex[s][k].solver /\ ex'[s][k].read = ex[s][k].read
            /\ ex'[s][k].state \in {ex[s][k].state, "cancelled"}
  /\ \A p \in Keys :
       \/ key'[p] \in {key[p], None}
       \/ /\ key'[p] = r /\ p[1] = run'[r].job /\ p[2] \in Steps
          /\ ex'[r][p[2]].state # "none"

\* The handle keeps its job and its executions.
HandleStep(r) ==
  /\ run' \in [Runs -> Handles]
  /\ \A s \in Runs \ {r} : run'[s] = run[s]
  /\ run'[r].pc # "idle" /\ run'[r].job \in Jobs
  /\ run[r].pc # "idle" => run'[r].job = run[r].job
  /\ run'[r].pc = "over" <=> run'[r].result # None
  /\ \A k \in Steps : run[r].future[k] # None => run'[r].future[k] = run[r].future[k]
  /\ run'[r].pc = "mesh" => \A k \in Steps \ {"mesh"} : run'[r].future[k] = None
  /\ run'[r].pc = "active" => run'[r].future["pack"] = None

\* The run-state file is left alone, or is now of r, and agrees with its handle.
RecordStep(r) ==
  /\ record' \in [Jobs -> [status : Final \cup {"partial", None}, by : Runs \cup {None}]]
  /\ \A j \in Jobs :
       \/ record'[j] = record[j]
       \/ j = run'[r].job /\ record'[j].by = r
  /\ \A j \in Jobs :
       record'[j].by = r /\ record'[j].status \in Final => Agree(record'[j].status, run'[r])

DataStep ==
  /\ file' \in [Jobs -> Contents]
  /\ UNCHANGED <<shard, product, newer>>

LEMMA StepIInv ==
  ASSUME IInv, NEW r \in Runs, DaskStep(r), HandleStep(r), RecordStep(r), DataStep
  PROVE  IInv'
<1>1. TypeOK'
      BY DEF IInv, TypeOK, DaskStep, HandleStep, RecordStep, DataStep
<1>2. HandlesInv'
      BY DEF IInv, HandlesInv, HandleStep, Job
<1>3. RecordsInv'
  <2> SUFFICES ASSUME NEW j \in Jobs, NEW s \in Runs, record'[j].by = s
               PROVE  /\ run'[s].pc # "idle" /\ run'[s].job = j
                      /\ record'[j].status \in Final => Agree(record'[j].status, run'[s])
      BY DEF RecordsInv, Job, Agree
  <2>1. CASE s = r
        BY <2>1 DEF IInv, RecordsInv, RecordStep, HandleStep, Job
  <2>2. CASE s # r
        BY <2>2 DEF IInv, RecordsInv, RecordStep, HandleStep, Job
  <2> QED BY <2>1, <2>2
<1>4. KeysInv'
  <2> SUFFICES ASSUME NEW p \in Keys, key'[p] # None
               PROVE  /\ run'[key'[p]].pc # "idle" /\ run'[key'[p]].job = p[1]
                      /\ ex'[key'[p]][p[2]].state # "none"
      BY DEF KeysInv, Job
  <2>1. p[2] \in Steps
        BY DEF Keys
  <2>2. CASE key'[p] = key[p]
    <3>1. key[p] \in Runs
          BY <2>2 DEF IInv, TypeOK
    <3>2. run[key[p]].pc # "idle" /\ run[key[p]].job = p[1] /\ ex[key[p]][p[2]].state # "none"
          BY <2>2 DEF IInv, KeysInv, Job
    <3> QED BY <2>1, <2>2, <3>1, <3>2 DEF DaskStep, HandleStep
  <2>3. CASE key'[p] # key[p]
        BY <2>3 DEF DaskStep, HandleStep
  <2> QED BY <2>2, <2>3
<1>5. ReadsInv'
  <2> SUFFICES ASSUME NEW s \in Runs, NEW k \in Steps
               PROVE  /\ ex'[s][k].state # "none" => run'[s].pc # "idle" /\ run'[s].future[k] = s
                      /\ ex'[s][k].solver =>
                           /\ ex'[s][k].state \in {"running", "error", "cancelled"}
                           /\ ex'[s][k].read \in ReadBy(k)
      BY DEF ReadsInv
  <2>1. ex'[s][k].state # "none" => run'[s].pc # "idle" /\ run'[s].future[k] = s
    <3>1. CASE s = r
          BY <3>1, LocalAssumption DEF IInv, ReadsInv, DaskStep, HandleStep
    <3>2. CASE s # r
          BY <3>2 DEF IInv, ReadsInv, DaskStep, HandleStep
    <3> QED BY <3>1, <3>2
  <2>2. ex'[s][k].solver => /\ ex'[s][k].state \in {"running", "error", "cancelled"}
                            /\ ex'[s][k].read \in ReadBy(k)
        BY DEF IInv, ReadsInv, DaskStep
  <2> QED BY <2>1, <2>2
<1> QED BY <1>1, <1>2, <1>3, <1>4, <1>5 DEF IInv

\* The three ways in which Dask is used.
LEMMA SubmitDask ==
  ASSUME IInv, NEW r \in Runs, NEW h \in Handles, h.job \in Jobs, NEW K \in SUBSET Steps,
         SubmitFutures(r, h, K)
  PROVE  DaskStep(r)
<1>1. TypeOK
      BY DEF IInv
<1>3. run'[r].job = h.job
      BY <1>1, SubmitFuturesType
<1>4. ASSUME NEW s \in Runs, NEW k \in Steps
      PROVE  /\ ex'[s][k] \in Executions(k)
             /\ ex[s][k].state # "none" => ex'[s][k].state # "none"
             /\ ex'[s][k].state # "none" =>
                  ex[s][k].state # "none" \/ (s = r /\ run'[r].future[k] = r)
             /\ ex'[s][k].solver =>
                  /\ ex[s][k].solver /\ ex'[s][k].read = ex[s][k].read
                  /\ ex'[s][k].state \in {ex[s][k].state, "cancelled"}
  <2>1. /\ ex'[s][k] \in Executions(k)
        /\ \/ ex'[s][k] = ex[s][k]
           \/ /\ s = r /\ k \in K /\ run'[r].future[k] = r
              /\ ex'[s][k].state = "queued" /\ ~ex'[s][k].solver
        BY <1>1, SubmitFuturesType
  <2> QED BY <2>1
<1>5. \A p \in Keys :
        \/ key'[p] \in {key[p], None}
        \/ /\ key'[p] = r /\ p[1] = h.job /\ p[2] \in Steps
           /\ ex'[r][p[2]].state # "none"
      BY <1>1, SubmitFuturesType
<1>6. /\ key' \in [Keys -> Runs \cup {None}] /\ held' \subseteq Runs \X Steps
      /\ client' \in BOOLEAN
      /\ ex' = [s \in Runs |-> [k \in Steps |-> ex'[s][k]]]
      BY <1>1, SubmitFuturesType
<1> QED BY <1>3, <1>4, <1>5, <1>6 DEF DaskStep

LEMMA LetGoDask ==
  ASSUME IInv, NEW r \in Runs, run[r].pc # "idle", NEW C \in SUBSET Steps, NEW R,
         LetGo(r, C, R)
  PROVE  DaskStep(r)
<1>1. TypeOK /\ Job(r) \in Jobs
      BY DEF IInv, HandlesInv
<1>2. ASSUME NEW s \in Runs, NEW k \in Steps
      PROVE  /\ ex'[s][k] \in Executions(k)
             /\ ex[s][k].state # "none" => ex'[s][k].state # "none"
             /\ ex'[s][k].state # "none" => ex[s][k].state # "none"
             /\ ex'[s][k].solver =>
                  /\ ex[s][k].solver /\ ex'[s][k].read = ex[s][k].read
                  /\ ex'[s][k].state \in {ex[s][k].state, "cancelled"}
  <2>1. /\ ex'[s][k] \in Executions(k)
        /\ ex'[s][k].read = ex[s][k].read
        /\ ex'[s][k].solver => ex[s][k].solver
        /\ \/ ex'[s][k].state = ex[s][k].state
           \/ /\ ex'[s][k].state = "cancelled"
              /\ \E p \in Keys : key[p] = s /\ p[2] = k
        BY <1>1, LetGoType
  <2>2. ASSUME NEW p \in Keys, key[p] = s, p[2] = k
        PROVE  ex[s][k].state # "none"
        BY <2>2, LocalAssumption DEF IInv, KeysInv
  <2> QED BY <2>1, <2>2
<1>3. /\ key' \in [Keys -> Runs \cup {None}] /\ held' \subseteq Runs \X Steps
      /\ client' \in BOOLEAN
      /\ ex' = [s \in Runs |-> [k \in Steps |-> ex'[s][k]]]
      /\ \A p \in Keys : key'[p] \in {key[p], None}
      BY <1>1, LetGoType
<1> QED BY <1>2, <1>3 DEF DaskStep

LEMMA SameDask ==
  ASSUME IInv, NEW r \in Runs, UNCHANGED dask
  PROVE  DaskStep(r)
BY DEF IInv, TypeOK, ReadsInv, dask, DaskStep

\* The two ways in which the run-state file is used.
LEMMA PublishRecord ==
  ASSUME IInv, NEW r \in Runs, HandleStep(r), NEW status \in Final \cup {"partial"},
         Publish(r, run'[r].job, status), status \in Final => Agree(status, run'[r])
  PROVE  RecordStep(r)
<1> DEFINE j == run'[r].job
<1>1. record \in [Jobs -> [status : Final \cup {"partial", None}, by : Runs \cup {None}]]
      BY DEF IInv, TypeOK
<1>2. j \in Jobs
      BY DEF HandleStep
<1>3. record' = [record EXCEPT ![j] = [status |-> status, by |-> r]]
      BY DEF Publish
<1>4. ASSUME NEW i \in Jobs \ {j}
      PROVE  record'[i] = record[i] /\ record[i].by # r
      BY <1>1, <1>3 DEF IInv, RecordsInv, HandleStep, Job
<1>5. record'[j] = [status |-> status, by |-> r]
      BY <1>1, <1>2, <1>3
<1>6. record' \in [Jobs -> [status : Final \cup {"partial", None}, by : Runs \cup {None}]]
      BY <1>1, <1>3
<1> HIDE DEF j
<1>7. \A i \in Jobs : i # j => record'[i] = record[i] /\ record'[i].by # r
      BY <1>4
<1>8. \A i \in Jobs : record'[i] = record[i] \/ (i = j /\ record'[i].by = r)
      BY <1>5, <1>7
<1>9. \A i \in Jobs : record'[i].by = r /\ record'[i].status \in Final =>
        Agree(record'[i].status, run'[r])
      BY <1>5, <1>7
<1> QED BY <1>6, <1>8, <1>9 DEF RecordStep, j

LEMMA SameRecord ==
  ASSUME IInv, NEW r \in Runs, HandleStep(r), record' = record,
         \/ run[r].pc \in {"idle", "mesh", "active", "pack", "judge"}
         \/ run[r].pc = "judged" /\ run'[r].result \in {None, "completed"}
            /\ (run'[r].result = None => run'[r].pc = "judged")
         \/ run[r].pc = run'[r].pc /\ run[r].result = run'[r].result
  PROVE  RecordStep(r)
<1>1. ASSUME NEW j \in Jobs, record[j].by = r, record[j].status \in Final
      PROVE  Agree(record[j].status, run'[r])
  <2>1. run[r].pc # "idle" /\ Agree(record[j].status, run[r])
        BY <1>1 DEF IInv, RecordsInv
  <2>2. run[r].pc = "over" <=> run[r].result # None
        BY DEF IInv, HandlesInv
  <2> QED BY <2>1, <2>2 DEF Agree
<1> QED BY <1>1 DEF RecordStep, IInv, TypeOK

-----------------------------------------------------------------------------
(* What the handle becomes                                                 *)

\* A handle that goes on keeps its job and its futures.
LEMMA NextHandle ==
  ASSUME IInv, NEW r \in Runs, run[r].pc # "idle", NEW h \in Handles,
         run' = [run EXCEPT ![r] = h], h.job = Job(r), h.future = run[r].future,
         h.pc \notin {"idle", "mesh"}, h.pc = "active" => run[r].pc = "active",
         h.pc = "over" <=> h.result # None
  PROVE  HandleStep(r) /\ run'[r] = h
<1>1. run \in [Runs -> Handles] /\ Job(r) \in Jobs
      /\ (run[r].pc = "active" => run[r].future["pack"] = None)
      BY DEF IInv, TypeOK, HandlesInv
<1>2. run' \in [Runs -> Handles] /\ run'[r] = h /\ \A s \in Runs \ {r} : run'[s] = run[s]
      BY <1>1
<1> QED BY <1>1, <1>2 DEF HandleStep, Job

LEMMA EndHandle ==
  ASSUME IInv, NEW r \in Runs, run[r].pc # "idle", NEW state \in Final \cup {"raised"},
         End(r, state)
  PROVE  /\ HandleStep(r) /\ run'[r].job = Job(r) /\ run'[r].future = run[r].future
         /\ run'[r].pc = "over" /\ run'[r].result = state
<1> DEFINE h == [run[r] EXCEPT !.pc = "over", !.result = state]
<1>1. run \in [Runs -> Handles] /\ run[r] \in Handles
      BY DEF IInv, TypeOK
<1>2. run' = [run EXCEPT ![r] = h]
      BY <1>1 DEF End
<1>3. /\ h \in Handles /\ h.job = Job(r) /\ h.future = run[r].future
      /\ h.pc = "over" /\ h.result = state
      BY <1>1 DEF Handles, Job, Final
<1>4. state # None
      BY LocalAssumption DEF Final
<1> HIDE DEF h
<1>5. HandleStep(r) /\ run'[r] = h
      BY <1>2, <1>3, <1>4, NextHandle
<1> QED BY <1>3, <1>5

LEMMA SubmitHandle ==
  ASSUME IInv, NEW r \in Runs, NEW h \in Handles, h.job \in Jobs, NEW K \in SUBSET Steps,
         SubmitFutures(r, h, K), h.result = None, h.pc \notin {"idle", "over"},
         run[r].pc # "idle" => h.job = Job(r),
         \A k \in K : run[r].future[k] = None, \A k \in Steps : h.future[k] = run[r].future[k],
         h.pc = "mesh" => K = {"mesh"} /\ \A k \in Steps : h.future[k] = None,
         h.pc = "active" => "pack" \notin K /\ h.future["pack"] = None
  PROVE  /\ HandleStep(r) /\ run'[r].job = h.job /\ run'[r].pc = h.pc /\ run'[r].result = None
         /\ run'[r].polled = h.polled /\ run'[r].cancelled = h.cancelled
<1>1. TypeOK
      BY DEF IInv
<1>2. /\ run' \in [Runs -> Handles]
      /\ \A s \in Runs \ {r} : run'[s] = run[s]
      /\ run'[r].job = h.job /\ run'[r].pc = h.pc /\ run'[r].result = None
      /\ run'[r].polled = h.polled /\ run'[r].cancelled = h.cancelled
      BY <1>1, SubmitFuturesType
<1>3. \A k \in Steps : IF k \in K THEN run'[r].future[k] \in Runs
                                  ELSE run'[r].future[k] = h.future[k]
      BY <1>1, SubmitFuturesType
<1>4. "pack" \in Steps
      BY StepsNames
<1> QED BY <1>2, <1>3, <1>4 DEF HandleStep, Job

\* A run whose planning hands steps to Dask.
LEMMA SubmitStep ==
  ASSUME IInv, NEW r \in Runs, NEW h \in Handles, h.job \in Jobs, NEW K \in SUBSET Steps,
         SubmitFutures(r, h, K), h.result = None, h.pc \notin {"idle", "over"},
         run[r].pc # "idle" => h.job = Job(r),
         \A k \in K : run[r].future[k] = None, \A k \in Steps : h.future[k] = run[r].future[k],
         h.pc = "mesh" => K = {"mesh"} /\ \A k \in Steps : h.future[k] = None,
         h.pc = "active" => "pack" \notin K /\ h.future["pack"] = None,
         run[r].pc \in {"idle", "mesh", "active"}, UNCHANGED disk
  PROVE  IInv'
<1>1. HandleStep(r)
      BY SubmitHandle
<1>2. DaskStep(r)
      BY SubmitDask
<1>3. record' = record /\ DataStep
      BY DEF disk, DataStep, IInv, TypeOK
<1>4. RecordStep(r)
      BY <1>1, <1>3, SameRecord
<1> QED BY <1>1, <1>2, <1>3, <1>4, StepIInv

\* A run that ends with its state published, or completed after it was judged.
LEMMA EndStep ==
  ASSUME IInv, NEW r \in Runs, run[r].pc # "idle", NEW state \in Final \cup {"raised"},
         End(r, state), NEW C \in SUBSET Steps, NEW R, LetGo(r, C, R),
         UNCHANGED <<file, shard, product, newer>>,
         \/ state \in Final /\ Publish(r, Job(r), state)
         \/ state = "raised" /\ Publish(r, Job(r), "failed")
         \/ /\ UNCHANGED record
            /\ run[r].pc = "mesh" \/ (run[r].pc = "judged" /\ state = "completed")
  PROVE  IInv'
<1>1. HandleStep(r) /\ run'[r].job = Job(r) /\ run'[r].result = state
      BY EndHandle
<1>2. DaskStep(r)
      BY LetGoDask
<1>3. DataStep
      BY DEF DataStep, IInv, TypeOK
<1>4. state # None
      BY LocalAssumption DEF Final
<1>5. CASE state \in Final /\ Publish(r, Job(r), state)
  <2>1. RecordStep(r)
        BY <1>1, <1>4, <1>5, PublishRecord DEF Agree
  <2> QED BY <1>1, <1>2, <1>3, <2>1, StepIInv
<1>6. CASE state = "raised" /\ Publish(r, Job(r), "failed")
  <2>1. RecordStep(r)
        BY <1>1, <1>4, <1>6, PublishRecord DEF Agree, Final
  <2> QED BY <1>1, <1>2, <1>3, <2>1, StepIInv
<1>7. CASE UNCHANGED record /\ (run[r].pc = "mesh" \/ (run[r].pc = "judged" /\ state = "completed"))
  <2>1. RecordStep(r)
        BY <1>1, <1>4, <1>7, SameRecord
  <2> QED BY <1>1, <1>2, <1>3, <2>1, StepIInv
<1> QED BY <1>5, <1>6, <1>7

LEMMA FailStep ==
  ASSUME IInv, NEW r \in Runs, run[r].pc # "idle", NEW C \in SUBSET Steps, Fail(r, C)
  PROVE  IInv'
<1>1. End(r, "failed") /\ Publish(r, Job(r), "failed") /\ UNCHANGED <<file, shard, product, newer>>
      BY DEF Fail
<1>2. \E R : LetGo(r, C, R)
      BY DEF Fail
<1> QED BY <1>1, <1>2, EndStep DEF Final

\* A handle that goes on, with Dask and the disk left alone.
LEMMA QuietStep ==
  ASSUME IInv, NEW r \in Runs, run[r].pc # "idle", NEW h \in Handles,
         run' = [run EXCEPT ![r] = h], h.job = Job(r), h.future = run[r].future,
         h.pc \notin {"idle", "mesh"}, h.pc = "active" => run[r].pc = "active",
         h.pc = "over" <=> h.result # None,
         run[r].pc # "judged", run[r].pc # "over",
         UNCHANGED <<disk, dask>>
  PROVE  IInv'
<1>1. HandleStep(r)
      BY NextHandle
<1>2. DaskStep(r)
      BY SameDask DEF dask
<1>3. record' = record /\ DataStep
      BY DEF disk, DataStep, IInv, TypeOK
<1>4. run[r].pc \in {"mesh", "active", "pack", "judge"}
      BY DEF IInv, TypeOK, Handles
<1>5. RecordStep(r)
      BY <1>1, <1>3, <1>4, SameRecord
<1> QED BY <1>1, <1>2, <1>3, <1>5, StepIInv

-----------------------------------------------------------------------------
(* The operations of a run                                                 *)

\* The handle of a run that starts out.
NewHandle(h, j) ==
  /\ h \in Handles /\ h.job = j /\ h.result = None /\ \A k \in Steps : h.future[k] = None
StartedHandle(h, j, pc, result) ==
  /\ h \in Handles /\ h.job = j /\ h.pc = pc /\ h.result = result
  /\ \A k \in Steps : h.future[k] = None

LEMMA StartHandle ==
  ASSUME NEW h, NEW j, NewHandle(h, j)
  PROVE  /\ StartedHandle([h EXCEPT !.pc = "over", !.result = "skipped"], j, "over", "skipped")
         /\ StartedHandle([h EXCEPT !.pc = "active"], j, "active", None)
         /\ StartedHandle([h EXCEPT !.pc = "active", !.postOnly = TRUE], j, "active", None)
         /\ \A P \in SUBSET Tasks :
              StartedHandle([h EXCEPT !.pc = "mesh", !.pending = P], j, "mesh", None)
<1>1. /\ h \in Handles /\ h.job = j /\ h.result = None
      /\ \A k \in Steps : h.future[k] = None
      BY DEF NewHandle
<1>2. StartedHandle([h EXCEPT !.pc = "over", !.result = "skipped"], j, "over", "skipped")
      BY <1>1, ZenonT(60) DEF StartedHandle, Handles, Final
<1>3. StartedHandle([h EXCEPT !.pc = "active"], j, "active", None)
      BY <1>1 DEF StartedHandle, Handles
<1>4. StartedHandle([h EXCEPT !.pc = "active", !.postOnly = TRUE], j, "active", None)
      BY <1>1, ZenonT(60) DEF StartedHandle, Handles
<1>5. ASSUME NEW P \in SUBSET Tasks
      PROVE  StartedHandle([h EXCEPT !.pc = "mesh", !.pending = P], j, "mesh", None)
      BY <1>1, ZenonT(60) DEF StartedHandle, Handles
<1> QED BY <1>2, <1>3, <1>4, <1>5

\* A run that starts out without handing anything to Dask.
LEMMA BeginStep ==
  ASSUME IInv, NEW r \in Runs, run[r].pc = "idle", NEW h \in Handles,
         run' = [run EXCEPT ![r] = h], h.job \in Jobs, h.pc \in {"active", "over"},
         \A k \in Steps : h.future[k] = None, h.pc = "over" <=> h.result # None,
         NEW v \in Contents, file' = [file EXCEPT ![h.job] = v],
         UNCHANGED <<shard, product, newer>>, UNCHANGED dask,
         \/ record' = record
         \/ Publish(r, h.job, "partial")
         \/ h.result = "skipped" /\ Publish(r, h.job, "skipped")
  PROVE  IInv'
<1>1. run \in [Runs -> Handles] /\ run[r] = NoRun /\ file \in [Jobs -> Contents]
      BY DEF IInv, TypeOK, HandlesInv
<1>2. run' \in [Runs -> Handles] /\ run'[r] = h /\ \A s \in Runs \ {r} : run'[s] = run[s]
      BY <1>1
<1>3. \A k \in Steps : run[r].future[k] = None
      BY <1>1 DEF NoRun
<1>4. HandleStep(r)
      BY <1>1, <1>2, <1>3, StepsNames DEF HandleStep
<1>5. DaskStep(r)
      BY SameDask
<1>6. DataStep
      BY <1>1 DEF DataStep
<1>7. RecordStep(r)
  <2>1. CASE record' = record
        BY <1>4, <2>1, SameRecord
  <2>2. CASE Publish(r, h.job, "partial")
    <3>1. "partial" \notin Final
          BY DEF Final
    <3> QED BY <1>2, <1>4, <2>2, <3>1, PublishRecord
  <2>3. CASE h.result = "skipped" /\ Publish(r, h.job, "skipped")
    <3>1. "skipped" \in Final /\ "skipped" # None
          BY LocalAssumption DEF Final
    <3> QED BY <1>2, <1>4, <2>3, <3>1, PublishRecord DEF Agree
  <2> QED BY <2>1, <2>2, <2>3
<1> QED BY <1>4, <1>5, <1>6, <1>7, StepIInv

LEMMA SubmitInv ==
  ASSUME IInv, NEW r \in Runs, NEW j \in Jobs, NEW v \in Contents, NEW fresh \in BOOLEAN,
         NEW shutdown \in BOOLEAN, NEW n \in Nat, Submit(r, j, v, fresh, shutdown, n)
  PROVE  IInv'
<1> DEFINE h == [NoRun EXCEPT !.job = j, !.fresh = fresh, !.shutdown = shutdown,
                              !.tolerance = n, !.version = v]
           pending == {t \in Tasks : fresh \/ ~CurrentTask(j, t, v)}
           partial == [record EXCEPT ![j] = [status |-> "partial", by |-> r]]
<1>1. run[r].pc = "idle" /\ file' = [file EXCEPT ![j] = v] /\ UNCHANGED <<shard, product, newer>>
      BY DEF Submit, MaySubmit
<1>2. None # "skipped" /\ pending \in SUBSET Tasks
      BY LocalAssumption
<1>5. NewHandle(h, j)
  <2>1. h \in Handles /\ h.job = j
        BY NoRunType, ZenonT(60) DEF Handles
  <2>2. h.result = None /\ h.future = [k \in Steps |-> None]
        BY DEF NoRun
  <2> QED BY <2>1, <2>2 DEF NewHandle
<1>3. CASE Skip(r, h)
  <2> DEFINE g == [h EXCEPT !.pc = "over", !.result = "skipped"]
  <2>2. StartedHandle(g, j, "over", "skipped")
        BY <1>5, StartHandle
  <2>3. run' = [run EXCEPT ![r] = g] /\ Publish(r, h.job, "skipped") /\ UNCHANGED dask
        BY <1>3 DEF Skip
  <2>4. h.job = j
        BY <1>5 DEF NewHandle
  <2> HIDE DEF g, h
  <2> QED BY <1>1, <1>2, <2>2, <2>3, <2>4, BeginStep DEF StartedHandle
<1>4. CASE ~Skip(r, h)
  <2>1. /\ record' = record \/ record' = partial
        /\ IF pending = {}
             THEN /\ run' = [run EXCEPT ![r] = [h EXCEPT !.pc = "active", !.postOnly = TRUE]]
                  /\ UNCHANGED dask
             ELSE SubmitFutures(r, [h EXCEPT !.pc = "mesh", !.pending = pending], {"mesh"})
        BY <1>4 DEF Submit
  <2>2. record' = record \/ Publish(r, j, "partial")
        BY <2>1 DEF Publish
  <2>3. CASE pending = {}
    <3> DEFINE g == [h EXCEPT !.pc = "active", !.postOnly = TRUE]
    <3>2. StartedHandle(g, j, "active", None)
          BY <1>5, StartHandle, Zenon
    <3>3. run' = [run EXCEPT ![r] = g] /\ UNCHANGED dask
          BY <2>1, <2>3
    <3> HIDE DEF g, h
    <3> QED BY <1>1, <2>2, <3>2, <3>3, BeginStep, Zenon DEF StartedHandle
  <2>4. CASE pending # {}
    <3> DEFINE g == [h EXCEPT !.pc = "mesh", !.pending = pending]
    <3>2. StartedHandle(g, j, "mesh", None)
          BY <1>2, <1>5, StartHandle, Zenon
    <3>3. SubmitFutures(r, g, {"mesh"})
          BY <2>1, <2>4
    <3>4. run[r] = NoRun /\ {"mesh"} \in SUBSET Steps
          BY <1>1, StepsNames DEF IInv, HandlesInv
    <3>5. \A k \in Steps : run[r].future[k] = None
          BY <3>4 DEF NoRun
    <3>6. \A k \in {"mesh"} : run[r].future[k] = None
          BY <3>5, StepsNames
    <3> HIDE DEF g, h, pending, partial
    <3>7. HandleStep(r) /\ run'[r].job = j
          BY <1>1, <3>2, <3>3, <3>4, <3>5, <3>6, SubmitHandle DEF StartedHandle
    <3>8. DaskStep(r)
          BY <3>2, <3>3, <3>4, SubmitDask DEF StartedHandle
    <3>9. DataStep
          BY <1>1 DEF DataStep, IInv, TypeOK
    <3>10. RecordStep(r)
      <4>1. "partial" \notin Final
            BY DEF Final
      <4> QED BY <1>1, <2>2, <3>7, <4>1, SameRecord, PublishRecord
    <3> QED BY <3>7, <3>8, <3>9, <3>10, StepIInv, SMTT(30)
  <2> QED BY <2>3, <2>4
<1> QED BY <1>3, <1>4

LEMMA SubmitPostprocessInv ==
  ASSUME IInv, NEW r \in Runs, NEW j \in Jobs, NEW v \in Contents, NEW fresh \in BOOLEAN,
         NEW shutdown \in BOOLEAN, SubmitPostprocess(r, j, v, fresh, shutdown)
  PROVE  IInv'
<1> DEFINE h == [NoRun EXCEPT !.job = j, !.fresh = fresh, !.shutdown = shutdown,
                              !.version = v, !.postOnly = TRUE]
<1>1. run[r].pc = "idle" /\ file' = [file EXCEPT ![j] = v] /\ UNCHANGED <<shard, product, newer>>
      BY DEF SubmitPostprocess, MaySubmit
<1>2. None # "skipped"
      BY LocalAssumption
<1>5. NewHandle(h, j)
  <2>1. h \in Handles /\ h.job = j
        BY NoRunType DEF Handles
  <2>2. h.result = None /\ h.future = [k \in Steps |-> None]
        BY DEF NoRun
  <2> QED BY <2>1, <2>2 DEF NewHandle
<1>3. CASE Skip(r, h)
  <2> DEFINE g == [h EXCEPT !.pc = "over", !.result = "skipped"]
  <2>2. StartedHandle(g, j, "over", "skipped")
        BY <1>5, StartHandle, Zenon
  <2>3. run' = [run EXCEPT ![r] = g] /\ Publish(r, h.job, "skipped") /\ UNCHANGED dask
        BY <1>3 DEF Skip
  <2>4. h.job = j
        BY <1>5 DEF NewHandle
  <2> HIDE DEF g, h
  <2> QED BY <1>1, <1>2, <2>2, <2>3, <2>4, BeginStep DEF StartedHandle
<1>4. CASE ~Skip(r, h)
  <2> DEFINE g == [h EXCEPT !.pc = "active"]
  <2>2. StartedHandle(g, j, "active", None)
        BY <1>5, StartHandle, Zenon
  <2>3. run' = [run EXCEPT ![r] = g] /\ record' = record /\ UNCHANGED dask
        BY <1>4 DEF SubmitPostprocess
  <2> HIDE DEF g, h
  <2> QED BY <1>1, <2>2, <2>3, BeginStep, Zenon DEF StartedHandle
<1> QED BY <1>3, <1>4

\* The futures a handle lets go of are of steps, and its job is one.
LEMMA HandleFacts ==
  ASSUME IInv, NEW r \in Runs, run[r].pc # "idle"
  PROVE  /\ run[r] \in Handles /\ Job(r) \in Jobs /\ run[r].job = Job(r)
         /\ TaskFutures(r) \subseteq Steps /\ Submitted(r) \subseteq Steps
         /\ run[r].pc = "over" <=> run[r].result # None
         /\ run[r].pc = "mesh" => \A k \in Steps \ {"mesh"} : run[r].future[k] = None
         /\ run[r].pc = "active" => run[r].future["pack"] = None
BY StepsNames DEF IInv, TypeOK, HandlesInv, TaskFutures, Submitted, Job

LEMMA SubmitTasksInv ==
  ASSUME IInv, NEW r \in Runs, SubmitTasks(r)
  PROVE  IInv'
<1> DEFINE h == [run[r] EXCEPT !.pc = "active"]
<1>1. run[r].pc = "mesh" /\ SubmitFutures(r, h, run[r].pending) /\ UNCHANGED disk
      BY DEF SubmitTasks
<1>2. /\ run[r] \in Handles /\ Job(r) \in Jobs /\ run[r].job = Job(r) /\ run[r].result = None
      /\ \A k \in Steps \ {"mesh"} : run[r].future[k] = None
      BY <1>1, HandleFacts
<1>3. /\ h \in Handles /\ h.job = Job(r) /\ h.pc = "active" /\ h.result = None
      /\ h.future = run[r].future
      BY <1>2 DEF Handles
<1>4. /\ run[r].pending \in SUBSET Steps /\ "pack" \notin run[r].pending
      /\ \A k \in run[r].pending : k # "mesh"
      BY <1>2, StepsNames DEF Handles
<1>5. \A k \in run[r].pending : run[r].future[k] = None
      BY <1>2, <1>4
<1>6. h.future["pack"] = None
      BY <1>2, <1>3, StepsNames
<1> HIDE DEF h
<1> QED BY <1>1, <1>2, <1>3, <1>4, <1>5, <1>6, SubmitStep

LEMMA MeshFailedInv ==
  ASSUME IInv, NEW r \in Runs, MeshFailed(r)
  PROVE  IInv'
<1>1. /\ run[r].pc = "mesh" /\ LetGo(r, {}, {"mesh"}) /\ End(r, "raised")
      /\ Publish(r, Job(r), "failed") \/ UNCHANGED record
      /\ UNCHANGED <<file, shard, product, newer>>
      BY DEF MeshFailed
<1> QED BY <1>1, EndStep

LEMMA PollInv ==
  ASSUME IInv, NEW r \in Runs, Poll(r)
  PROVE  IInv'
<1> DEFINE T == TaskFutures(r)
           n == Cardinality({t \in T : Failed(r, t)})
           h == [run[r] EXCEPT !.errors = Unreadable(r, T), !.failed = n]
<1>1. run[r].pc = "active"
      BY DEF Poll, Waiting
<1>2. /\ run[r] \in Handles /\ Job(r) \in Jobs /\ run[r].job = Job(r)
      /\ run[r].result = None /\ run[r].future["pack"] = None
      BY <1>1, HandleFacts
<1>3. n \in Nat
  <2>1. IsFiniteSet({t \in T : Failed(r, t)})
        BY FS_Subset, LocalAssumption DEF TaskFutures
  <2> QED BY <2>1, FS_CardinalityType
<1>4. Unreadable(r, T) \in BOOLEAN
      BY DEF Unreadable
<1> DEFINE Goes(g) == /\ g \in Handles /\ g.job = Job(r) /\ g.future = run[r].future
                      /\ g.pc = "active" /\ g.result = None
<1> HIDE DEF n
<1>5. Goes(h)
  <2> DEFINE b == Unreadable(r, T)
  <2>1. b \in BOOLEAN
        BY <1>4
  <2>2. h = [run[r] EXCEPT !.errors = b, !.failed = n]
        OBVIOUS
  <2> HIDE DEF b, h
  <2> QED BY <1>1, <1>2, <1>3, <2>1, <2>2 DEF Handles
<1> HIDE DEF h
<1>6. \A g : Goes(g) =>
        /\ \A p \in {"running", "completed", "failed"} : Goes([g EXCEPT !.polled = p])
        /\ \A p \in {"completed", "failed"}, x \in {"ok", "bad"} :
             Goes([g EXCEPT !.polled = p, !.smooth = x])
  <2>1. ASSUME NEW g, Goes(g), NEW p \in {"running", "completed", "failed"}
        PROVE  Goes([g EXCEPT !.polled = p])
        BY <2>1 DEF Handles
  <2>2. ASSUME NEW g, Goes(g), NEW p \in {"completed", "failed"}, NEW x \in {"ok", "bad"}
        PROVE  Goes([g EXCEPT !.polled = p, !.smooth = x])
        BY <2>2, ZenonT(60) DEF Handles
  <2> HIDE DEF Goes
  <2> QED BY <2>1, <2>2, Zenon
<1>7. ASSUME NEW g, Goes(g), Polled(r, g)
      PROVE  IInv'
      BY <1>1, <1>7, QuietStep, Zenon DEF Polled
<1>8. Goes(run[r])
      BY <1>1, <1>2
<1>9. CASE ~Terminal(r, T) /\ Polled(r, [run[r] EXCEPT !.polled = "running"])
      BY <1>6, <1>7, <1>8, <1>9, ZenonT(60)
<1>10. CASE Polled(r, [h EXCEPT !.polled = IF h.errors THEN "failed" ELSE "completed"])
      BY <1>5, <1>6, <1>7, <1>10, ZenonT(60)
<1>11. CASE /\ run[r].future["post"] = None
            /\ SubmitFutures(r, [h EXCEPT !.polled = "running"], {"post"})
            /\ UNCHANGED disk
  <2> DEFINE g == [h EXCEPT !.polled = "running"]
  <2>1. Goes(g)
        BY <1>5, <1>6, Zenon
  <2>2. SubmitFutures(r, g, {"post"}) /\ UNCHANGED disk /\ run[r].future["post"] = None
        BY <1>11
  <2> HIDE DEF g
  <2>3. {"post"} \in SUBSET Steps /\ \A k \in {"post"} : run[r].future[k] = None
        BY <2>2, StepsNames
  <2> QED BY <1>1, <1>2, <2>1, <2>2, <2>3, SubmitStep
<1>12. CASE Polled(r, CASE ~Terminal(r, {"post"}) -> [h EXCEPT !.polled = "running"]
                        [] Succeeded(r, "post") ->
                             [h EXCEPT !.polled = "completed", !.smooth = "ok"]
                        [] Failed(r, "post") ->
                             [h EXCEPT !.polled = "failed", !.smooth = "bad"]
                        [] OTHER -> [h EXCEPT !.polled = "failed"])
  <2> DEFINE a == [h EXCEPT !.polled = "running"]
             b == [h EXCEPT !.polled = "completed", !.smooth = "ok"]
             c == [h EXCEPT !.polled = "failed", !.smooth = "bad"]
             d == [h EXCEPT !.polled = "failed"]
             g == CASE ~Terminal(r, {"post"}) -> a [] Succeeded(r, "post") -> b
                    [] Failed(r, "post") -> c [] OTHER -> d
  <2>1. Goes(a) /\ Goes(b) /\ Goes(c) /\ Goes(d)
        BY <1>5, <1>6, Zenon
  <2>2. Polled(r, g)
        BY <1>12
  <2> HIDE DEF a, b, c, d
  <2>3. g \in {a, b, c, d}
        BY DEF Terminal, Succeeded, Failed
  <2> HIDE DEF g
  <2> QED BY <1>7, <2>1, <2>2, <2>3, SMTT(30)
<1> QED BY <1>9, <1>10, <1>11, <1>12 DEF Poll, h, n

LEMMA CollectInv ==
  ASSUME IInv, NEW r \in Runs, Collect(r)
  PROVE  IInv'
<1>1. run[r].pc = "active"
      BY DEF Collect
<1>2. /\ run[r] \in Handles /\ Job(r) \in Jobs /\ run[r].job = Job(r)
      /\ run[r].result = None /\ run[r].future["pack"] = None
      /\ Submitted(r) \in SUBSET Steps
      BY <1>1, HandleFacts
<1>3. CASE Fail(r, {}) \/ Fail(r, Submitted(r))
      BY <1>1, <1>2, <1>3, FailStep
<1>4. CASE SubmitFutures(r, [run[r] EXCEPT !.pc = "pack"], {"pack"}) /\ UNCHANGED disk
  <2> DEFINE h == [run[r] EXCEPT !.pc = "pack"]
  <2>1. /\ h \in Handles /\ h.job = Job(r) /\ h.future = run[r].future
        /\ h.pc = "pack" /\ h.result = None
        BY <1>2 DEF Handles
  <2>2. SubmitFutures(r, h, {"pack"}) /\ UNCHANGED disk
        BY <1>4
  <2> HIDE DEF h
  <2>3. {"pack"} \in SUBSET Steps /\ \A k \in {"pack"} : run[r].future[k] = None
        BY <1>2, StepsNames
  <2> QED BY <1>1, <1>2, <2>1, <2>2, <2>3, SubmitStep
<1>5. CASE run' = [run EXCEPT ![r].pc = "judge"] /\ UNCHANGED <<disk, dask>>
  <2> DEFINE h == [run[r] EXCEPT !.pc = "judge"]
  <2>1. /\ h \in Handles /\ h.job = Job(r) /\ h.future = run[r].future
        /\ h.pc = "judge" /\ h.result = None
        BY <1>2 DEF Handles
  <2>2. run' = [run EXCEPT ![r] = h] /\ UNCHANGED <<disk, dask>>
        BY <1>5
  <2> HIDE DEF h
  <2> QED BY <1>1, <2>1, <2>2, QuietStep
<1> QED BY <1>3, <1>4, <1>5 DEF Collect

LEMMA PackedInv ==
  ASSUME IInv, NEW r \in Runs, Packed(r)
  PROVE  IInv'
<1>1. run[r].pc = "pack"
      BY DEF Packed
<1>2. /\ run[r] \in Handles /\ Job(r) \in Jobs /\ run[r].job = Job(r)
      /\ run[r].result = None /\ Submitted(r) \in SUBSET Steps
      BY <1>1, HandleFacts
<1>3. CASE Fail(r, {}) \/ Fail(r, Submitted(r))
      BY <1>1, <1>2, <1>3, FailStep
<1>4. CASE /\ Publish(r, Job(r), "completed") /\ LetGo(r, {}, Submitted(r))
           /\ End(r, "completed") /\ UNCHANGED <<file, shard, product, newer>>
  <2>1. "completed" \in Final /\ {} \in SUBSET Steps
        BY DEF Final
  <2> QED BY <1>1, <1>4, <2>1, EndStep
<1>5. CASE run' = [run EXCEPT ![r].pc = "judge"] /\ UNCHANGED <<disk, dask>>
  <2> DEFINE h == [run[r] EXCEPT !.pc = "judge"]
  <2>1. /\ h \in Handles /\ h.job = Job(r) /\ h.future = run[r].future
        /\ h.pc = "judge" /\ h.result = None
        BY <1>2 DEF Handles
  <2>2. run' = [run EXCEPT ![r] = h] /\ UNCHANGED <<disk, dask>>
        BY <1>5
  <2> HIDE DEF h
  <2> QED BY <1>1, <2>1, <2>2, QuietStep
<1> QED BY <1>3, <1>4, <1>5 DEF Packed

LEMMA PublishCompletedInv ==
  ASSUME IInv, NEW r \in Runs, PublishCompleted(r)
  PROVE  IInv'
<1> DEFINE h == [run[r] EXCEPT !.pc = "judged"]
<1>1. /\ run[r].pc = "judge" /\ Publish(r, Job(r), "completed")
      /\ run' = [run EXCEPT ![r] = h] /\ UNCHANGED <<file, shard, product, newer, dask>>
      BY DEF PublishCompleted
<1>2. /\ run[r] \in Handles /\ Job(r) \in Jobs /\ run[r].job = Job(r) /\ run[r].result = None
      BY <1>1, HandleFacts
<1>3. /\ h \in Handles /\ h.job = Job(r) /\ h.future = run[r].future
      /\ h.pc = "judged" /\ h.result = None
      BY <1>2 DEF Handles
<1> HIDE DEF h
<1>4. HandleStep(r) /\ run'[r] = h
      BY <1>1, <1>3, NextHandle
<1>5. DaskStep(r)
      BY <1>1, SameDask DEF dask
<1>6. DataStep
      BY <1>1 DEF DataStep, IInv, TypeOK
<1>7. "completed" \in Final
      BY DEF Final
<1>8. RecordStep(r)
      BY <1>1, <1>3, <1>4, <1>7, PublishRecord DEF Agree
<1> QED BY <1>4, <1>5, <1>6, <1>8, StepIInv

LEMMA JudgeInv ==
  ASSUME IInv, NEW r \in Runs, Judge(r)
  PROVE  IInv'
<1>1. run[r].pc = "judged" /\ {} \in SUBSET Steps /\ "completed" \in Final
      BY DEF Judge, Final
<1>2. CASE Fail(r, {})
      BY <1>1, <1>2, FailStep
<1>3. CASE LetGo(r, {}, Submitted(r)) /\ End(r, "completed") /\ UNCHANGED disk
  <2>1. UNCHANGED record /\ UNCHANGED <<file, shard, product, newer>>
        BY <1>3 DEF disk
  <2> QED BY <1>1, <1>3, <2>1, EndStep
<1> QED BY <1>2, <1>3 DEF Judge

LEMMA TimeoutInv ==
  ASSUME IInv, NEW r \in Runs, Timeout(r)
  PROVE  IInv'
<1>1. /\ run[r].pc = "active" /\ Publish(r, Job(r), "timeout")
      /\ LetGo(r, TaskFutures(r), TaskFutures(r)) /\ End(r, "timeout")
      /\ UNCHANGED <<file, shard, product, newer>>
      BY DEF Timeout
<1>2. TaskFutures(r) \in SUBSET Steps /\ "timeout" \in Final
      BY <1>1, HandleFacts DEF Final
<1> QED BY <1>1, <1>2, EndStep

LEMMA WatchTimeoutInv ==
  ASSUME IInv, NEW r \in Runs, WatchTimeout(r)
  PROVE  IInv'
<1>1. run[r].pc = "active" /\ End(r, "timeout") /\ UNCHANGED <<disk, dask>> /\ "timeout" \in Final
      BY DEF WatchTimeout, Final
<1>2. HandleStep(r)
      BY <1>1, EndHandle
<1>3. DaskStep(r)
      BY <1>1, SameDask DEF dask
<1>4. record' = record /\ DataStep
      BY <1>1 DEF disk, DataStep, IInv, TypeOK
<1>5. RecordStep(r)
      BY <1>1, <1>2, <1>4, SameRecord
<1> QED BY <1>2, <1>3, <1>4, <1>5, StepIInv

LEMMA CancelInv ==
  ASSUME IInv, NEW r \in Runs, Cancel(r)
  PROVE  IInv'
<1> DEFINE h == [run[r] EXCEPT !.cancelled = TRUE]
<1>1. /\ run[r].pc \in {"active", "pack", "judge", "judged"}
      /\ LetGo(r, TaskFutures(r), TaskFutures(r))
      /\ run' = [run EXCEPT ![r] = h] /\ UNCHANGED disk
      BY DEF Cancel
<1>2. /\ run[r] \in Handles /\ Job(r) \in Jobs /\ run[r].job = Job(r) /\ run[r].result = None
      /\ TaskFutures(r) \in SUBSET Steps
      BY <1>1, HandleFacts
<1>3. /\ h \in Handles /\ h.job = Job(r) /\ h.future = run[r].future
      /\ h.pc = run[r].pc /\ h.result = run[r].result
      BY <1>2, ZenonT(60) DEF Handles
<1> HIDE DEF h
<1>4. HandleStep(r) /\ run'[r] = h
      BY <1>1, <1>2, <1>3, NextHandle
<1>5. DaskStep(r)
      BY <1>1, <1>2, LetGoDask
<1>6. record' = record /\ DataStep
      BY <1>1 DEF disk, DataStep, IInv, TypeOK
<1>7. RecordStep(r)
      BY <1>3, <1>4, <1>6, SameRecord
<1> QED BY <1>4, <1>5, <1>6, <1>7, StepIInv

-----------------------------------------------------------------------------
(* The workers                                                             *)

\* An execution that goes on leaves the handles and what Dask knows alone.
LEMMA WorkStep ==
  ASSUME IInv, NEW s \in Runs, NEW k \in Steps, NEW e \in Executions(k),
         ex' = [ex EXCEPT ![s][k] = e], ex[s][k].state # "none", e.state # "none",
         e.solver => e.state \in {"running", "error", "cancelled"} /\ e.read \in ReadBy(k),
         UNCHANGED <<file, record, client, key, held, run>>,
         shard' \in [Jobs -> [Tasks -> [part : Contents \cup {None}, ok : BOOLEAN]]],
         product' \in [Jobs -> Parts \cup {None}], newer' \in [Jobs -> BOOLEAN]
  PROVE  IInv'
<1>1. /\ ex = [r \in Runs |-> [i \in Steps |-> ex[r][i]]]
      /\ \A r \in Runs, i \in Steps : ex[r][i] \in Executions(i)
      BY DEF IInv, TypeOK
<1>2. \A r \in Runs, i \in Steps : ex'[r][i] = IF r = s /\ i = k THEN e ELSE ex[r][i]
      BY <1>1
<1>3. ex' = [r \in Runs |-> [i \in Steps |-> ex'[r][i]]]
  <2>1. ex' = [r \in Runs |-> IF r = s THEN [ex[s] EXCEPT ![k] = e] ELSE ex[r]]
        BY <1>1
  <2>2. \A r \in Runs : ex[r] = [i \in Steps |-> ex[r][i]]
        BY <1>1
  <2>3. \A r \in Runs : ex'[r] = [i \in Steps |-> ex'[r][i]]
        BY <2>1, <2>2
  <2> QED BY <2>1, <2>3
<1>4. \A r \in Runs, i \in Steps : ex'[r][i] \in Executions(i)
      BY <1>1, <1>2
<1>5. TypeOK'
      BY <1>3, <1>4 DEF IInv, TypeOK
<1>6. HandlesInv' /\ RecordsInv'
      BY DEF IInv, HandlesInv, RecordsInv, Agree, Job
<1>7. KeysInv'
  <2>1. \A q \in Keys : q[2] \in Steps
        BY DEF Keys
  <2>2. \A q \in Keys : key[q] # None => key[q] \in Runs
        BY DEF IInv, TypeOK
  <2> QED BY <1>2, <2>1, <2>2 DEF IInv, KeysInv, Job
<1>8. ReadsInv'
      BY <1>2 DEF IInv, ReadsInv
<1> QED BY <1>5, <1>6, <1>7, <1>8 DEF IInv

LEMMA StartInv ==
  ASSUME IInv, NEW s \in Runs, NEW k \in Steps, Start(s, k)
  PROVE  IInv'
<1> DEFINE x == CASE k \in Tasks -> file[Job(s)]
                  [] k = "post" -> [t \in Tasks |-> shard[Job(s)][t].part]
                  [] OTHER -> None
           e == [ex[s][k] EXCEPT !.state = "running", !.solver = TRUE, !.read = x]
<1>1. /\ ex[s][k].state = "queued" /\ UNCHANGED <<disk, client, key, held, run>>
      /\ ex' = [ex EXCEPT ![s][k] = e]
      BY DEF Start
<1>2. /\ ex[s][k] \in Executions(k) /\ Job(s) \in Jobs
      /\ ex = [r \in Runs |-> [i \in Steps |-> ex[r][i]]]
      /\ file \in [Jobs -> Contents]
      /\ shard \in [Jobs -> [Tasks -> [part : Contents \cup {None}, ok : BOOLEAN]]]
      /\ product \in [Jobs -> Parts \cup {None}] /\ newer \in [Jobs -> BOOLEAN]
      BY <1>1 DEF IInv, TypeOK, HandlesInv, ReadsInv
<1>3. x \in ReadBy(k)
  <2>1. [t \in Tasks |-> shard[Job(s)][t].part] \in Parts
        BY <1>2 DEF Parts
  <2> QED BY <1>2, <2>1, StepsNames DEF ReadBy
<1> HIDE DEF x
<1>5. e \in Executions(k) /\ e.state = "running" /\ e.read = x
      BY <1>2, <1>3 DEF Executions
<1> HIDE DEF e
<1> QED BY <1>1, <1>2, <1>3, <1>5, WorkStep DEF disk

LEMMA SolvedExecution ==
  ASSUME IInv, NEW s \in Runs, NEW k \in Steps, NEW ok \in BOOLEAN, ex[s][k].solver,
         Solved(s, k, ok)
  PROVE  \E e \in Executions(k) : /\ ex' = [ex EXCEPT ![s][k] = e]
                                  /\ e.state # "none" /\ ~e.solver
<1> DEFINE b == ok /\ ex[s][k].state = "running"
           x == IF ex[s][k].state = "running" THEN "done" ELSE ex[s][k].state
           e == [ex[s][k] EXCEPT !.solver = FALSE, !.read = None, !.ok = b, !.state = x]
<1>1. /\ ex[s][k] \in Executions(k)
      /\ ex[s][k].state \in {"running", "error", "cancelled"}
      /\ ex = [r \in Runs |-> [i \in Steps |-> ex[r][i]]]
      BY DEF IInv, TypeOK, ReadsInv
<1>2. b \in BOOLEAN /\ x \in {"done", "error", "cancelled"}
      BY <1>1
<1>3. ex' = [ex EXCEPT ![s][k] = e]
      BY <1>1 DEF Solved
<1> HIDE DEF b, x
<1>4. e \in Executions(k) /\ e.state # "none" /\ ~e.solver
      BY <1>1, <1>2 DEF Executions, Over
<1> HIDE DEF e
<1> QED BY <1>3, <1>4

LEMMA SolverSucceedsInv ==
  ASSUME IInv, NEW s \in Runs, NEW k \in Steps, SolverSucceeds(s, k)
  PROVE  IInv'
<1>1. /\ ex[s][k].solver /\ Solved(s, k, TRUE)
      /\ UNCHANGED <<file, record, client, key, held, run>>
      BY DEF SolverSucceeds
<1>2. PICK e \in Executions(k) : ex' = [ex EXCEPT ![s][k] = e] /\ e.state # "none" /\ ~e.solver
      BY <1>1, SolvedExecution
<1>3. /\ ex[s][k].state # "none" /\ ex[s][k].read \in ReadBy(k) /\ Job(s) \in Jobs
      /\ shard \in [Jobs -> [Tasks -> [part : Contents \cup {None}, ok : BOOLEAN]]]
      /\ product \in [Jobs -> Parts \cup {None}] /\ newer \in [Jobs -> BOOLEAN]
      BY <1>1 DEF IInv, TypeOK, HandlesInv, ReadsInv
<1>4. shard' \in [Jobs -> [Tasks -> [part : Contents \cup {None}, ok : BOOLEAN]]]
  <2>1. CASE k \in Tasks
    <3> DEFINE c == [part |-> ex[s][k].read, ok |-> TRUE]
    <3>1. c \in [part : Contents \cup {None}, ok : BOOLEAN]
          BY <1>3, <2>1 DEF ReadBy
    <3>2. shard' = [shard EXCEPT ![Job(s)][k] = c]
          BY <2>1 DEF SolverSucceeds
    <3> HIDE DEF c
    <3> QED BY <1>3, <2>1, <3>1, <3>2
  <2>2. CASE k \notin Tasks
        BY <1>3, <2>2 DEF SolverSucceeds
  <2> QED BY <2>1, <2>2
<1>5. product' \in [Jobs -> Parts \cup {None}]
      BY <1>3, StepsNames DEF SolverSucceeds, ReadBy
<1>6. newer' \in [Jobs -> BOOLEAN]
  <2> DEFINE b == k \in Tasks
  <2>1. newer' = newer \/ newer' = [newer EXCEPT ![Job(s)] = b]
        BY DEF SolverSucceeds
  <2>2. b \in BOOLEAN
        OBVIOUS
  <2> HIDE DEF b
  <2> QED BY <1>3, <2>1, <2>2
<1> QED BY <1>1, <1>2, <1>3, <1>4, <1>5, <1>6, WorkStep

LEMMA SolverFailsInv ==
  ASSUME IInv, NEW s \in Runs, NEW k \in Steps, SolverFails(s, k)
  PROVE  IInv'
<1>1. /\ ex[s][k].solver /\ Solved(s, k, FALSE)
      /\ \/ shard' = shard
         \/ k \in Tasks /\ shard' = [shard EXCEPT ![Job(s)][k] = [@ EXCEPT !.ok = FALSE]]
      /\ UNCHANGED <<file, product, newer, record, client, key, held, run>>
      BY DEF SolverFails
<1>2. PICK e \in Executions(k) : ex' = [ex EXCEPT ![s][k] = e] /\ e.state # "none" /\ ~e.solver
      BY <1>1, SolvedExecution
<1>3. /\ ex[s][k].state # "none" /\ Job(s) \in Jobs
      /\ shard \in [Jobs -> [Tasks -> [part : Contents \cup {None}, ok : BOOLEAN]]]
      /\ product \in [Jobs -> Parts \cup {None}] /\ newer \in [Jobs -> BOOLEAN]
      BY <1>1 DEF IInv, TypeOK, HandlesInv, ReadsInv
<1>4. shard' \in [Jobs -> [Tasks -> [part : Contents \cup {None}, ok : BOOLEAN]]]
  <2>1. CASE shard' = shard
        BY <1>3, <2>1
  <2>2. CASE k \in Tasks /\ shard' = [shard EXCEPT ![Job(s)][k] = [@ EXCEPT !.ok = FALSE]]
    <3> DEFINE c == [shard[Job(s)][k] EXCEPT !.ok = FALSE]
    <3>1. shard[Job(s)][k] \in [part : Contents \cup {None}, ok : BOOLEAN]
          BY <1>3, <2>2
    <3>2. c \in [part : Contents \cup {None}, ok : BOOLEAN]
          BY <3>1
    <3>3. shard' = [shard EXCEPT ![Job(s)][k] = c]
          BY <2>2
    <3> DEFINE R == [part : Contents \cup {None}, ok : BOOLEAN]
    <3>4. c \in R /\ shard \in [Jobs -> [Tasks -> R]] /\ Job(s) \in Jobs /\ k \in Tasks
          BY <1>3, <2>2, <3>2
    <3> HIDE DEF c, R
    <3>5. shard' \in [Jobs -> [Tasks -> R]]
          BY <3>3, <3>4
    <3> QED BY <3>5 DEF R
  <2> QED BY <1>1, <2>1, <2>2
<1> QED BY <1>1, <1>2, <1>3, <1>4, WorkStep

LEMMA WorkerLostInv ==
  ASSUME IInv, NEW s \in Runs, NEW k \in Steps, WorkerLost(s, k)
  PROVE  IInv'
<1> DEFINE e == [ex[s][k] EXCEPT !.state = "error"]
<1>1. /\ ex[s][k].state = "running" /\ ex' = [ex EXCEPT ![s][k] = e]
      /\ UNCHANGED <<disk, client, key, held, run>>
      BY DEF WorkerLost
<1>2. /\ ex[s][k] \in Executions(k)
      /\ ex[s][k].solver => ex[s][k].read \in ReadBy(k)
      /\ shard \in [Jobs -> [Tasks -> [part : Contents \cup {None}, ok : BOOLEAN]]]
      /\ product \in [Jobs -> Parts \cup {None}] /\ newer \in [Jobs -> BOOLEAN]
      BY DEF IInv, TypeOK, ReadsInv
<1>3. /\ e \in Executions(k) /\ e.state = "error"
      /\ e.solver = ex[s][k].solver /\ e.read = ex[s][k].read
      BY <1>2 DEF Executions, Over
<1> HIDE DEF e
<1> QED BY <1>1, <1>2, <1>3, WorkStep DEF disk

-----------------------------------------------------------------------------
(* The invariant                                                           *)

LEMMA InitInv == ASSUME Init PROVE IInv
<1>1. 0 \in Contents
      BY LocalAssumption DEF Contents
<1>2. TypeOK
  <2>1. /\ file \in [Jobs -> Contents] /\ client \in BOOLEAN /\ newer \in [Jobs -> BOOLEAN]
        /\ shard \in [Jobs -> [Tasks -> [part : Contents \cup {None}, ok : BOOLEAN]]]
        /\ product \in [Jobs -> Parts \cup {None}]
        /\ record \in [Jobs -> [status : Final \cup {"partial", None}, by : Runs \cup {None}]]
        /\ key \in [Keys -> Runs \cup {None}] /\ held \subseteq Runs \X Steps
        BY <1>1 DEF Init
  <2>2. run \in [Runs -> Handles]
        BY NoRunType DEF Init
  <2>3. /\ ex = [r \in Runs |-> [k \in Steps |-> ex[r][k]]]
        /\ \A r \in Runs, k \in Steps : ex[r][k] \in Executions(k)
        BY NoRunType DEF Init
  <2> QED BY <2>1, <2>2, <2>3 DEF TypeOK
<1>3. \A r \in Runs : run[r] = NoRun
      BY DEF Init
<1>4. HandlesInv
  <2>1. NoRun.pc = "idle" /\ NoRun.result = None
        BY DEF NoRun
  <2> QED BY <1>3, <2>1 DEF HandlesInv
<1>5. RecordsInv
      BY LocalAssumption DEF Init, RecordsInv
<1>6. KeysInv
      BY DEF Init, KeysInv
<1>7. ReadsInv
      BY DEF Init, ReadsInv, NoExecution
<1> QED BY <1>2, <1>4, <1>5, <1>6, <1>7 DEF IInv

LEMMA AdvanceInv ==
  ASSUME IInv, NEW r \in Runs, Advance(r)
  PROVE  IInv'
BY SubmitTasksInv, MeshFailedInv, PollInv, CollectInv, PackedInv, PublishCompletedInv, JudgeInv
   DEF Advance

LEMMA NextInv ==
  ASSUME IInv, [Next]_vars
  PROVE  IInv'
<1>1. ASSUME NEW r \in Runs, NEW j \in Jobs, NEW v \in 0 .. MaxVersion, NEW fresh \in Forces,
             NEW shutdown \in Shutdowns,
             \/ \E n \in Tolerances : Submit(r, j, v, fresh, shutdown, n)
             \/ SubmitPostprocess(r, j, v, fresh, shutdown)
      PROVE  IInv'
  <2>1. v \in Contents /\ fresh \in BOOLEAN /\ shutdown \in BOOLEAN /\ Tolerances \subseteq Nat
        BY LocalAssumption DEF Contents
  <2> QED BY <1>1, <2>1, SubmitInv, SubmitPostprocessInv
<1>2. ASSUME NEW r \in Runs, Advance(r) \/ Timeout(r) \/ WatchTimeout(r) \/ Cancel(r)
      PROVE  IInv'
      BY <1>2, AdvanceInv, TimeoutInv, WatchTimeoutInv, CancelInv
<1>3. ASSUME NEW s \in Runs, NEW k \in Steps, Work(s, k) \/ WorkerLost(s, k)
      PROVE  IInv'
      BY <1>3, StartInv, SolverSucceedsInv, SolverFailsInv, WorkerLostInv DEF Work
<1>4. CASE UNCHANGED vars
  <2>1. TypeOK'
        BY <1>4 DEF vars, disk, dask, IInv, TypeOK
  <2>2. HandlesInv' /\ KeysInv' /\ ReadsInv'
        BY <1>4 DEF vars, disk, dask, IInv, HandlesInv, KeysInv, ReadsInv, Job
  <2>3. RecordsInv'
        BY <1>4 DEF vars, disk, dask, IInv, RecordsInv, Agree, Job
  <2> QED BY <2>1, <2>2, <2>3 DEF IInv
<1> QED BY <1>1, <1>2, <1>3, <1>4 DEF Next

LEMMA Invariance == Spec => []IInv
<1>1. Init => IInv
      BY InitInv
<1>2. IInv /\ [Next]_vars => IInv'
      BY NextInv
<1> QED BY <1>1, <1>2, PTL DEF Spec

\* Every variable holds what the site and its files can hold.
THEOREM LocalTypes == Spec => []TypeOK
<1>1. IInv => TypeOK
      BY DEF IInv
<1> QED BY <1>1, Invariance, PTL

\* The run-state file never says otherwise than the handle (LocalRunHandle and
\* _write_run_state): a final status a run published is that of its result.
THEOREM LocalRecordAgrees == Spec => []RecordAgrees
<1>1. IInv => RecordAgrees
  <2> SUFFICES ASSUME IInv, NEW j \in Jobs, NEW r \in Runs, record[j].by = r,
                      record[j].status \in Final, run[r].result # None
               PROVE  \/ record[j].status = run[r].result
                      \/ record[j].status = "failed" /\ run[r].result = "raised"
      BY DEF RecordAgrees
  <2> QED BY DEF IInv, RecordsInv, Agree
<1> QED BY <1>1, Invariance, PTL

-----------------------------------------------------------------------------
(* Who may cancel what                                                     *)

CancelledBy(r, k, q) == run'[q] # run[q] /\ (Job(q) = Job(r) \/ run[q].shutdown)
Undisturbed ==
  \A r \in Runs, k \in Steps :
    ex[r][k].state \in {"queued", "running"} /\ ex'[r][k].state = "cancelled" =>
      \E q \in Runs : CancelledBy(r, k, q)

LEMMA LetGoUndisturbed ==
  ASSUME IInv, NEW r \in Runs, run[r].pc # "idle", NEW C \in SUBSET Steps, NEW R,
         LetGo(r, C, R), run'[r] # run[r]
  PROVE  Undisturbed
<1> SUFFICES ASSUME NEW s \in Runs, NEW k \in Steps,
                    ex[s][k].state \in {"queued", "running"}, ex'[s][k].state = "cancelled"
             PROVE  CancelledBy(s, k, r)
    BY DEF Undisturbed
<1>1. TypeOK /\ Job(r) \in Jobs
      BY DEF IInv, HandlesInv
<1>2. PICK p \in Keys : key[p] = s /\ p[2] = k /\ (run[r].shutdown \/ p[1] = Job(r))
      BY <1>1, LetGoType, ZenonT(60)
<1>3. Job(s) = p[1]
      BY <1>2, LocalAssumption DEF IInv, KeysInv
<1> QED BY <1>2, <1>3 DEF CancelledBy

LEMMA SubmitUndisturbed ==
  ASSUME IInv, NEW r \in Runs, NEW h \in Handles, h.job \in Jobs, NEW K \in SUBSET Steps,
         SubmitFutures(r, h, K)
  PROVE  Undisturbed
<1>1. TypeOK
      BY DEF IInv
<1>2. \A s \in Runs, k \in Steps :
        ex'[s][k].state = ex[s][k].state \/ ex'[s][k].state = "queued"
      BY <1>1, SubmitFuturesType
<1> QED BY <1>2 DEF Undisturbed

LEMMA SameUndisturbed == ASSUME UNCHANGED dask PROVE Undisturbed
BY DEF dask, Undisturbed

\* The handle of a run that ends is another one.
LEMMA EndUndisturbed ==
  ASSUME IInv, NEW r \in Runs, run[r].pc \notin {"idle", "over"},
         NEW state \in Final \cup {"raised"}, End(r, state),
         NEW C \in SUBSET Steps, NEW R, LetGo(r, C, R)
  PROVE  Undisturbed
<1>1. run'[r].pc = "over"
      BY EndHandle
<1>2. run'[r] # run[r]
      BY <1>1
<1> QED BY <1>2, LetGoUndisturbed

LEMMA FailUndisturbed ==
  ASSUME IInv, NEW r \in Runs, run[r].pc \notin {"idle", "over"}, NEW C \in SUBSET Steps,
         Fail(r, C)
  PROVE  Undisturbed
<1>1. End(r, "failed") /\ "failed" \in Final
      BY DEF Fail, Final
<1>2. \E R : LetGo(r, C, R)
      BY DEF Fail
<1> QED BY <1>1, <1>2, EndUndisturbed

LEMMA RunsUndisturbed ==
  ASSUME IInv, NEW r \in Runs, Advance(r) \/ Timeout(r) \/ WatchTimeout(r) \/ Cancel(r)
  PROVE  Undisturbed
<1>1. run[r].pc \in {"mesh", "active", "pack", "judge", "judged"} /\ {} \in SUBSET Steps
      BY DEF Advance, SubmitTasks, MeshFailed, Poll, Waiting, Collect, Packed, PublishCompleted,
             Judge, Timeout, WatchTimeout, Cancel
<1>2. /\ run[r] \in Handles /\ Job(r) \in Jobs /\ run[r].job = Job(r)
      /\ TaskFutures(r) \in SUBSET Steps /\ Submitted(r) \in SUBSET Steps
      BY <1>1, HandleFacts
<1>3. \A state \in {"completed", "timeout", "raised"} : state \in Final \cup {"raised"}
      BY DEF Final
<1>4. CASE SubmitTasks(r)
  <2> DEFINE h == [run[r] EXCEPT !.pc = "active"]
  <2>1. h \in Handles /\ h.job = Job(r)
        BY <1>2 DEF Handles
  <2>2. SubmitFutures(r, h, run[r].pending)
        BY <1>4 DEF SubmitTasks
  <2>3. run[r].pending \in SUBSET Steps
        BY <1>2, StepsNames DEF Handles
  <2> HIDE DEF h
  <2> QED BY <1>2, <2>1, <2>2, <2>3, SubmitUndisturbed
<1>5. CASE MeshFailed(r)
      BY <1>1, <1>3, <1>5, EndUndisturbed DEF MeshFailed
<1>6. CASE Poll(r)
  <2> DEFINE T == TaskFutures(r)
             n == Cardinality({t \in T : Failed(r, t)})
             b == Unreadable(r, T)
             h == [run[r] EXCEPT !.errors = b, !.failed = n, !.polled = "running"]
  <2>1. UNCHANGED dask \/ SubmitFutures(r, h, {"post"})
        BY <1>6 DEF Poll, Polled
  <2>2. b \in BOOLEAN
        BY DEF Unreadable
  <2>3. n \in Nat
    <3>1. IsFiniteSet({t \in T : Failed(r, t)})
          BY FS_Subset, LocalAssumption DEF TaskFutures
    <3> QED BY <3>1, FS_CardinalityType
  <2> HIDE DEF b, n
  <2>4. h \in Handles /\ h.job = Job(r)
        BY <1>2, <2>2, <2>3 DEF Handles
  <2> HIDE DEF h
  <2>5. {"post"} \in SUBSET Steps
        BY StepsNames
  <2> QED BY <1>2, <2>1, <2>4, <2>5, SubmitUndisturbed, SameUndisturbed
<1>7. CASE Collect(r)
  <2> DEFINE h == [run[r] EXCEPT !.pc = "pack"]
  <2>1. h \in Handles /\ h.job = Job(r) /\ {"pack"} \in SUBSET Steps
        BY <1>2, StepsNames DEF Handles
  <2>2. UNCHANGED dask \/ SubmitFutures(r, h, {"pack"}) \/ Fail(r, {}) \/ Fail(r, Submitted(r))
        BY <1>7 DEF Collect
  <2> HIDE DEF h
  <2> QED BY <1>1, <1>2, <2>1, <2>2, SubmitUndisturbed, SameUndisturbed, FailUndisturbed
<1>8. CASE Packed(r)
  <2>1. \/ UNCHANGED dask \/ Fail(r, {}) \/ Fail(r, Submitted(r))
        \/ LetGo(r, {}, Submitted(r)) /\ End(r, "completed")
        BY <1>8 DEF Packed
  <2> QED BY <1>1, <1>2, <1>3, <2>1, SameUndisturbed, FailUndisturbed, EndUndisturbed
<1>9. CASE PublishCompleted(r)
      BY <1>9, SameUndisturbed DEF PublishCompleted
<1>10. CASE Judge(r)
      BY <1>1, <1>3, <1>10, FailUndisturbed, EndUndisturbed DEF Judge
<1>11. CASE Timeout(r)
      BY <1>1, <1>2, <1>3, <1>11, EndUndisturbed DEF Timeout
<1>12. CASE WatchTimeout(r)
      BY <1>12, SameUndisturbed DEF WatchTimeout
<1>13. CASE Cancel(r)
  <2>1. run \in [Runs -> Handles] /\ run' = [run EXCEPT ![r].cancelled = TRUE] /\ ~run[r].cancelled
        /\ LetGo(r, TaskFutures(r), TaskFutures(r))
        BY <1>13 DEF Cancel, IInv, TypeOK
  <2>2. run'[r].cancelled
        BY <1>2, <2>1 DEF Handles
  <2>3. run'[r] # run[r]
        BY <2>1, <2>2
  <2> QED BY <1>1, <1>2, <2>1, <2>3, LetGoUndisturbed
<1> QED BY <1>4, <1>5, <1>6, <1>7, <1>8, <1>9, <1>10, <1>11, <1>12, <1>13 DEF Advance

LEMMA SubmissionUndisturbed ==
  ASSUME IInv, NEW r \in Runs, NEW j \in Jobs, NEW v \in Contents, NEW fresh \in BOOLEAN,
         NEW shutdown \in BOOLEAN,
         \/ \E n \in Nat : Submit(r, j, v, fresh, shutdown, n)
         \/ SubmitPostprocess(r, j, v, fresh, shutdown)
  PROVE  Undisturbed
<1>1. CASE SubmitPostprocess(r, j, v, fresh, shutdown)
      BY <1>1, SameUndisturbed DEF SubmitPostprocess, Skip, dask
<1>2. ASSUME NEW n \in Nat, Submit(r, j, v, fresh, shutdown, n)
      PROVE  Undisturbed
  <2> DEFINE h == [NoRun EXCEPT !.job = j, !.fresh = fresh, !.shutdown = shutdown,
                                !.tolerance = n, !.version = v]
             pending == {t \in Tasks : fresh \/ ~CurrentTask(j, t, v)}
             g == [h EXCEPT !.pc = "mesh", !.pending = pending]
  <2>1. UNCHANGED dask \/ SubmitFutures(r, g, {"mesh"})
        BY <1>2 DEF Submit, Skip
  <2>2. NewHandle(h, j)
    <3>1. h \in Handles /\ h.job = j
          BY NoRunType, ZenonT(60) DEF Handles
    <3>2. h.result = None /\ h.future = [k \in Steps |-> None]
          BY DEF NoRun
    <3> QED BY <3>1, <3>2 DEF NewHandle
  <2>3. StartedHandle(g, j, "mesh", None)
        BY <2>2, StartHandle, Zenon
  <2>4. {"mesh"} \in SUBSET Steps
        BY StepsNames
  <2> HIDE DEF g, h, pending
  <2> QED BY <2>1, <2>3, <2>4, SubmitUndisturbed, SameUndisturbed DEF StartedHandle
<1> QED BY <1>1, <1>2

LEMMA WorkUndisturbed ==
  ASSUME IInv, NEW s \in Runs, NEW k \in Steps, Work(s, k) \/ WorkerLost(s, k)
  PROVE  Undisturbed
<1>1. /\ ex = [r \in Runs |-> [i \in Steps |-> ex[r][i]]]
      /\ ex[s][k] \in Executions(k)
      BY DEF IInv, TypeOK
<1>2. \E e : /\ ex' = [ex EXCEPT ![s][k] = e]
             /\ e.state = "cancelled" => ex[s][k].state = "cancelled"
  <2>1. CASE Start(s, k)
    <3> DEFINE x == CASE k \in Tasks -> file[Job(s)]
                      [] k = "post" -> [t \in Tasks |-> shard[Job(s)][t].part]
                      [] OTHER -> None
               e == [ex[s][k] EXCEPT !.state = "running", !.solver = TRUE, !.read = x]
    <3>1. ex' = [ex EXCEPT ![s][k] = e]
          BY <2>1 DEF Start
    <3> HIDE DEF x
    <3>2. e.state = "running"
          BY <1>1 DEF Executions
    <3> HIDE DEF e
    <3> QED BY <3>1, <3>2
  <2>2. ASSUME NEW ok \in BOOLEAN, Solved(s, k, ok)
        PROVE  \E e : /\ ex' = [ex EXCEPT ![s][k] = e]
                      /\ e.state = "cancelled" => ex[s][k].state = "cancelled"
    <3> DEFINE b == ok /\ ex[s][k].state = "running"
               x == IF ex[s][k].state = "running" THEN "done" ELSE ex[s][k].state
               e == [ex[s][k] EXCEPT !.solver = FALSE, !.read = None, !.ok = b, !.state = x]
    <3>1. ex' = [ex EXCEPT ![s][k] = e]
          BY <2>2 DEF Solved
    <3>2. x = "cancelled" => ex[s][k].state = "cancelled"
          OBVIOUS
    <3> HIDE DEF b, x
    <3>3. e.state = x
          BY <1>1 DEF Executions
    <3> HIDE DEF e
    <3> QED BY <3>1, <3>2, <3>3
  <2>3. CASE WorkerLost(s, k)
    <3> DEFINE e == [ex[s][k] EXCEPT !.state = "error"]
    <3>1. ex' = [ex EXCEPT ![s][k] = e]
          BY <2>3 DEF WorkerLost
    <3>2. e.state = "error"
          BY <1>1 DEF Executions
    <3> HIDE DEF e
    <3> QED BY <3>1, <3>2
  <2> QED BY <2>1, <2>2, <2>3 DEF Work, SolverSucceeds, SolverFails
<1>3. PICK e : /\ ex' = [ex EXCEPT ![s][k] = e]
               /\ e.state = "cancelled" => ex[s][k].state = "cancelled"
      BY <1>2
<1>4. \A r \in Runs, i \in Steps : ex'[r][i] = IF r = s /\ i = k THEN e ELSE ex[r][i]
      BY <1>1, <1>3
<1> QED BY <1>3, <1>4 DEF Undisturbed

\* No run of a family cancels what another job's run executes, unless it was submitted
\* with shutdown_on_completion (_cancel_futures, close).
THEOREM LocalSiblingsUndisturbed == Spec => SiblingsUndisturbed
<1>1. ASSUME IInv, Next
      PROVE  Undisturbed
  <2>1. ASSUME NEW r \in Runs, NEW j \in Jobs, NEW v \in 0 .. MaxVersion, NEW fresh \in Forces,
               NEW shutdown \in Shutdowns,
               \/ \E n \in Tolerances : Submit(r, j, v, fresh, shutdown, n)
               \/ SubmitPostprocess(r, j, v, fresh, shutdown)
        PROVE  Undisturbed
    <3>1. v \in Contents /\ fresh \in BOOLEAN /\ shutdown \in BOOLEAN /\ Tolerances \subseteq Nat
          BY LocalAssumption DEF Contents
    <3> QED BY <1>1, <2>1, <3>1, SubmissionUndisturbed
  <2> QED BY <1>1, <2>1, RunsUndisturbed, WorkUndisturbed DEF Next
<1>2. IInv /\ [Next]_vars =>
        [\A r \in Runs, k \in Steps :
           ex[r][k].state \in {"queued", "running"} /\ ex'[r][k].state = "cancelled" =>
             \E q \in Runs : /\ run'[q] # run[q]
                             /\ Job(q) = Job(r) \/ run[q].shutdown]_vars
      BY <1>1 DEF Undisturbed, CancelledBy
<1> QED BY <1>2, Invariance, PTL DEF Spec, SiblingsUndisturbed

=============================================================================
