--------------------------- MODULE Linearizations ---------------------------
(***************************************************************************)
(* Linearizations of an imaging problem and their cache                    *)
(* (imaging/problem.py, imaging/extension.py, imaging/_backend.py).  A     *)
(* linearization is the saved solver state at a point; derivative actions  *)
(* run on it later.  The point reaches the solver in one of two ways: the  *)
(* coefficients are installed in the working simulation, which all points  *)
(* of a problem share, or a state file is staged in a directory of its own *)
(* that the least-recently-used cache deletes on eviction.  Of these       *)
(* directories only the state file matters: they are made when needed.     *)
(*                                                                         *)
(* A family of problems (with_controls) shares one cache; views of one     *)
(* problem (restrict) share its table of linearizations and differ in the  *)
(* support masks they adopt; an extended problem (extend) has a table of   *)
(* its own, outside the family.  Views with other frequencies or blocks    *)
(* have other keys and are left out.  One thread calls.                    *)
(***************************************************************************)
EXTENDS Naturals, Sequences, SequencesExt

CONSTANTS
  Problems,     \* problems of one family
  Inline,       \* those of material and interface blocks only
  Views,        \* views of these problems
  Extensions,   \* extended problems
  ProblemOf,    \* the problem of a view
  ViewOf,       \* the view that is extended
  Trials,       \* points away from the authored one
  Authored,     \* the authored point
  Mixed,        \* content of a simulation whose installation was interrupted
  None,
  Capacity,     \* linearizations kept alive
  Remade,       \* bound: views that the caller replaces
  ExtendedAt    \* bound: points at which extended problems are linearized

Users == Views \cup Extensions
Tables == Problems \cup Extensions
Points == Trials \cup {Authored}
Keys == [table : Tables, point : Points]
\* What is kept of a linearization: whether it has a gradient, where its masks were
\* measured, and the space it is on, known by where the masks of this were.
Linearization == [gradient : BOOLEAN, measured : Points, space : Points]

ASSUME LinearizationsAssumption ==
  /\ Inline \subseteq Problems
  /\ Views \cap Extensions = {} /\ Problems \cap Extensions = {}
  /\ ProblemOf \in [Views -> Problems] /\ ViewOf \in [Extensions -> Views]
  /\ Authored \notin Trials /\ Mixed \notin Points
  /\ None \notin Points \cup {Mixed} \cup Linearization
  /\ Capacity \in Nat \ {0} /\ Remade \subseteq Views /\ ExtendedAt \subseteq Points

VARIABLES
  cache,       \* keys of the cached linearizations, oldest use first
  known,       \* of a table and a point: the linearization
  files,       \* keys in whose directory there is a state file
  simulation,  \* the point whose coefficients the working simulation has
  installed,   \* the point it is taken to have
  baseline,    \* problems whose registry has been discovered
  support,     \* of a view: where the masks it adopted were measured
  latest,      \* what the last linearize() returned, and to whom
  job          \* of the last call, if the point was installed: the point asked for
               \* and the point that the job ran at

registry == <<simulation, installed, baseline>>
vars == <<cache, known, files, registry, support, latest, job>>

View(u) == IF u \in Extensions THEN ViewOf[u] ELSE u
Problem(u) == ProblemOf[View(u)]
Table(u) == IF u \in Extensions THEN u ELSE ProblemOf[u]
KeyOf(u, p) == [table |-> Table(u), point |-> p]

-----------------------------------------------------------------------------
(* The cache.                                                              *)

Cached(key) == \E i \in DOMAIN cache : cache[i] = key

\* There is at most one entry of a key.
Without(key) ==
  IF Cached(key) THEN RemoveAt(cache, CHOOSE i \in DOMAIN cache : cache[i] = key) ELSE cache
With(key) == Append(Without(key), key)

\* Mutant of Touched: a hit does not count as a use.
TouchedNever(key) == cache
Touched(key) == IF Cached(key) THEN With(key) ELSE cache

\* Mutant of Overfull: an entry too many.
OverfullLate(key) == Len(With(key)) > Capacity + 1
Overfull(key) == Len(With(key)) > Capacity
Kept(key) == IF Overfull(key) THEN Tail(With(key)) ELSE With(key)
Evicted(key) == IF Overfull(key) THEN {Head(With(key))} ELSE {}

\* Mutant of Removed: replacing an entry deletes its directory too.
RemovedWithReplaced(key) == Evicted(key) \cup {k \in {key} : Cached(k)}
\* Keys whose directories are removed when one is put.
Removed(key) == Evicted(key)

\* Mutant of Forgetful: an eviction is forgotten by the problem that caused it.
ForgetfulAlone(u) == {Table(u)}
\* Tables that forget an entry evicted by u.
Forgetful(u) == Problems \cup {Table(u)}

Forget(tables, keys) ==
  [t \in Tables |-> [p \in Points |->
     IF t \in tables /\ [table |-> t, point |-> p] \in keys THEN None ELSE known[t][p]]]

-----------------------------------------------------------------------------
(* A point on its way to the solver.                                       *)

\* _sync_simulation has nothing to do.
InSync(pr, p) == pr \notin Inline \/ installed[pr] = p

Content(pr, p) == IF InSync(pr, p) THEN simulation[pr] ELSE p
Sync(pr, p) ==
  /\ simulation' = [simulation EXCEPT ![pr] = Content(pr, p)]
  /\ installed' = [installed EXCEPT ![pr] = IF pr \in Inline THEN p ELSE @]

\* It raises before it has saved the simulation, which some blocks of p, or all, are
\* installed in.
SyncFails(pr, p) ==
  /\ ~InSync(pr, p)
  /\ simulation' = [simulation EXCEPT ![pr] = Mixed]
  /\ UNCHANGED <<installed, baseline>>

\* _stage_state: any point but the authored one needs a state file.
NeedsFile(pr, p) == p # Authored /\ pr \notin Inline
Staged(u, p) == files \cup {key \in {KeyOf(u, p)} : NeedsFile(Problem(u), p)}

\* A point in a file is what the solver reads; an installed one depends on the simulation.
Run(pr, p) ==
  job' = IF pr \in Inline THEN [problem |-> pr, wanted |-> p, ran |-> simulation'[pr]] ELSE None

-----------------------------------------------------------------------------
(* linearize()                                                             *)

\* A space with the masks that v has, or adopts when it sees these.
Effective(v, measured) == IF support[v] = None THEN measured ELSE support[v]
Adopt(v, measured) == support' = [support EXCEPT ![v] = Effective(v, measured)]

Known(u, p) == known[Table(u)][p]
\* A value-only linearization does not serve a caller who wants the gradient.
Found(u, p, gradient) == Known(u, p) # None /\ (gradient => Known(u, p).gradient)
\* Mutant of Reusable: whatever its space.
ReusableAnyway(u, p, gradient) == Found(u, p, gradient)
Reusable(u, p, gradient) ==
  /\ Found(u, p, gradient)
  /\ Effective(View(u), Known(u, p).measured) = Known(u, p).space

\* What a lookup leaves, also when the result does not fit and is computed again.
Seen(u, p, gradient) ==
  IF Found(u, p, gradient) THEN Touched(KeyOf(u, p)) ELSE cache
AdoptFound(u, p, gradient) ==
  IF Found(u, p, gradient) THEN Adopt(View(u), Known(u, p).measured) ELSE UNCHANGED support

\* Away from the authored point the registry must have been discovered: by Compute
\* at the authored point, which a caller may also ask for.
CanLinearize(u, p) == p = Authored \/ Problem(u) \in baseline

Reuse(u, p, gradient) ==
  /\ Reusable(u, p, gradient)
  /\ cache' = Seen(u, p, gradient)
  /\ AdoptFound(u, p, gradient)
  /\ latest' = [user |-> u, key |-> KeyOf(u, p), space |-> Known(u, p).space]
  /\ job' = None
  /\ UNCHANGED <<files, known, registry>>

\* The masks are those of the job if it writes any, else those of the baseline.
Measured(u, p, gradient) ==
  IF u \in Views /\ gradient THEN p ELSE Authored

Result(u, p, gradient) ==
  LET measured == Measured(u, p, gradient)
      adopted == IF Found(u, p, gradient) THEN Known(u, p).measured ELSE measured IN
  [gradient |-> gradient \/ u \in Extensions, measured |-> measured,
   space |-> Effective(View(u), adopted)]

\* The job ends well; the linearization is cached, and the evicted one forgotten.
Compute(u, p, gradient) ==
  LET result == Result(u, p, gradient) key == KeyOf(u, p) IN
  /\ CanLinearize(u, p) /\ ~Reusable(u, p, gradient)
  /\ Sync(Problem(u), p)
  /\ Run(Problem(u), p)
  /\ baseline' = baseline \cup {Problem(u)}
  /\ support' = [support EXCEPT ![View(u)] = result.space]
  /\ cache' = Kept(key)
  /\ files' = Staged(u, p) \ Removed(key)
  /\ known' = [Forget(Forgetful(u), Evicted(key)) EXCEPT ![Table(u)][p] = result]
  /\ latest' = [user |-> u, key |-> key, space |-> result.space]

\* The job is run, and it or one of its tasks fails.
JobFails(u, p, gradient) ==
  /\ CanLinearize(u, p) /\ ~Reusable(u, p, gradient)
  /\ Sync(Problem(u), p)
  /\ Run(Problem(u), p)
  /\ files' = Staged(u, p)
  /\ cache' = Seen(u, p, gradient)
  /\ AdoptFound(u, p, gradient)
  /\ latest' = None
  /\ UNCHANGED <<baseline, known>>

\* Nothing is run.
LinearizeFails(u, p, gradient) ==
  /\ CanLinearize(u, p) /\ ~Reusable(u, p, gradient)
  /\ SyncFails(Problem(u), p)
  /\ cache' = Seen(u, p, gradient)
  /\ AdoptFound(u, p, gradient)
  /\ latest' = None /\ job' = None
  /\ UNCHANGED <<files, known>>

Linearize(u) ==
  \E p \in Points, gradient \in BOOLEAN :
    /\ u \in Extensions => ~gradient /\ p \in ExtendedAt
    /\ \/ Reuse(u, p, gradient)
       \/ Compute(u, p, gradient)
       \/ JobFails(u, p, gradient)
       \/ LinearizeFails(u, p, gradient)

-----------------------------------------------------------------------------
(* jvp(), vjp(), normal: an action on a linearization.                     *)

\* Mutant of Resync: the simulation is left where the last linearize moved it.
ResyncNever(pr, p) == UNCHANGED <<simulation, installed>>
Resync(pr, p) == Sync(pr, p)

\* A value-only linearization is linearized again first (_with_covector): Linearize.
\* Without the state file of its point the call raises and changes nothing.
Actionable(u, p) ==
  /\ Known(u, p) # None /\ Known(u, p).gradient
  /\ NeedsFile(Problem(u), p) => KeyOf(u, p) \in files

Act(u, p) ==
  /\ Actionable(u, p)
  /\ Resync(Problem(u), p)
  /\ Run(Problem(u), p)
  /\ UNCHANGED <<cache, known, files, baseline, support, latest>>

ActFails(u, p) ==
  /\ Actionable(u, p)
  /\ SyncFails(Problem(u), p)
  /\ job' = None
  /\ UNCHANGED <<cache, known, files, support, latest>>

-----------------------------------------------------------------------------
(* The rest of the interface.                                              *)

\* dry_run() stages the point and submits nothing.
DryRun(u) ==
  /\ \E p \in Points : CanLinearize(u, p) /\ files' = Staged(u, p)
  /\ job' = None
  /\ UNCHANGED <<cache, known, registry, support, latest>>

\* restrict(): the caller goes on with a new view w, made from v.
RestrictView(v, w) ==
  /\ ProblemOf[v] = ProblemOf[w]
  /\ \E masks \in {support[v], None} : support' = [support EXCEPT ![w] = masks]
  /\ latest' = IF latest # None /\ View(latest.user) = w THEN None ELSE latest
  /\ job' = None
  /\ UNCHANGED <<cache, known, files, registry>>

ClearCache(u) ==
  LET keys == {cache[i] : i \in DOMAIN cache}
      emptied == {Problem(u), Table(u)} IN
  /\ cache' = <<>>
  /\ files' = files \ keys
  /\ known' = [t \in Tables |->
       IF t \in emptied THEN [p \in Points |-> None] ELSE Forget(Problems, keys)[t]]
  /\ job' = None
  /\ UNCHANGED <<registry, support, latest>>

-----------------------------------------------------------------------------

Init ==
  /\ cache = <<>>
  /\ known = [t \in Tables |-> [p \in Points |-> None]]
  /\ files = {}
  /\ simulation = [pr \in Problems |-> Authored]
  /\ installed = [pr \in Problems |-> None]
  /\ baseline = {}
  /\ support = [v \in Views |-> None]
  /\ latest = None /\ job = None

Next ==
  \/ \E u \in Users : Linearize(u) \/ DryRun(u) \/ ClearCache(u)
  \/ \E u \in Users, p \in Points : Act(u, p) \/ ActFails(u, p)
  \/ \E v \in Views, w \in Remade : RestrictView(v, w)

Spec == Init /\ [][Next]_vars
=============================================================================
