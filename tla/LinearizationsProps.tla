------------------------- MODULE LinearizationsProps -------------------------
(***************************************************************************)
(* What callers rely on: a result is usable as long as it is cached, lies  *)
(* on the space of the view that asked, and acts at its own point.         *)
(***************************************************************************)
EXTENDS Linearizations

\* Type invariant of the problems, their cache and the files it owns.
TypeOK ==
  /\ cache \in Seq(Keys) /\ Len(cache) <= Capacity
  /\ known \in [Tables -> [Points -> Linearization \cup {None}]]
  /\ files \subseteq Keys
  /\ simulation \in [Problems -> Points \cup {Mixed}]
  /\ installed \in [Problems -> Points \cup {None}]
  /\ baseline \subseteq Problems
  /\ support \in [Views -> Points \cup {None}]
  /\ latest \in [user : Users, key : Keys, space : Points] \cup {None}
  /\ job \in [problem : Inline, wanted : Points, ran : Points \cup {Mixed}] \cup {None}

\* The problem whose points a table has.
Owner(t) == IF t \in Extensions THEN Problem(t) ELSE t

\* A cached linearization can be used: its table has it, and if its point was staged
\* in a file, the file is there.  No eviction, replacement or clearing takes away the
\* files of another.
CachedIsUsable ==
  \A i \in DOMAIN cache :
    LET t == cache[i].table p == cache[i].point IN
    known[t][p] # None /\ (NeedsFile(Owner(t), p) => cache[i] \in files)

\* An eviction by any member of a family is forgotten everywhere in it
\* (the comment at imaging/problem.py:340): what a problem knows is cached, so that
\* linearize() never returns a result whose directory is gone.  Extended problems
\* are no members of the family.
KnownIsCached ==
  \A pr \in Problems, p \in Points : known[pr][p] # None => Cached([table |-> pr, point |-> p])

\* A caller gets a linearization on the space of its own view, with the masks that
\* the view has adopted, whichever view of the problem, with whatever masks, had
\* linearized at the point before.
ReturnedOnSpace == latest # None => latest.space = support[View(latest.user)]

\* A job runs at the point it was asked for, though all points of a problem share
\* one working simulation and an action may come after later linearizations.
\* It fails to if an earlier installation was interrupted: then the simulation is
\* not what its digest says.
RunsAtPoint ==
  [][job' # None =>
       \/ job'.ran = job'.wanted
       \/ /\ installed[job'.problem] = job'.wanted
          /\ simulation[job'.problem] # installed[job'.problem]]_vars

\* With a capacity of at least two, what was returned last survives the next
\* linearize: a step can be tried from a base without losing the base.
LatestStays ==
  [][Capacity > 1 /\ latest # None /\ latest' # latest /\ Cached(latest.key)
       => \E i \in DOMAIN cache' : cache'[i] = latest.key]_vars
=============================================================================
