--------------------------- MODULE RankIntervals ---------------------------
(***************************************************************************)
(* The free list of MPI ranks kept by the adaptive sweep scheduler, and    *)
(* the two helpers that change it, _allocate_interval and _free_interval.  *)
(*                                                                         *)
(* The code keeps a list of (start, length) pairs sorted by start.  A set  *)
(* of records carries the same information, because two free intervals     *)
(* never have the same start (RanksPartitioned in AdaptiveSchedulerProps).         *)
(***************************************************************************)
EXTENDS Integers, FiniteSetsExt

Interval == [start : Nat, length : Nat \ {0}]

\* First rank after the interval.
End(iv) == iv.start + iv.length

\* The ranks offset, ..., offset + ranks - 1.
Span(offset, ranks) == offset .. (offset + ranks - 1)

RanksOf(ivs) == UNION {Span(iv.start, iv.length) : iv \in ivs}

TotalFreeRanks(ivs) == MapThenSumSet(LAMBDA iv : iv.length, ivs)

-----------------------------------------------------------------------------
(* _allocate_interval: the first interval that is long enough gives its    *)
(* first ranks away and is shrunk, or deleted when nothing is left of it.  *)

IsFirstFit(iv, ivs, ranks) ==
  /\ iv \in ivs
  /\ iv.length >= ranks
  /\ \A other \in ivs : other.length >= ranks => iv.start <= other.start

Fits(ivs, ranks) == \E iv \in ivs : iv.length >= ranks

\* Mutants of TakeFrom: an exhausted interval stays in the list; the start of
\* the interval is not moved.
TakeFromKeepsEmpty(iv, ivs, ranks) ==
  (ivs \ {iv}) \cup {[start |-> iv.start + ranks, length |-> iv.length - ranks]}

TakeFromKeepsStart(iv, ivs, ranks) ==
  (ivs \ {iv}) \cup
  {rest \in {[start |-> iv.start, length |-> iv.length - ranks]} : rest.length # 0}

TakeFrom(iv, ivs, ranks) ==
  (ivs \ {iv}) \cup
  {rest \in {[start |-> iv.start + ranks, length |-> iv.length - ranks]} :
      rest.length # 0}

(* _free_interval: the span goes back to the list and is joined with the   *)
(* intervals it touches.  The span was allocated, so it overlaps none.     *)

\* Mutant of LeftOf: an interval that ends where the span starts is not merged.
LeftOfIgnoresTouching(ivs, offset) == {}

LeftOf(ivs, offset) == {iv \in ivs : End(iv) = offset}

RightOf(ivs, offset, ranks) == {iv \in ivs : iv.start = offset + ranks}

FreeInterval(ivs, offset, ranks) ==
  LET left  == LeftOf(ivs, offset)
      right == RightOf(ivs, offset, ranks)
      first == IF left = {} THEN offset ELSE (CHOOSE iv \in left : TRUE).start
      after == IF right = {} THEN offset + ranks
                             ELSE End(CHOOSE iv \in right : TRUE)
  IN  (ivs \ (left \cup right)) \cup {[start |-> first, length |-> after - first]}

-----------------------------------------------------------------------------
(* A list in the normal form both helpers keep: any two intervals are      *)
(* separated by at least one rank that is not free.                        *)

Separated(ivs) ==
  \A iv, other \in ivs : iv # other => End(iv) < other.start \/ End(other) < iv.start
=============================================================================
