------------------------ MODULE RankIntervalsProofs ------------------------
(***************************************************************************)
(* Facts about the two helpers of the free list, for every list in normal  *)
(* form: neither loses nor duplicates a rank, and both keep the normal     *)
(* form.                                                                   *)
(***************************************************************************)
EXTENDS RankIntervals, TLAPS

\* _allocate_interval takes exactly the first ranks of the chosen interval out
\* of the free list, and leaves a list in normal form.
THEOREM TakeFromTakesRanks ==
  ASSUME NEW ivs \in SUBSET Interval, Separated(ivs),
         NEW iv \in ivs, NEW ranks \in Nat \ {0}, iv.length >= ranks
  PROVE  /\ TakeFrom(iv, ivs, ranks) \subseteq Interval
         /\ Separated(TakeFrom(iv, ivs, ranks))
         /\ Span(iv.start, ranks) \subseteq RanksOf(ivs)
         /\ RanksOf(TakeFrom(iv, ivs, ranks)) = RanksOf(ivs) \ Span(iv.start, ranks)
<1> DEFINE rest == [start |-> iv.start + ranks, length |-> iv.length - ranks]
<1> DEFINE taken == TakeFrom(iv, ivs, ranks)
<1>1. /\ iv.start \in Nat /\ iv.length \in Nat \ {0}
      /\ \A other \in ivs : other.start \in Nat /\ other.length \in Nat \ {0}
  BY DEF Interval
<1>2. \A x : x \in taken <=> (x \in ivs /\ x # iv) \/ (x = rest /\ iv.length # ranks)
  BY <1>1 DEF TakeFrom
<1>3. iv.length # ranks => rest \in Interval /\ End(rest) = End(iv)
  BY <1>1 DEF Interval, End
<1>4. taken \subseteq Interval
  BY <1>2, <1>3
<1>5. Separated(taken)
  <2> SUFFICES ASSUME NEW x \in taken, NEW y \in taken, x # y
               PROVE  End(x) < y.start \/ End(y) < x.start
    BY DEF Separated
  <2>1. CASE x # rest /\ y # rest
    BY <2>1, <1>2 DEF Separated
  <2>2. ASSUME NEW z \in ivs, z # iv, iv.length # ranks
        PROVE  End(rest) < z.start \/ End(z) < rest.start
    <3>1. End(iv) < z.start \/ End(z) < iv.start
      BY <2>2 DEF Separated
    <3>2. z.start \in Nat /\ End(z) \in Nat /\ End(iv) \in Nat
      BY <1>1 DEF End
    <3>3. rest.start = iv.start + ranks
      OBVIOUS
    <3> QED
      BY <3>1, <3>2, <3>3, <1>1, <1>3, <2>2
  <2>3. CASE x = rest /\ iv.length # ranks
    <3>1. CASE y \in ivs /\ y # iv
      BY <3>1, <2>2, <2>3
    <3> QED
      BY <3>1, <1>2, <2>3
  <2>4. CASE y = rest /\ iv.length # ranks
    <3>1. CASE x \in ivs /\ x # iv
      BY <3>1, <2>2, <2>4
    <3> QED
      BY <3>1, <1>2, <2>4
  <2>5. CASE iv.length = ranks
    BY <2>5, <1>2 DEF Separated
  <2> QED
    BY <2>1, <2>3, <2>4, <2>5
<1>6. Span(iv.start, ranks) \subseteq RanksOf(ivs)
  BY <1>1 DEF Span, RanksOf
<1>7. \A r : r \in RanksOf(ivs) <=>
               \E x \in ivs : r \in Int /\ x.start <= r /\ r < End(x)
  BY <1>1 DEF RanksOf, Span, End
<1>8. \A r : r \in RanksOf(taken) <=>
               \E x \in taken : r \in Int /\ x.start <= r /\ r < End(x)
  BY <1>4 DEF RanksOf, Span, End, Interval
<1>9. ASSUME NEW r
      PROVE  r \in RanksOf(taken) <=> r \in RanksOf(ivs) \ Span(iv.start, ranks)
  <2>1. ASSUME NEW x \in ivs, x # iv, r \in Int, x.start <= r, r < End(x)
        PROVE  r \notin Span(iv.start, ranks)
    <3>1. End(x) < iv.start \/ End(iv) < x.start
      BY <2>1 DEF Separated
    <3> QED
      BY <3>1, <2>1, <1>1 DEF Span, End
  <2>2. ASSUME r \in RanksOf(taken)
        PROVE  r \in RanksOf(ivs) \ Span(iv.start, ranks)
    <3>1. PICK x \in taken : r \in Int /\ x.start <= r /\ r < End(x)
      BY <2>2, <1>8
    <3>2. CASE x \in ivs /\ x # iv
      BY <3>1, <3>2, <2>1, <1>7
    <3>3. CASE x = rest /\ iv.length # ranks
      <4>1. r \in Int /\ iv.start + ranks <= r /\ r < End(iv)
        BY <3>1, <3>3, <1>3
      <4> QED
        BY <4>1, <1>1, <1>7 DEF Span, End
    <3> QED
      BY <3>2, <3>3, <1>2
  <2>3. ASSUME r \in RanksOf(ivs), r \notin Span(iv.start, ranks)
        PROVE  r \in RanksOf(taken)
    <3>1. PICK x \in ivs : r \in Int /\ x.start <= r /\ r < End(x)
      BY <2>3, <1>7
    <3>2. CASE x # iv
      BY <3>1, <3>2, <1>2, <1>8
    <3>3. CASE x = iv
      <4>1. iv.start + ranks <= r /\ iv.length # ranks
        BY <3>1, <3>3, <2>3, <1>1 DEF Span, End
      <4>2. rest \in taken /\ rest.start <= r /\ r < End(rest)
        BY <4>1, <3>1, <3>3, <1>2, <1>3
      <4> QED
        BY <4>2, <3>1, <1>8
    <3> QED
      BY <3>2, <3>3
  <2> QED
    BY <2>2, <2>3
<1> QED
  BY <1>4, <1>5, <1>6, <1>9

\* _free_interval puts exactly the span it is given back into the free list,
\* and leaves a list in normal form: the neighbours have been merged.
THEOREM FreeIntervalFreesRanks ==
  ASSUME NEW ivs \in SUBSET Interval, Separated(ivs),
         NEW offset \in Nat, NEW ranks \in Nat \ {0},
         Span(offset, ranks) \cap RanksOf(ivs) = {}
  PROVE  /\ FreeInterval(ivs, offset, ranks) \subseteq Interval
         /\ Separated(FreeInterval(ivs, offset, ranks))
         /\ RanksOf(FreeInterval(ivs, offset, ranks))
              = RanksOf(ivs) \cup Span(offset, ranks)
<1> DEFINE left  == LeftOf(ivs, offset)
           right == RightOf(ivs, offset, ranks)
           first == IF left = {} THEN offset ELSE (CHOOSE iv \in left : TRUE).start
           after == IF right = {} THEN offset + ranks
                                  ELSE End(CHOOSE iv \in right : TRUE)
           merged == [start |-> first, length |-> after - first]
           freed == FreeInterval(ivs, offset, ranks)
<1>1. \A iv \in ivs : iv.start \in Nat /\ iv.length \in Nat \ {0} /\ End(iv) \in Nat
                      /\ iv.start < End(iv)
  BY DEF Interval, End
<1>2. ASSUME NEW iv \in ivs
      PROVE  End(iv) <= offset \/ offset + ranks <= iv.start
  <2>1. \A r \in Int : ~(/\ iv.start <= r /\ r < End(iv)
                         /\ offset <= r /\ r < offset + ranks)
    <3> SUFFICES ASSUME NEW r \in Int, iv.start <= r, r < End(iv),
                        offset <= r, r < offset + ranks
                 PROVE  FALSE
      OBVIOUS
    <3>1. r \in Span(offset, ranks)
      BY DEF Span
    <3>2. r \in RanksOf(ivs)
      BY <1>1 DEF RanksOf, Span, End
    <3> QED
      BY <3>1, <3>2
  <2> QED
    BY <2>1, <1>1
<1>3. left = {} \/ \E iv \in ivs : left = {iv} /\ End(iv) = offset
  <2> SUFFICES ASSUME NEW x \in left PROVE left = {x} /\ x \in ivs /\ End(x) = offset
    OBVIOUS
  <2>1. x \in ivs /\ End(x) = offset
    BY DEF LeftOf
  <2>2. \A y \in left : y = x
    BY <2>1, <1>1 DEF LeftOf, Separated
  <2> QED
    BY <2>1, <2>2
<1>4. right = {} \/ \E iv \in ivs : right = {iv} /\ iv.start = offset + ranks
  <2> SUFFICES ASSUME NEW x \in right
               PROVE  right = {x} /\ x \in ivs /\ x.start = offset + ranks
    OBVIOUS
  <2>1. x \in ivs /\ x.start = offset + ranks
    BY DEF RightOf
  <2>2. \A y \in right : y = x
    BY <2>1, <1>1 DEF RightOf, Separated
  <2> QED
    BY <2>1, <2>2
<1>5. \/ left = {} /\ first = offset
      \/ \E iv \in ivs : left = {iv} /\ End(iv) = offset /\ first = iv.start
  BY <1>3
<1>6. \/ right = {} /\ after = offset + ranks
      \/ \E iv \in ivs : right = {iv} /\ iv.start = offset + ranks /\ after = End(iv)
  BY <1>4
<1>7. first \in Nat /\ after \in Nat /\ first <= offset /\ offset + ranks <= after
  BY <1>5, <1>6, <1>1
<1>8. merged \in Interval /\ merged.start = first /\ End(merged) = after
  BY <1>7 DEF Interval, End
<1>9. freed = (ivs \ (left \cup right)) \cup {merged}
  BY DEF FreeInterval
<1>10. freed \subseteq Interval
  BY <1>8, <1>9
<1>11. ASSUME NEW x \in ivs, x \notin left, x \notin right
       PROVE  End(x) < first \/ after < x.start
  <2>1. End(x) # offset /\ x.start # offset + ranks
    BY <1>11 DEF LeftOf, RightOf
  <2>2. CASE End(x) < offset
    <3>1. CASE left = {}
      BY <3>1, <2>2, <1>5
    <3>2. CASE left # {}
      <4>1. PICK iv \in ivs : left = {iv} /\ End(iv) = offset /\ first = iv.start
        BY <3>2, <1>5
      <4>2. End(x) < iv.start \/ End(iv) < x.start
        BY <4>1, <1>11 DEF Separated
      <4> QED
        BY <4>1, <4>2, <2>2, <1>1
    <3> QED
      BY <3>1, <3>2
  <2>3. CASE offset + ranks < x.start
    <3>1. CASE right = {}
      BY <3>1, <2>3, <1>6
    <3>2. CASE right # {}
      <4>1. PICK iv \in ivs : right = {iv} /\ iv.start = offset + ranks /\ after = End(iv)
        BY <3>2, <1>6
      <4>2. End(x) < iv.start \/ End(iv) < x.start
        BY <4>1, <1>11 DEF Separated
      <4> QED
        BY <4>1, <4>2, <2>3, <1>1
    <3> QED
      BY <3>1, <3>2
  <2> QED
    BY <2>1, <2>2, <2>3, <1>1, <1>2
<1>12. Separated(freed)
  <2> SUFFICES ASSUME NEW x \in freed, NEW y \in freed, x # y
               PROVE  End(x) < y.start \/ End(y) < x.start
    BY DEF Separated
  <2>1. CASE x = merged
    BY <2>1, <1>8, <1>9, <1>11
  <2>2. CASE y = merged
    BY <2>2, <1>8, <1>9, <1>11
  <2>3. CASE x # merged /\ y # merged
    BY <2>3, <1>9 DEF Separated
  <2> QED
    BY <2>1, <2>2, <2>3
<1>13. \A r : r \in RanksOf(ivs) <=>
                \E x \in ivs : r \in Int /\ x.start <= r /\ r < End(x)
  BY <1>1 DEF RanksOf, Span, End
<1>14. \A r : r \in RanksOf(freed) <=>
                \E x \in freed : r \in Int /\ x.start <= r /\ r < End(x)
  BY <1>10 DEF RanksOf, Span, End, Interval
<1>15. \A r : r \in Span(offset, ranks) <=> r \in Int /\ offset <= r /\ r < offset + ranks
  BY DEF Span
<1>16. ASSUME NEW r
       PROVE  r \in RanksOf(freed) <=> r \in RanksOf(ivs) \cup Span(offset, ranks)
  <2>1. ASSUME NEW x \in left \cup right, r \in Int, x.start <= r, r < End(x)
        PROVE  first <= r /\ r < after
    BY <2>1, <1>1, <1>5, <1>6, <1>7
  <2>2. ASSUME r \in Int, first <= r, r < after
        PROVE  r \in RanksOf(ivs) \cup Span(offset, ranks)
    <3>1. CASE r < offset
      <4>1. PICK iv \in ivs : End(iv) = offset /\ first = iv.start
        BY <3>1, <2>2, <1>5
      <4> QED
        BY <4>1, <3>1, <2>2, <1>13
    <3>2. CASE offset + ranks <= r
      <4>1. PICK iv \in ivs : iv.start = offset + ranks /\ after = End(iv)
        BY <3>2, <2>2, <1>6
      <4> QED
        BY <4>1, <3>2, <2>2, <1>13
    <3>3. CASE offset <= r /\ r < offset + ranks
      BY <3>3, <2>2, <1>15
    <3> QED
      BY <3>1, <3>2, <3>3, <2>2
  <2>3. ASSUME r \in RanksOf(freed)
        PROVE  r \in RanksOf(ivs) \cup Span(offset, ranks)
    <3>1. PICK x \in freed : r \in Int /\ x.start <= r /\ r < End(x)
      BY <2>3, <1>14
    <3>2. CASE x = merged
      BY <3>1, <3>2, <1>8, <2>2
    <3>3. CASE x \in ivs
      BY <3>1, <3>3, <1>13
    <3> QED
      BY <3>2, <3>3, <1>9
  <2>4. ASSUME r \in Int, first <= r, r < after
        PROVE  r \in RanksOf(freed)
    <3>1. merged \in freed
      BY <1>9
    <3>2. merged.start <= r /\ r < End(merged)
      BY <2>4, <1>8
    <3> HIDE DEF merged, freed
    <3> QED
      BY <2>4, <3>1, <3>2, <1>14
  <2>5. ASSUME r \in RanksOf(ivs)
        PROVE  r \in RanksOf(freed)
    <3>1. PICK x \in ivs : r \in Int /\ x.start <= r /\ r < End(x)
      BY <2>5, <1>13
    <3>2. CASE x \in left \cup right
      BY <3>1, <3>2, <2>1, <2>4
    <3>3. CASE x \notin left \cup right
      BY <3>1, <3>3, <1>9, <1>14
    <3> QED
      BY <3>2, <3>3
  <2>6. ASSUME r \in Span(offset, ranks)
        PROVE  r \in RanksOf(freed)
    BY <2>6, <1>15, <1>7, <2>4
  <2> QED
    BY <2>3, <2>5, <2>6
<1> QED
  BY <1>10, <1>12, <1>16

\* A free list in normal form that holds all of n ranks is a single interval:
\* a task that may have all of them finds them in one piece.
THEOREM WholePoolIsOneInterval ==
  ASSUME NEW ivs \in SUBSET Interval, Separated(ivs),
         NEW n \in Nat \ {0}, RanksOf(ivs) = 0 .. (n - 1)
  PROVE  [start |-> 0, length |-> n] \in ivs
<1>1. \A iv \in ivs : iv.start \in Nat /\ iv.length \in Nat \ {0} /\ End(iv) \in Nat
                      /\ iv.start < End(iv)
  BY DEF Interval, End
<1>2. \A r : r \in RanksOf(ivs) <=>
               \E x \in ivs : r \in Int /\ x.start <= r /\ r < End(x)
  BY <1>1 DEF RanksOf, Span, End
<1>3. PICK iv \in ivs : iv.start <= 0 /\ 0 < End(iv)
  BY <1>2
<1>4. iv.start = 0
  BY <1>1, <1>3
<1>5. ~(End(iv) < n)
  <2> SUFFICES ASSUME End(iv) < n PROVE FALSE
    OBVIOUS
  <2>1. End(iv) \in RanksOf(ivs)
    BY <1>1
  <2>2. PICK x \in ivs : x.start <= End(iv) /\ End(iv) < End(x)
    BY <2>1, <1>2
  <2>3. x # iv
    BY <2>2, <1>1
  <2>4. End(x) < iv.start \/ End(iv) < x.start
    BY <2>3 DEF Separated
  <2> QED
    BY <2>2, <2>4, <1>1, <1>4
<1>6. ~(n < End(iv))
  <2> SUFFICES ASSUME n < End(iv) PROVE FALSE
    OBVIOUS
  <2>1. n \in RanksOf(ivs)
    <3>1. n \in Int /\ iv.start <= n /\ n < End(iv)
      BY <1>4
    <3> QED
      BY <3>1, <1>2, Zenon
  <2> QED
    BY <2>1
<1>7. End(iv) = n
  BY <1>1, <1>5, <1>6
<1>8. iv = [start |-> 0, length |-> n]
  BY <1>1, <1>4, <1>7 DEF Interval, End
<1> QED
  BY <1>8
=============================================================================
