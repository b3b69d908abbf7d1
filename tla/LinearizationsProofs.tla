------------------------ MODULE LinearizationsProofs ------------------------
(***************************************************************************)
(* Linearizations can be used as long as they are cached, for any number   *)
(* of problems, views, extensions and points, and any capacity.            *)
(***************************************************************************)
EXTENDS LinearizationsProps, SequenceTheorems, TLAPS

-----------------------------------------------------------------------------
(* The inductive invariant                                                 *)

Distinct(s) == \A i, k \in DOMAIN s : s[i] = s[k] => i = k
In(s, x) == \E i \in DOMAIN s : s[i] = x

\* What was returned last was used last.
LatestIsLast == latest # None /\ Cached(latest.key) => cache[Len(cache)] = latest.key

IInv ==
  /\ TypeOK /\ Distinct(cache) /\ CachedIsUsable /\ KnownIsCached
  /\ ReturnedOnSpace /\ LatestIsLast

-----------------------------------------------------------------------------
(* Types                                                                   *)

LEMMA UserTypes ==
  ASSUME NEW u \in Users
  PROVE  /\ View(u) \in Views /\ Problem(u) \in Problems /\ Table(u) \in Tables
         /\ Owner(Table(u)) = Problem(u)
         /\ \A p \in Points : KeyOf(u, p) \in Keys
<1>1. View(u) \in Views
  BY LinearizationsAssumption DEF View, Users
<1>2. Problem(u) \in Problems
  BY <1>1, LinearizationsAssumption DEF Problem
<1>3. Table(u) \in Tables
  BY LinearizationsAssumption DEF Table, Tables, Users
<1>4. Owner(Table(u)) = Problem(u)
  <2>1. CASE u \in Extensions
    BY <2>1 DEF Owner, Table
  <2>2. CASE u \notin Extensions
    BY <1>2, <2>2, LinearizationsAssumption DEF Owner, Table, Problem, View
  <2> QED
    BY <2>1, <2>2
<1> QED
  BY <1>1, <1>2, <1>3, <1>4 DEF KeyOf, Keys

LEMMA EffectiveType ==
  ASSUME TypeOK, NEW v \in Views, NEW p \in Points
  PROVE  Effective(v, p) \in Points
BY DEF TypeOK, Effective

LEMMA SupportType ==
  ASSUME TypeOK, NEW v \in Views, NEW p \in Points, Adopt(v, p)
  PROVE  support' \in [Views -> Points \cup {None}]
BY EffectiveType DEF TypeOK, Adopt

LEMMA ResultType ==
  ASSUME TypeOK, NEW u \in Users, NEW p \in Points, NEW gradient \in BOOLEAN
  PROVE  /\ Result(u, p, gradient) \in Linearization
         /\ Result(u, p, gradient) # None
         /\ Result(u, p, gradient).space \in Points
<1> DEFINE measured == Measured(u, p, gradient)
           adopted == IF Found(u, p, gradient) THEN Known(u, p).measured ELSE measured
<1>1. measured \in Points
  BY DEF Measured, Points
<1>2. Found(u, p, gradient) => Known(u, p) \in Linearization
  BY UserTypes DEF Found, Known, TypeOK
<1>3. adopted \in Points
  BY <1>1, <1>2 DEF Linearization
<1>4. Effective(View(u), adopted) \in Points
  BY <1>3, UserTypes, EffectiveType
<1>5. (gradient \/ u \in Extensions) \in BOOLEAN
  OBVIOUS
<1>6. Result(u, p, gradient) =
        [gradient |-> gradient \/ u \in Extensions, measured |-> measured,
         space |-> Effective(View(u), adopted)]
  BY DEF Result
<1> HIDE DEF measured, adopted
<1>7. Result(u, p, gradient) \in Linearization
  BY <1>1, <1>4, <1>5, <1>6 DEF Linearization
<1> QED
  BY <1>4, <1>6, <1>7, LinearizationsAssumption

-----------------------------------------------------------------------------
(* The cache                                                               *)

\* RemoveAt leaves the elements on either side of the place, in order.
LEMMA RemoveAtProperties ==
  ASSUME NEW S, NEW s \in Seq(S), NEW p \in 1 .. Len(s)
  PROVE  /\ RemoveAt(s, p) \in Seq(S) /\ Len(RemoveAt(s, p)) = Len(s) - 1
         /\ \A i \in 1 .. (Len(s) - 1) :
              RemoveAt(s, p)[i] = s[IF i < p THEN i ELSE i + 1]
<1> DEFINE front == SubSeq(s, 1, p - 1)
           back  == SubSeq(s, p + 1, Len(s))
<1>1. /\ front \in Seq(S) /\ Len(front) = p - 1
      /\ \A i \in 1 .. (p - 1) : front[i] = s[i]
  OBVIOUS
<1>2. /\ back \in Seq(S) /\ Len(back) = Len(s) - p
      /\ \A i \in 1 .. (Len(s) - p) : back[i] = s[p + i]
  OBVIOUS
<1>3. RemoveAt(s, p) = front \o back
  BY DEF RemoveAt
<1> HIDE DEF front, back
<1>4. /\ front \o back \in Seq(S)
      /\ Len(front \o back) = Len(front) + Len(back)
      /\ \A i \in 1 .. Len(front) + Len(back) :
           (front \o back)[i] = IF i <= Len(front) THEN front[i] ELSE back[i - Len(front)]
  BY <1>1, <1>2, ConcatProperties
<1>5. ASSUME NEW i \in 1 .. (Len(s) - 1)
      PROVE  (front \o back)[i] = s[IF i < p THEN i ELSE i + 1]
  <2>1. i \in Nat /\ p \in Nat /\ Len(s) \in Nat
    BY <1>5
  <2>2. CASE i < p
    <3>1. i \in 1 .. (p - 1) /\ i <= Len(front) /\ i \in 1 .. Len(front) + Len(back)
      BY <1>1, <1>2, <2>1, <2>2
    <3> QED
      BY <1>1, <1>4, <2>2, <3>1
  <2>3. CASE ~(i < p)
    <3>1. ~(i <= Len(front)) /\ i - Len(front) \in 1 .. (Len(s) - p)
      BY <1>1, <2>1, <2>3
    <3>2. i \in 1 .. Len(front) + Len(back) /\ p + (i - Len(front)) = i + 1
      BY <1>1, <1>2, <2>1
    <3>3. back[i - Len(front)] = s[p + (i - Len(front))]
      BY <1>2, <3>1
    <3> QED
      BY <1>4, <2>3, <3>1, <3>2, <3>3
  <2> QED
    BY <2>2, <2>3
<1>6. Len(front \o back) = Len(s) - 1
  BY <1>1, <1>2, <1>4
<1> QED
  BY <1>3, <1>4, <1>5, <1>6

\* Taking a key out leaves the other entries, in order.
LEMMA WithoutKeeps ==
  ASSUME cache \in Seq(Keys), Distinct(cache), NEW key \in Keys
  PROVE  /\ Without(key) \in Seq(Keys) /\ Distinct(Without(key))
         /\ Len(Without(key)) = IF Cached(key) THEN Len(cache) - 1 ELSE Len(cache)
         /\ \A x : In(Without(key), x) <=> Cached(x) /\ x # key
         /\ Len(cache) > 0 /\ cache[Len(cache)] # key =>
              /\ Len(Without(key)) > 0
              /\ Without(key)[Len(Without(key))] = cache[Len(cache)]
<1>1. CASE ~Cached(key)
  <2>1. Without(key) = cache
    BY <1>1 DEF Without
  <2> QED
    BY <1>1, <2>1 DEF Cached, In
<1>2. CASE Cached(key)
  <2>1. PICK p \in DOMAIN cache : cache[p] = key /\ Without(key) = RemoveAt(cache, p)
    BY <1>2 DEF Cached, Without
  <2> DEFINE rest == RemoveAt(cache, p)
             old(i) == IF i < p THEN i ELSE i + 1
             new(k) == IF k < p THEN k ELSE k - 1
  <2>2. p \in 1 .. Len(cache) /\ Len(cache) \in Nat
    BY <2>1
  <2>3. /\ rest \in Seq(Keys) /\ Len(rest) = Len(cache) - 1 /\ DOMAIN rest = 1 .. (Len(cache) - 1)
        /\ \A i \in 1 .. (Len(cache) - 1) : rest[i] = cache[old(i)]
    <3>1. /\ rest \in Seq(Keys) /\ Len(rest) = Len(cache) - 1
          /\ \A i \in 1 .. (Len(cache) - 1) : rest[i] = cache[old(i)]
      BY <2>2, RemoveAtProperties
    <3> HIDE DEF rest, old
    <3> QED
      BY <3>1
  <2>4. \A i \in DOMAIN rest : /\ old(i) \in DOMAIN cache /\ old(i) # p
                               /\ rest[i] = cache[old(i)]
    BY <2>2, <2>3
  <2>5. \A k \in DOMAIN cache \ {p} : new(k) \in DOMAIN rest /\ old(new(k)) = k
    BY <2>2, <2>3
  <2>6. \A i, k \in DOMAIN rest : old(i) = old(k) => i = k
    BY <2>2, <2>3
  <2>7. Len(cache) # p => new(Len(cache)) = Len(rest) /\ Len(rest) > 0 /\ Len(cache) \in DOMAIN cache
    BY <2>2, <2>3
  <2> HIDE DEF rest, old, new
  <2>8. Distinct(rest)
    BY <2>4, <2>6 DEF Distinct
  <2>9. \A i \in DOMAIN rest : Cached(rest[i]) /\ rest[i] # key
    BY <2>1, <2>4 DEF Cached, Distinct
  <2>10. \A k \in DOMAIN cache : cache[k] # key => rest[new(k)] = cache[k] /\ new(k) \in DOMAIN rest
    BY <2>1, <2>4, <2>5
  <2>11. \A x : In(rest, x) <=> Cached(x) /\ x # key
    BY <2>9, <2>10 DEF In, Cached
  <2>12. Len(cache) > 0 /\ cache[Len(cache)] # key =>
           Len(rest) > 0 /\ rest[Len(rest)] = cache[Len(cache)]
    BY <2>1, <2>7, <2>10
  <2>13. Without(key) = rest
    BY <2>1 DEF rest
  <2> QED
    BY <1>2, <2>3, <2>8, <2>11, <2>12, <2>13
<1> QED
  BY <1>1, <1>2

\* A used entry is the last, and what was the last comes before it.
LEMMA WithKeeps ==
  ASSUME cache \in Seq(Keys), Distinct(cache), NEW key \in Keys
  PROVE  /\ With(key) \in Seq(Keys) /\ Distinct(With(key)) /\ Len(With(key)) > 0
         /\ With(key)[Len(With(key))] = key
         /\ Len(With(key)) = IF Cached(key) THEN Len(cache) ELSE Len(cache) + 1
         /\ \A x : In(With(key), x) <=> Cached(x) \/ x = key
         /\ Len(cache) > 0 /\ cache[Len(cache)] # key =>
              /\ Len(With(key)) > 1
              /\ With(key)[Len(With(key)) - 1] = cache[Len(cache)]
<1> DEFINE rest == Without(key)
           all == With(key)
<1>1. /\ rest \in Seq(Keys) /\ Distinct(rest)
      /\ Len(rest) = IF Cached(key) THEN Len(cache) - 1 ELSE Len(cache)
      /\ \A x : In(rest, x) <=> Cached(x) /\ x # key
      /\ Len(cache) > 0 /\ cache[Len(cache)] # key =>
           Len(rest) > 0 /\ rest[Len(rest)] = cache[Len(cache)]
  BY WithoutKeeps
<1>2. all = Append(rest, key)
  BY DEF With
<1> HIDE DEF rest, all
<1>3. /\ all \in Seq(Keys) /\ Len(all) = Len(rest) + 1 /\ Len(rest) \in Nat
      /\ DOMAIN all = 1 .. (Len(rest) + 1) /\ DOMAIN rest = 1 .. Len(rest)
      /\ all[Len(rest) + 1] = key
      /\ \A i \in 1 .. Len(rest) : all[i] = rest[i]
  BY <1>1, <1>2
<1>4. \A i \in DOMAIN all : i = Len(rest) + 1 \/ i \in DOMAIN rest
  BY <1>3
<1>5. \A i \in DOMAIN rest : i \in DOMAIN all /\ all[i] = rest[i] /\ rest[i] # key
  BY <1>1, <1>3 DEF In
<1>6. Distinct(all)
  BY <1>1, <1>3, <1>4, <1>5 DEF Distinct
<1>7. \A x : In(all, x) <=> Cached(x) \/ x = key
  <2>1. \A x : In(all, x) <=> In(rest, x) \/ x = key
    BY <1>3, <1>4, <1>5 DEF In
  <2> QED
    BY <1>1, <2>1
<1>8. Len(all) = IF Cached(key) THEN Len(cache) ELSE Len(cache) + 1
  BY <1>1, <1>3
<1>9. Len(cache) > 0 /\ cache[Len(cache)] # key =>
        Len(all) > 1 /\ all[Len(all) - 1] = cache[Len(cache)]
  BY <1>1, <1>3
<1>10. all = With(key)
  BY DEF all
<1> QED
  BY <1>3, <1>6, <1>7, <1>8, <1>9, <1>10

\* A hit only moves an entry.
LEMMA TouchedKeeps ==
  ASSUME cache \in Seq(Keys), Distinct(cache), NEW key \in Keys, Len(cache) <= Capacity
  PROVE  /\ Touched(key) \in Seq(Keys) /\ Distinct(Touched(key))
         /\ Len(Touched(key)) <= Capacity
         /\ \A x : In(Touched(key), x) <=> Cached(x)
         /\ Cached(key) => Touched(key)[Len(Touched(key))] = key
<1>1. CASE Cached(key)
  BY <1>1, WithKeeps DEF Touched
<1>2. CASE ~Cached(key)
  BY <1>2 DEF Touched, In, Cached
<1> QED
  BY <1>1, <1>2

\* A new entry evicts the one that was used longest ago, never itself and, in a cache
\* of two or more, never what was used last.
LEMMA KeptKeeps ==
  ASSUME cache \in Seq(Keys), Distinct(cache), NEW key \in Keys, Len(cache) <= Capacity
  PROVE  /\ Kept(key) \in Seq(Keys) /\ Distinct(Kept(key)) /\ Len(Kept(key)) <= Capacity
         /\ Len(Kept(key)) > 0 /\ Kept(key)[Len(Kept(key))] = key
         /\ key \notin Evicted(key)
         /\ \A x : In(Kept(key), x) <=> (Cached(x) \/ x = key) /\ x \notin Evicted(key)
         /\ Capacity > 1 /\ Len(cache) > 0 => cache[Len(cache)] \notin Evicted(key)
<1> DEFINE all == With(key)
<1>1. /\ all \in Seq(Keys) /\ Distinct(all) /\ Len(all) > 0
      /\ all[Len(all)] = key
      /\ Len(all) = IF Cached(key) THEN Len(cache) ELSE Len(cache) + 1
      /\ \A x : In(all, x) <=> Cached(x) \/ x = key
      /\ Len(cache) > 0 /\ cache[Len(cache)] # key =>
           Len(all) > 1 /\ all[Len(all) - 1] = cache[Len(cache)]
  BY WithKeeps
<1>2. Capacity \in Nat /\ Capacity > 0 /\ Len(cache) \in Nat
  BY LinearizationsAssumption
<1>3. CASE ~Overfull(key)
  <2>1. Kept(key) = all /\ Evicted(key) = {}
    BY <1>3 DEF Kept, Evicted
  <2>2. Len(all) <= Capacity
    BY <1>1, <1>2, <1>3 DEF Overfull
  <2> HIDE DEF all
  <2> QED
    BY <1>1, <2>1, <2>2
<1>4. CASE Overfull(key)
  <2>1. Kept(key) = Tail(all) /\ Evicted(key) = {Head(all)} /\ Len(all) > Capacity
    BY <1>4 DEF Kept, Evicted, Overfull
  <2> HIDE DEF all
  <2>2. Len(all) = Capacity + 1 /\ DOMAIN all = 1 .. (Capacity + 1)
    BY <1>1, <1>2, <2>1
  <2>3. /\ Tail(all) \in Seq(Keys) /\ Len(Tail(all)) = Capacity /\ Head(all) = all[1]
        /\ DOMAIN Tail(all) = 1 .. Capacity
        /\ \A i \in 1 .. Capacity : Tail(all)[i] = all[i + 1]
    BY <1>1, <1>2, <2>2, HeadTailProperties
  <2>4. \A i \in 1 .. Capacity : i + 1 \in DOMAIN all /\ i + 1 # 1 /\ 1 \in DOMAIN all
    BY <1>2, <2>2
  <2>5. \A i \in DOMAIN all : i # 1 => i - 1 \in DOMAIN Tail(all) /\ Tail(all)[i - 1] = all[i]
    BY <1>2, <2>2, <2>3
  <2>6. Distinct(Tail(all))
    <3> SUFFICES ASSUME NEW i \in DOMAIN Tail(all), NEW k \in DOMAIN Tail(all),
                        Tail(all)[i] = Tail(all)[k]
                 PROVE  i = k
      BY DEF Distinct
    <3>1. all[i + 1] = all[k + 1] /\ i + 1 \in DOMAIN all /\ k + 1 \in DOMAIN all
      BY <2>3, <2>4
    <3>2. i + 1 = k + 1
      BY <1>1, <3>1 DEF Distinct
    <3> QED
      BY <2>3, <3>2
  <2>7. \A i \in DOMAIN Tail(all) : Tail(all)[i] # all[1] /\ In(all, Tail(all)[i])
    BY <1>1, <2>3, <2>4 DEF Distinct, In
  <2>8. \A x : In(all, x) /\ x # all[1] => In(Tail(all), x)
    BY <2>5 DEF In
  <2>9. \A x : In(Tail(all), x) <=> In(all, x) /\ x # all[1]
    BY <2>7, <2>8 DEF In
  <2>10. Tail(all)[Len(Tail(all))] = key /\ key # all[1]
    <3>1. Capacity \in DOMAIN Tail(all) /\ all[Capacity + 1] = key
      BY <1>1, <1>2, <2>2, <2>3
    <3> QED
      BY <2>3, <2>7, <3>1
  <2>11. Capacity > 1 /\ Len(cache) > 0 => cache[Len(cache)] # all[1]
    <3>1. SUFFICES ASSUME Capacity > 1, Len(cache) > 0, cache[Len(cache)] # key
                   PROVE  cache[Len(cache)] # all[1]
      BY <2>10
    <3>2. all[Capacity] = cache[Len(cache)] /\ Capacity \in DOMAIN all /\ Capacity # 1
      BY <1>1, <1>2, <2>2, <3>1
    <3> QED
      BY <1>1, <2>2, <2>4, <3>2 DEF Distinct
  <2> QED
    BY <1>1, <1>2, <2>1, <2>3, <2>6, <2>9, <2>10, <2>11
<1> QED
  BY <1>3, <1>4

-----------------------------------------------------------------------------
(* The initial states and the steps                                        *)

LEMMA InitIInv == Init => IInv
<1> SUFFICES ASSUME Init PROVE IInv
  OBVIOUS
<1>1. cache = <<>> /\ cache \in Seq(Keys) /\ Len(cache) = 0 /\ DOMAIN cache = {}
  BY DEF Init
<1>2. Len(cache) <= Capacity
  BY <1>1, LinearizationsAssumption
<1>3. TypeOK
  BY <1>1, <1>2 DEF Init, TypeOK, Points
<1>4. Distinct(cache) /\ CachedIsUsable
  BY <1>1 DEF Distinct, CachedIsUsable
<1>5. KnownIsCached
  BY DEF Init, KnownIsCached, Tables
<1>6. ReturnedOnSpace /\ LatestIsLast
  BY DEF Init, ReturnedOnSpace, LatestIsLast
<1> QED
  BY <1>3, <1>4, <1>5, <1>6 DEF IInv

\* A lookup moves no entry out, and the point it may stage takes no file away.
LEMMA SameEntries ==
  ASSUME IInv, \A x : In(cache', x) <=> Cached(x), files \subseteq files', known' = known
  PROVE  CachedIsUsable' /\ KnownIsCached'
<1>1. CachedIsUsable'
  <2> SUFFICES ASSUME NEW i \in DOMAIN cache'
               PROVE  /\ known[cache'[i].table][cache'[i].point] # None
                      /\ NeedsFile(Owner(cache'[i].table), cache'[i].point) => cache'[i] \in files'
    BY DEF CachedIsUsable, NeedsFile, Owner, Problem, View
  <2>1. PICK k \in DOMAIN cache : cache[k] = cache'[i]
    BY DEF In, Cached
  <2> QED
    BY <2>1 DEF IInv, CachedIsUsable
<1>2. KnownIsCached'
  <2>1. ASSUME NEW x PROVE Cached(x)' <=> Cached(x)
    BY DEF In, Cached
  <2> QED
    BY <2>1 DEF IInv, KnownIsCached
<1> QED
  BY <1>1, <1>2

\* What a lookup leaves: touched or untouched.
LEMMA SeenKeeps ==
  ASSUME IInv, NEW u \in Users, NEW p \in Points, NEW gradient \in BOOLEAN,
         cache' = Seen(u, p, gradient)
  PROVE  /\ cache' \in Seq(Keys) /\ Len(cache') <= Capacity /\ Distinct(cache')
         /\ \A x : In(cache', x) <=> Cached(x)
         /\ Found(u, p, gradient) /\ Cached(KeyOf(u, p)) => cache'[Len(cache')] = KeyOf(u, p)
<1>1. cache \in Seq(Keys) /\ Len(cache) <= Capacity /\ Distinct(cache) /\ KeyOf(u, p) \in Keys
  BY UserTypes DEF IInv, TypeOK
<1>2. CASE Found(u, p, gradient)
  BY <1>1, <1>2, TouchedKeeps DEF Seen
<1>3. CASE ~Found(u, p, gradient)
  BY <1>1, <1>3 DEF Seen, In, Cached
<1> QED
  BY <1>2, <1>3

LEMMA AdoptFoundType ==
  ASSUME TypeOK, NEW u \in Users, NEW p \in Points, NEW gradient \in BOOLEAN,
         AdoptFound(u, p, gradient)
  PROVE  support' \in [Views -> Points \cup {None}]
<1>1. CASE Found(u, p, gradient)
  <2>1. Known(u, p) \in Linearization
    BY <1>1, UserTypes DEF Found, Known, TypeOK
  <2>2. Known(u, p).measured \in Points
    BY <2>1 DEF Linearization
  <2> QED
    BY <1>1, <2>2, UserTypes, SupportType DEF AdoptFound
<1>2. CASE ~Found(u, p, gradient)
  BY <1>2 DEF AdoptFound, TypeOK
<1> QED
  BY <1>1, <1>2

LEMMA SyncTypes ==
  ASSUME TypeOK, NEW pr \in Problems, NEW p \in Points, Sync(pr, p) \/ SyncFails(pr, p)
  PROVE  /\ simulation' \in [Problems -> Points \cup {Mixed}]
         /\ installed' \in [Problems -> Points \cup {None}]
<1>1. Content(pr, p) \in Points \cup {Mixed}
  BY DEF TypeOK, Content
<1> QED
  BY <1>1 DEF TypeOK, Sync, SyncFails

LEMMA RunType ==
  ASSUME NEW pr \in Problems, NEW p \in Points, Run(pr, p),
         simulation' \in [Problems -> Points \cup {Mixed}]
  PROVE  job' \in [problem : Inline, wanted : Points, ran : Points \cup {Mixed}] \cup {None}
BY DEF Run

LEMMA StagedType ==
  ASSUME TypeOK, NEW u \in Users, NEW p \in Points
  PROVE  files \subseteq Staged(u, p) /\ Staged(u, p) \subseteq Keys
BY UserTypes DEF TypeOK, Staged

LEMMA ReuseIInv ==
  ASSUME IInv, NEW u \in Users, NEW p \in Points, NEW gradient \in BOOLEAN,
         Reuse(u, p, gradient)
  PROVE  IInv'
<1>1. /\ cache' = Seen(u, p, gradient) /\ AdoptFound(u, p, gradient)
      /\ latest' = [user |-> u, key |-> KeyOf(u, p), space |-> Known(u, p).space]
      /\ job' = None /\ files' = files /\ known' = known
      /\ simulation' = simulation /\ installed' = installed /\ baseline' = baseline
  BY DEF Reuse, registry
<1>2. /\ Found(u, p, gradient) /\ Known(u, p) \in Linearization
      /\ Effective(View(u), Known(u, p).measured) = Known(u, p).space
  BY UserTypes DEF Reuse, Reusable, Found, Known, IInv, TypeOK
<1>3. Known(u, p).space \in Points
  BY <1>2 DEF Linearization
<1>4. /\ cache' \in Seq(Keys) /\ Len(cache') <= Capacity /\ Distinct(cache')
      /\ \A x : In(cache', x) <=> Cached(x)
      /\ Cached(KeyOf(u, p)) => cache'[Len(cache')] = KeyOf(u, p)
  BY <1>1, <1>2, SeenKeeps
<1>5. TypeOK'
  <2>1. latest' \in [user : Users, key : Keys, space : Points]
    BY <1>1, <1>3, UserTypes
  <2>2. support' \in [Views -> Points \cup {None}]
    BY <1>1, AdoptFoundType DEF IInv
  <2> QED
    BY <1>1, <1>4, <2>1, <2>2 DEF IInv, TypeOK
<1>6. CachedIsUsable' /\ KnownIsCached'
  BY <1>1, <1>4, SameEntries
<1>7. ReturnedOnSpace'
  <2>1. support' = [support EXCEPT ![View(u)] = Known(u, p).space]
    BY <1>1, <1>2 DEF AdoptFound, Adopt
  <2>2. support'[View(u)] = Known(u, p).space
    BY <2>1, UserTypes DEF IInv, TypeOK
  <2> QED
    BY <1>1, <2>2 DEF ReturnedOnSpace, View
<1>8. LatestIsLast'
  BY <1>1, <1>4 DEF LatestIsLast, Cached, In
<1> QED
  BY <1>4, <1>5, <1>6, <1>7, <1>8 DEF IInv

LEMMA FailIInv ==
  ASSUME IInv, NEW u \in Users, NEW p \in Points, NEW gradient \in BOOLEAN,
         JobFails(u, p, gradient) \/ LinearizeFails(u, p, gradient)
  PROVE  IInv'
<1>1. /\ cache' = Seen(u, p, gradient) /\ AdoptFound(u, p, gradient)
      /\ latest' = None /\ known' = known /\ baseline' = baseline
      /\ Sync(Problem(u), p) \/ SyncFails(Problem(u), p)
      /\ files' = Staged(u, p) \/ files' = files
      /\ Run(Problem(u), p) \/ job' = None
  BY DEF JobFails, LinearizeFails, SyncFails
<1>2. /\ cache' \in Seq(Keys) /\ Len(cache') <= Capacity /\ Distinct(cache')
      /\ \A x : In(cache', x) <=> Cached(x)
  BY <1>1, SeenKeeps
<1>3. files \subseteq files' /\ files' \subseteq Keys
  BY <1>1, StagedType DEF IInv, TypeOK
<1>4. TypeOK'
  <2>1. support' \in [Views -> Points \cup {None}]
    BY <1>1, AdoptFoundType DEF IInv
  <2>2. /\ simulation' \in [Problems -> Points \cup {Mixed}]
        /\ installed' \in [Problems -> Points \cup {None}]
    BY <1>1, UserTypes, SyncTypes DEF IInv
  <2>3. job' \in [problem : Inline, wanted : Points, ran : Points \cup {Mixed}] \cup {None}
    BY <1>1, <2>2, UserTypes, RunType
  <2> QED
    BY <1>1, <1>2, <1>3, <2>1, <2>2, <2>3 DEF IInv, TypeOK
<1>5. CachedIsUsable' /\ KnownIsCached'
  BY <1>1, <1>2, <1>3, SameEntries
<1>6. ReturnedOnSpace' /\ LatestIsLast'
  BY <1>1 DEF ReturnedOnSpace, LatestIsLast
<1> QED
  BY <1>2, <1>4, <1>5, <1>6 DEF IInv

LEMMA ComputeIInv ==
  ASSUME IInv, NEW u \in Users, NEW p \in Points, NEW gradient \in BOOLEAN,
         Compute(u, p, gradient)
  PROVE  IInv'
<1> DEFINE result == Result(u, p, gradient)
           key == KeyOf(u, p)
           forgotten == Forget(Forgetful(u), Evicted(key))
<1>1. /\ Sync(Problem(u), p) /\ Run(Problem(u), p)
      /\ baseline' = baseline \cup {Problem(u)}
      /\ support' = [support EXCEPT ![View(u)] = result.space]
      /\ cache' = Kept(key)
      /\ files' = Staged(u, p) \ Evicted(key)
      /\ known' = [forgotten EXCEPT ![Table(u)][p] = result]
      /\ latest' = [user |-> u, key |-> key, space |-> result.space]
  BY DEF Compute, Removed
<1>2. /\ key \in Keys /\ key = [table |-> Table(u), point |-> p]
      /\ Table(u) \in Tables /\ View(u) \in Views /\ Problem(u) \in Problems
  BY UserTypes DEF KeyOf
<1>3. result \in Linearization /\ result # None /\ result.space \in Points
  BY ResultType DEF IInv
<1>4. /\ cache' \in Seq(Keys) /\ Distinct(cache') /\ Len(cache') <= Capacity
      /\ Len(cache') > 0 /\ cache'[Len(cache')] = key
      /\ key \notin Evicted(key)
      /\ \A x : In(cache', x) <=> (Cached(x) \/ x = key) /\ x \notin Evicted(key)
  BY <1>1, <1>2, KeptKeeps DEF IInv, TypeOK
<1>5. /\ forgotten \in [Tables -> [Points -> Linearization \cup {None}]]
      /\ \A t \in Tables, q \in Points :
           forgotten[t][q] = IF t \in Forgetful(u) /\ [table |-> t, point |-> q] \in Evicted(key)
                               THEN None ELSE known[t][q]
  BY DEF Forget, IInv, TypeOK
<1> HIDE DEF result, forgotten, key
<1>6. /\ known' \in [Tables -> [Points -> Linearization \cup {None}]]
      /\ \A t \in Tables, q \in Points :
           known'[t][q] = IF t = Table(u) /\ q = p THEN result ELSE forgotten[t][q]
  BY <1>1, <1>2, <1>3, <1>5
<1>7. TypeOK'
  <2>1. /\ simulation' \in [Problems -> Points \cup {Mixed}]
        /\ installed' \in [Problems -> Points \cup {None}]
    BY <1>1, <1>2, SyncTypes DEF IInv
  <2>2. job' \in [problem : Inline, wanted : Points, ran : Points \cup {Mixed}] \cup {None}
    BY <1>1, <1>2, <2>1, RunType
  <2>3. support' \in [Views -> Points \cup {None}]
    BY <1>1, <1>3 DEF IInv, TypeOK
  <2>4. files' \subseteq Keys
    BY <1>1, StagedType DEF IInv
  <2>5. latest' \in [user : Users, key : Keys, space : Points]
    BY <1>1, <1>2, <1>3
  <2>6. baseline' \subseteq Problems
    BY <1>1, <1>2 DEF IInv, TypeOK
  <2> QED
    BY <1>4, <1>6, <2>1, <2>2, <2>3, <2>4, <2>5, <2>6 DEF TypeOK
<1>8. CachedIsUsable'
  <2> SUFFICES ASSUME NEW i \in DOMAIN cache',
                      NEW t, t = cache'[i].table, NEW q, q = cache'[i].point
               PROVE  known'[t][q] # None /\ (NeedsFile(Owner(t), q) => cache'[i] \in files')
    BY DEF CachedIsUsable, NeedsFile, Owner, Problem, View
  <2>1. /\ cache'[i] \in Keys /\ In(cache', cache'[i])
    BY <1>4 DEF In
  <2>2. t \in Tables /\ q \in Points /\ cache'[i] = [table |-> t, point |-> q]
    BY <2>1 DEF Keys
  <2>3. cache'[i] \notin Evicted(key) /\ (Cached(cache'[i]) \/ cache'[i] = key)
    BY <1>4, <2>1
  <2>4. CASE cache'[i] = key
    <3>1. t = Table(u) /\ q = p
      BY <1>2, <2>2, <2>4
    <3>2. known'[t][q] # None
      BY <1>3, <1>6, <2>2, <3>1
    <3>3. NeedsFile(Owner(t), q) => cache'[i] \in Staged(u, p)
      BY <2>4, <3>1, UserTypes DEF Staged, key
    <3> QED
      BY <1>1, <2>3, <3>2, <3>3
  <2>5. CASE cache'[i] # key
    <3>1. PICK k \in DOMAIN cache : cache[k] = cache'[i]
      BY <2>3, <2>5 DEF Cached
    <3>2. known[t][q] # None /\ (NeedsFile(Owner(t), q) => cache'[i] \in files)
      BY <3>1 DEF IInv, CachedIsUsable
    <3>3. ~(t = Table(u) /\ q = p)
      BY <1>2, <2>2, <2>5
    <3>4. known'[t][q] = known[t][q]
      BY <1>5, <1>6, <2>2, <2>3, <3>3
    <3>5. files \subseteq Staged(u, p)
      BY StagedType DEF IInv
    <3> QED
      BY <1>1, <2>3, <3>2, <3>4, <3>5
  <2> QED
    BY <2>4, <2>5
<1>9. KnownIsCached'
  <2> SUFFICES ASSUME NEW pr \in Problems, NEW q \in Points, known'[pr][q] # None
               PROVE  In(cache', [table |-> pr, point |-> q])
    BY DEF KnownIsCached, Cached, In
  <2>1. pr \in Tables /\ pr \in Forgetful(u)
    BY DEF Tables, Forgetful
  <2>2. CASE pr = Table(u) /\ q = p
    BY <1>2, <1>4, <2>2
  <2>3. CASE ~(pr = Table(u) /\ q = p)
    <3>1. known[pr][q] # None /\ [table |-> pr, point |-> q] \notin Evicted(key)
      BY <1>5, <1>6, <2>1, <2>3
    <3>2. Cached([table |-> pr, point |-> q])
      BY <3>1 DEF IInv, KnownIsCached
    <3> QED
      BY <1>4, <3>1, <3>2
  <2> QED
    BY <2>2, <2>3
<1>10. ReturnedOnSpace'
  <2>1. support'[View(u)] = result.space
    BY <1>1, <1>2 DEF IInv, TypeOK
  <2> QED
    BY <1>1, <2>1 DEF ReturnedOnSpace, View
<1>11. LatestIsLast'
  BY <1>1, <1>4 DEF LatestIsLast
<1> QED
  BY <1>4, <1>7, <1>8, <1>9, <1>10, <1>11 DEF IInv

LEMMA ActIInv ==
  ASSUME IInv, NEW u \in Users, NEW p \in Points, Act(u, p) \/ ActFails(u, p)
  PROVE  IInv'
<1>1. /\ cache' = cache /\ known' = known /\ files' = files /\ baseline' = baseline
      /\ support' = support /\ latest' = latest
      /\ Sync(Problem(u), p) \/ SyncFails(Problem(u), p)
      /\ Run(Problem(u), p) \/ job' = None
  BY DEF Act, ActFails, SyncFails, Resync
<1>2. /\ simulation' \in [Problems -> Points \cup {Mixed}]
      /\ installed' \in [Problems -> Points \cup {None}]
  BY <1>1, UserTypes, SyncTypes DEF IInv
<1>3. job' \in [problem : Inline, wanted : Points, ran : Points \cup {Mixed}] \cup {None}
  BY <1>1, <1>2, UserTypes, RunType
<1>4. TypeOK'
  BY <1>1, <1>2, <1>3 DEF IInv, TypeOK
<1>5. CachedIsUsable' /\ KnownIsCached'
  BY <1>1, SameEntries DEF In, Cached
<1>6. Distinct(cache') /\ ReturnedOnSpace' /\ LatestIsLast'
  BY <1>1 DEF IInv, ReturnedOnSpace, LatestIsLast, Cached, View
<1> QED
  BY <1>4, <1>5, <1>6 DEF IInv

LEMMA DryRunIInv ==
  ASSUME IInv, NEW u \in Users, DryRun(u)
  PROVE  IInv'
<1>1. PICK p \in Points : files' = Staged(u, p)
  BY DEF DryRun
<1>2. /\ cache' = cache /\ known' = known /\ baseline' = baseline /\ support' = support
      /\ latest' = latest /\ job' = None /\ simulation' = simulation /\ installed' = installed
  BY DEF DryRun, registry
<1>3. files \subseteq files' /\ files' \subseteq Keys
  BY <1>1, StagedType DEF IInv
<1>4. TypeOK'
  BY <1>2, <1>3 DEF IInv, TypeOK
<1>5. CachedIsUsable' /\ KnownIsCached'
  BY <1>2, <1>3, SameEntries DEF In, Cached
<1>6. Distinct(cache') /\ ReturnedOnSpace' /\ LatestIsLast'
  BY <1>2 DEF IInv, ReturnedOnSpace, LatestIsLast, Cached, View
<1> QED
  BY <1>4, <1>5, <1>6 DEF IInv

LEMMA RestrictIInv ==
  ASSUME IInv, NEW v \in Views, NEW w \in Remade, RestrictView(v, w)
  PROVE  IInv'
<1>1. PICK masks \in {support[v], None} : support' = [support EXCEPT ![w] = masks]
  BY DEF RestrictView
<1>2. /\ cache' = cache /\ known' = known /\ files' = files /\ baseline' = baseline
      /\ job' = None /\ simulation' = simulation /\ installed' = installed
      /\ latest' = IF latest # None /\ View(latest.user) = w THEN None ELSE latest
  BY DEF RestrictView, registry
<1>3. w \in Views
  BY LinearizationsAssumption
<1>4. TypeOK'
  BY <1>1, <1>2, <1>3 DEF IInv, TypeOK
<1>5. CachedIsUsable' /\ KnownIsCached'
  BY <1>2, SameEntries DEF In, Cached
<1>6. ReturnedOnSpace'
  <2> SUFFICES ASSUME latest' # None PROVE latest'.space = support'[View(latest'.user)]
    BY DEF ReturnedOnSpace, View
  <2>1. latest' = latest /\ latest # None /\ View(latest.user) # w
    BY <1>2
  <2>2. View(latest.user) \in Views
    BY <2>1, UserTypes DEF IInv, TypeOK
  <2> QED
    BY <1>1, <2>1, <2>2 DEF IInv, TypeOK, ReturnedOnSpace
<1>7. Distinct(cache') /\ LatestIsLast'
  BY <1>2 DEF IInv, LatestIsLast, Cached
<1> QED
  BY <1>4, <1>5, <1>6, <1>7 DEF IInv

LEMMA ClearIInv ==
  ASSUME IInv, NEW u \in Users, ClearCache(u)
  PROVE  IInv'
<1> DEFINE keys == {cache[i] : i \in DOMAIN cache}
           forgotten == Forget(Problems, keys)
<1>1. /\ cache' = <<>> /\ files' = files \ keys /\ job' = None /\ baseline' = baseline
      /\ support' = support /\ latest' = latest
      /\ simulation' = simulation /\ installed' = installed
      /\ known' = [t \in Tables |-> IF t \in {Problem(u), Table(u)}
                                      THEN [p \in Points |-> None] ELSE forgotten[t]]
  BY DEF ClearCache, registry
<1>2. /\ forgotten \in [Tables -> [Points -> Linearization \cup {None}]]
      /\ \A t \in Tables, q \in Points :
           forgotten[t][q] = IF t \in Problems /\ [table |-> t, point |-> q] \in keys
                               THEN None ELSE known[t][q]
  BY DEF Forget, IInv, TypeOK
<1>3. cache' \in Seq(Keys) /\ Len(cache') = 0 /\ DOMAIN cache' = {}
  BY <1>1
<1>4. \A pr \in Problems, q \in Points : forgotten[pr][q] = None
  <2> SUFFICES ASSUME NEW pr \in Problems, NEW q \in Points, known[pr][q] # None
               PROVE  [table |-> pr, point |-> q] \in keys
    BY <1>2 DEF Tables
  <2> QED
    BY DEF IInv, KnownIsCached, Cached
<1> HIDE DEF keys, forgotten
<1>5. known' \in [Tables -> [Points -> Linearization \cup {None}]]
  BY <1>1, <1>2
<1>6. TypeOK'
  <2>1. Len(cache') <= Capacity
    BY <1>3, LinearizationsAssumption
  <2> QED
    BY <1>1, <1>3, <1>5, <2>1 DEF IInv, TypeOK
<1>7. CachedIsUsable' /\ Distinct(cache') /\ LatestIsLast'
  BY <1>3 DEF CachedIsUsable, Distinct, LatestIsLast, Cached
<1>8. KnownIsCached'
  <2>1. \A pr \in Problems, q \in Points : known'[pr][q] = None
    BY <1>1, <1>4 DEF Tables
  <2> QED
    BY <2>1 DEF KnownIsCached
<1>9. ReturnedOnSpace'
  BY <1>1 DEF IInv, ReturnedOnSpace, View
<1> QED
  BY <1>6, <1>7, <1>8, <1>9 DEF IInv

LEMMA StutterIInv == IInv /\ UNCHANGED vars => IInv'
<1> SUFFICES ASSUME IInv, UNCHANGED vars PROVE IInv'
  OBVIOUS
<1>1. /\ cache' = cache /\ known' = known /\ files' = files /\ baseline' = baseline
      /\ support' = support /\ latest' = latest /\ job' = job
      /\ simulation' = simulation /\ installed' = installed
  BY DEF vars, registry
<1>2. TypeOK'
  BY <1>1 DEF IInv, TypeOK
<1>3. CachedIsUsable' /\ KnownIsCached'
  BY <1>1, SameEntries DEF In, Cached
<1>4. Distinct(cache') /\ ReturnedOnSpace' /\ LatestIsLast'
  BY <1>1 DEF IInv, ReturnedOnSpace, LatestIsLast, Cached, View
<1> QED
  BY <1>2, <1>3, <1>4 DEF IInv

LEMMA NextIInv == IInv /\ [Next]_vars => IInv'
<1> SUFFICES ASSUME IInv, [Next]_vars PROVE IInv'
  OBVIOUS
<1>1. ASSUME NEW u \in Users, Linearize(u) PROVE IInv'
  BY <1>1, ReuseIInv, ComputeIInv, FailIInv DEF Linearize
<1>2. ASSUME NEW u \in Users, DryRun(u) PROVE IInv'
  BY <1>2, DryRunIInv
<1>3. ASSUME NEW u \in Users, ClearCache(u) PROVE IInv'
  BY <1>3, ClearIInv
<1>4. ASSUME NEW u \in Users, NEW p \in Points, Act(u, p) \/ ActFails(u, p) PROVE IInv'
  BY <1>4, ActIInv
<1>5. ASSUME NEW v \in Views, NEW w \in Remade, RestrictView(v, w) PROVE IInv'
  BY <1>5, RestrictIInv
<1>6. CASE UNCHANGED vars
  BY <1>6, StutterIInv
<1> QED
  BY <1>1, <1>2, <1>3, <1>4, <1>5, <1>6 DEF Next

LEMMA Invariance == Spec => []IInv
<1> QED
  BY InitIInv, NextIInv, PTL DEF Spec

-----------------------------------------------------------------------------
(* Theorems                                                                *)

\* The variables of a problem, its cache and the files it owns keep their types
\* (imaging/problem.py, _Shared).
THEOREM LinearizationTypes == Spec => []TypeOK
<1>1. IInv => TypeOK
  BY DEF IInv
<1> QED
  BY <1>1, Invariance, PTL

\* As long as a linearization is cached, its table has it and its state file is there:
\* eviction, replacement and clearing only take away what they remove from the cache
\* (LinearizationCache.put and clear).
THEOREM CachedStaysUsable == Spec => []CachedIsUsable
<1>1. IInv => CachedIsUsable
  BY DEF IInv
<1> QED
  BY <1>1, Invariance, PTL

\* No problem of a family knows a linearization that any of them has had evicted
\* (_Shared.forget).
THEOREM EvictedIsForgotten == Spec => []KnownIsCached
<1>1. IInv => KnownIsCached
  BY DEF IInv
<1> QED
  BY <1>1, Invariance, PTL

\* linearize() returns a linearization on the space of the view that asks for it
\* (ImagingProblem._linearize_state).
THEOREM LinearizeReturnsOnSpace == Spec => []ReturnedOnSpace
<1>1. IInv => ReturnedOnSpace
  BY DEF IInv
<1> QED
  BY <1>1, Invariance, PTL

\* Jobs run at the point they are asked for, unless an installation was interrupted
\* (ImagingProblem._sync_simulation).
THEOREM JobsRunAtPoint == Spec => RunsAtPoint
<1> DEFINE Step == job' # None =>
             \/ job'.ran = job'.wanted
             \/ /\ installed[job'.problem] = job'.wanted
                /\ simulation[job'.problem] # installed[job'.problem]
<1>1. ASSUME TypeOK, NEW pr \in Problems, NEW p \in Points, Sync(pr, p), Run(pr, p)
      PROVE  Step
  <2> SUFFICES ASSUME job' # None PROVE Step
    OBVIOUS
  <2>1. pr \in Inline /\ job' = [problem |-> pr, wanted |-> p, ran |-> simulation'[pr]]
    BY <1>1 DEF Run
  <2>2. simulation'[pr] = Content(pr, p)
    BY <1>1 DEF Sync, TypeOK
  <2> QED
    BY <2>1, <2>2 DEF Content, InSync
<1>2. TypeOK /\ [Next]_vars => [Step]_vars
  <2> SUFFICES ASSUME TypeOK, Next PROVE Step
    OBVIOUS
  <2>1. ASSUME NEW u \in Users, Linearize(u) PROVE Step
    <3>1. PICK p \in Points, gradient \in BOOLEAN :
            \/ Reuse(u, p, gradient) \/ Compute(u, p, gradient)
            \/ JobFails(u, p, gradient) \/ LinearizeFails(u, p, gradient)
      BY <2>1 DEF Linearize
    <3>2. CASE Compute(u, p, gradient) \/ JobFails(u, p, gradient)
      BY <1>1, <3>2, UserTypes DEF Compute, JobFails
    <3>3. CASE Reuse(u, p, gradient) \/ LinearizeFails(u, p, gradient)
      BY <3>3 DEF Reuse, LinearizeFails
    <3> QED
      BY <3>1, <3>2, <3>3
  <2>2. ASSUME NEW u \in Users, NEW p \in Points, Act(u, p) PROVE Step
    BY <1>1, <2>2, UserTypes DEF Act, Resync
  <2>3. ASSUME NEW u \in Users, NEW p \in Points, ActFails(u, p) PROVE Step
    BY <2>3 DEF ActFails
  <2>4. ASSUME NEW u \in Users, DryRun(u) \/ ClearCache(u) PROVE Step
    BY <2>4 DEF DryRun, ClearCache
  <2>5. ASSUME NEW v \in Views, NEW w \in Remade, RestrictView(v, w) PROVE Step
    BY <2>5 DEF RestrictView
  <2> QED
    BY <2>1, <2>2, <2>3, <2>4, <2>5 DEF Next
<1> QED
  BY <1>2, LinearizationTypes, PTL DEF Spec, RunsAtPoint

\* What linearize() returned last survives the next call of it, in a cache of two or
\* more (LinearizationCache.put).
THEOREM LatestSurvives == Spec => LatestStays
<1> DEFINE Step == Capacity > 1 /\ latest # None /\ latest' # latest /\ Cached(latest.key)
                     => \E i \in DOMAIN cache' : cache'[i] = latest.key
<1>1. IInv /\ [Next]_vars => [Step]_vars
  <2> SUFFICES ASSUME IInv, Next, Capacity > 1, latest # None, latest' # latest,
                      Cached(latest.key)
               PROVE  In(cache', latest.key)
    BY DEF In
  <2>1. ASSUME NEW u \in Users, Linearize(u) PROVE In(cache', latest.key)
    <3>1. PICK p \in Points, gradient \in BOOLEAN :
            \/ Reuse(u, p, gradient) \/ Compute(u, p, gradient)
            \/ JobFails(u, p, gradient) \/ LinearizeFails(u, p, gradient)
      BY <2>1 DEF Linearize
    <3>2. CASE Compute(u, p, gradient)
      <4>1. cache' = Kept(KeyOf(u, p)) /\ KeyOf(u, p) \in Keys
        BY <3>2, UserTypes DEF Compute
      <4>2. cache \in Seq(Keys) /\ Distinct(cache) /\ Len(cache) <= Capacity
        BY DEF IInv, TypeOK
      <4>3. cache[Len(cache)] = latest.key
        BY DEF IInv, LatestIsLast
      <4>4. Len(cache) > 0
        BY <4>2 DEF Cached
      <4>5. latest.key \notin Evicted(KeyOf(u, p))
        BY <4>1, <4>2, <4>3, <4>4, KeptKeeps
      <4> QED
        BY <4>1, <4>2, <4>5, KeptKeeps
    <3>3. CASE ~Compute(u, p, gradient)
      <4>1. cache' = Seen(u, p, gradient)
        BY <3>1, <3>3 DEF Reuse, JobFails, LinearizeFails
      <4> QED
        BY <4>1, SeenKeeps
    <3> QED
      BY <3>2, <3>3
  <2>2. ASSUME NEW v \in Views, NEW w \in Remade, RestrictView(v, w)
        PROVE  In(cache', latest.key)
    BY <2>2 DEF RestrictView, In, Cached
  <2>3. ASSUME NEW u \in Users, DryRun(u) \/ ClearCache(u) PROVE FALSE
    BY <2>3 DEF DryRun, ClearCache
  <2>4. ASSUME NEW u \in Users, NEW p \in Points, Act(u, p) \/ ActFails(u, p) PROVE FALSE
    BY <2>4 DEF Act, ActFails
  <2> QED
    BY <2>1, <2>2, <2>3, <2>4 DEF Next
<1> QED
  BY <1>1, Invariance, PTL DEF Spec, LatestStays

=============================================================================
