------------------------- MODULE RoutingTableProofs -------------------------
(***************************************************************************)
(* The routing table of the DHT, for identifiers of any length and buckets *)
(* of any size: its buckets stay sound, and a revoked node is in them only *)
(* if its update was waiting for a ping.                                   *)
(***************************************************************************)
EXTENDS RoutingTable, SequenceTheorems, WellFoundedInduction, TLAPS

(* Induction over the natural numbers, for a set in place of a predicate.  *)
LEMMA ReachesAll ==
  ASSUME NEW T \in SUBSET Nat, 0 \in T, \A n \in T : n + 1 \in T
  PROVE  T = Nat
<1> DEFINE R == OpToRel(<, Nat)
<1> SUFFICES ASSUME Nat \ T # {} PROVE FALSE
  BY Zenon
<1>1. PICK m \in Nat \ T : \A n \in Nat \ T : ~(<<n, m>> \in R)
  BY Zenon, WFMin, NatLessThanWellFounded
<1>2. m \in Nat /\ m \notin T /\ m # 0
  BY ONLY Zenon, <1>1, 0 \in T
<1>3. PICK n \in Nat : n + 1 = m /\ n < m
  <2>1. m - 1 \in Nat /\ (m - 1) + 1 = m /\ m - 1 < m
    BY ONLY <1>2
  <2> QED
    BY ONLY Zenon, <2>1
<1>4. <<n, m>> \in R
  BY ONLY Zenon, <1>2, <1>3 DEF OpToRel
<1>5. n \in T
  BY ONLY Zenon, <1>1, <1>3, <1>4
<1> QED
  BY ONLY Zenon, <1>2, <1>3, <1>5, \A k \in T : k + 1 \in T

(* The values that a computation takes in N steps from the first one on.   *)
Runs(g, N, first, step) == g = [i \in 0 .. N |-> IF i = 0 THEN first ELSE step[i][g[i - 1]]]

(* There is such a computation, and what every step preserves holds of all *)
(* its values.                                                             *)
LEMMA RunExists ==
  ASSUME NEW N \in Nat, NEW first, NEW step
  PROVE  \E g : Runs(g, N, first, step)
<1> DEFINE T == {n \in Nat : \E g : Runs(g, n, first, step)}
<1>1. 0 \in T
  <2> DEFINE g == [i \in 0 .. 0 |-> first]
  <2>1. Runs(g, 0, first, step)
    BY DEF Runs
  <2> QED
    BY Zenon, <2>1
<1>2. ASSUME NEW n \in T PROVE n + 1 \in T
  <2>1. PICK g : Runs(g, n, first, step)
    BY Zenon
  <2> DEFINE h == [i \in 0 .. n + 1 |-> IF i <= n THEN g[i] ELSE step[n + 1][g[n]]]
             k == [i \in 0 .. n + 1 |-> IF i = 0 THEN first ELSE step[i][h[i - 1]]]
  <2>2. n \in Nat
    BY Zenon
  <2>3. ASSUME NEW i \in 0 .. n + 1 PROVE h[i] = k[i]
    <3>1. CASE i <= n
      <4>1. i \in 0 .. n /\ h[i] = g[i] /\ g[i] = IF i = 0 THEN first ELSE step[i][g[i - 1]]
        BY <2>1, <2>2, <3>1 DEF Runs
      <4>2. i # 0 => h[i - 1] = g[i - 1]
        BY <2>2, <3>1
      <4> QED
        BY Zenon, <4>1, <4>2
    <3>2. CASE ~(i <= n)
      <4>1. i = n + 1 /\ i # 0 /\ h[i - 1] = g[n]
        BY <2>2, <3>2
      <4> QED
        BY Zenon, <3>2, <4>1
    <3> QED
      BY Zenon, <3>1, <3>2
  <2>4. h = k
    BY Zenon, <2>3
  <2>5. Runs(h, n + 1, first, step)
    BY Zenon, <2>4 DEF Runs
  <2> HIDE DEF h
  <2> QED
    BY <2>2, <2>5
<1>3. T = Nat
  BY Zenon, <1>1, <1>2, ReachesAll
<1> QED
  BY Zenon, <1>3

(* A computation starts with its first value and takes every step.         *)
LEMMA RunSteps ==
  ASSUME NEW N \in Nat, NEW first, NEW step, NEW g, Runs(g, N, first, step)
  PROVE  g[0] = first /\ \A i \in 1 .. N : g[i] = step[i][g[i - 1]]
<1>1. 0 \in 0 .. N /\ \A i \in 1 .. N : i \in 0 .. N /\ i # 0
  OBVIOUS
<1> QED
  BY Zenon, <1>1 DEF Runs

(* What the first value has and every step preserves, all values have.     *)
LEMMA RunStays ==
  ASSUME NEW N \in Nat, NEW g, NEW X, g[0] \in X[0],
         \A i \in 1 .. N : g[i - 1] \in X[i - 1] => g[i] \in X[i]
  PROVE  \A i \in 0 .. N : g[i] \in X[i]
<1> DEFINE T == {n \in Nat : n <= N => g[n] \in X[n]}
<1>1. 0 \in T
  BY Zenon
<1>2. ASSUME NEW n \in T PROVE n + 1 \in T
  <2>1. n \in Nat /\ (n + 1 <= N => n + 1 \in 1 .. N /\ n <= N) /\ (n + 1) - 1 = n
    OBVIOUS
  <2> QED
    BY <2>1
<1>3. T = Nat
  BY Zenon, <1>1, <1>2, ReachesAll
<1> QED
  BY <1>3

Follows(h, N, first, step) == h[0] = first /\ \A i \in 1 .. N : h[i] = step[i][h[i - 1]]

(* A computation within a set.                                             *)
LEMMA RunWithin ==
  ASSUME NEW N \in Nat, NEW Z, NEW first \in Z, NEW step \in [1 .. N -> [Z -> Z]]
  PROVE  \E h \in [0 .. N -> Z] : Follows(h, N, first, step)
<1>1. PICK h : Runs(h, N, first, step)
  BY Zenon, RunExists
<1>2. h[0] = first /\ \A i \in 1 .. N : h[i] = step[i][h[i - 1]]
  BY <1>1, RunSteps
<1> DEFINE Y == [i \in 0 .. N |-> Z]
<1>3. Y[0] = Z /\ \A i \in 1 .. N : Y[i - 1] = Z /\ Y[i] = Z
  OBVIOUS
<1>4. h[0] \in Y[0] /\ \A i \in 1 .. N : h[i - 1] \in Y[i - 1] => h[i] \in Y[i]
  BY <1>2, <1>3
<1>5. \A i \in 0 .. N : h[i] \in Y[i]
  <2> HIDE DEF Y
  <2> QED
    BY Zenon, <1>4, RunStays
<1>6. \A i \in 0 .. N : h[i] \in Z
  BY Zenon, <1>5
<1>7. h = [i \in 0 .. N |-> h[i]]
  BY Zenon, <1>1 DEF Runs
<1>8. h \in [0 .. N -> Z]
  BY Zenon, <1>6, <1>7
<1> QED
  BY Zenon, <1>2, <1>8 DEF Follows

(* What a list of contacts keeps when only some are left in it.            *)
LEMMA OnlySome ==
  ASSUME NEW s \in Seq(Contact), NEW S
  PROVE  /\ Only(s, S) \in Seq(Contact) /\ Len(Only(s, S)) <= Len(s)
         /\ \A k \in 1 .. Len(Only(s, S)) :
              Only(s, S)[k] \in S /\ \E j \in 1 .. Len(s) : Only(s, S)[k] = s[j]
         /\ IsInjective(s) => IsInjective(Only(s, S))
<1> DEFINE N == Len(s)
           Steps(f) == f = [i \in 0 .. N |-> IF i = 0 THEN <<>>
                                             ELSE IF s[i] \in S THEN Append(f[i - 1], s[i])
                                             ELSE f[i - 1]]
           Kept(t, n) == /\ t \in Seq(Contact) /\ Len(t) <= n
                         /\ \A k \in 1 .. Len(t) : t[k] \in S /\ \E j \in 1 .. n : t[k] = s[j]
                         /\ IsInjective(s) => IsInjective(t)
           X == [n \in 0 .. N |-> {t \in Seq(Contact) : Kept(t, n)}]
           g == CHOOSE f : Steps(f)
<1>1. N \in Nat /\ \A i \in 1 .. N : s[i] \in Contact /\ i \in 0 .. N /\ i # 0
  OBVIOUS
<1>2. \E f : Steps(f)
  <2> DEFINE step == [i \in 1 .. N |-> [t \in Seq(Contact) |-> IF s[i] \in S THEN Append(t, s[i]) ELSE t]]
  <2>1. step \in [1 .. N -> [Seq(Contact) -> Seq(Contact)]]
    BY <1>1
  <2>2. PICK h \in [0 .. N -> Seq(Contact)] : Follows(h, N, <<>>, step)
    <3> HIDE DEF step, N
    <3>1. <<>> \in Seq(Contact) /\ N \in Nat
      BY <1>1
    <3> QED
      BY ONLY Zenon, <2>1, <3>1, RunWithin
  <2>5. \A i \in 0 .. N : h[i] = IF i = 0 THEN <<>>
                                ELSE IF s[i] \in S THEN Append(h[i - 1], s[i]) ELSE h[i - 1]
    <3> SUFFICES ASSUME NEW i \in 0 .. N, i # 0
                 PROVE  h[i] = IF s[i] \in S THEN Append(h[i - 1], s[i]) ELSE h[i - 1]
      BY Zenon, <2>2 DEF Follows
    <3>1. i \in 1 .. N /\ i - 1 \in 0 .. N
      BY <1>1
    <3>2. h[i - 1] \in Seq(Contact)
      BY Zenon, <3>1
    <3> QED
      BY Zenon, <2>2, <3>1, <3>2 DEF Follows
  <2>6. Steps(h)
    BY Zenon, <2>5
  <2> QED
    BY Zenon, <2>6
<1>3. Steps(g)
  BY Zenon, <1>2
<1>4. g[0] = <<>> /\ \A i \in 1 .. N : g[i] = IF s[i] \in S THEN Append(g[i - 1], s[i]) ELSE g[i - 1]
  <2> HIDE DEF g, N
  <2>1. 0 \in 0 .. N
    BY <1>1
  <2>2. g[0] = <<>>
    BY Zenon, <1>3, <2>1
  <2>3. ASSUME NEW i \in 1 .. N
        PROVE  g[i] = IF s[i] \in S THEN Append(g[i - 1], s[i]) ELSE g[i - 1]
    <3>1. i \in 0 .. N /\ i # 0
      BY Zenon, <1>1
    <3> QED
      BY ONLY Zenon, <1>3, <3>1
  <2> QED
    BY Zenon, <2>2, <2>3
<1>5. Only(s, S) = g[N]
  BY Zenon DEF Only
<1> HIDE DEF g, N, Kept
<1>6. g[0] \in X[0]
  BY <1>1, <1>4 DEF Kept, IsInjective
<1>7. ASSUME NEW i \in 1 .. N, g[i - 1] \in X[i - 1] PROVE g[i] \in X[i]
  <2> DEFINE t == g[i - 1]
  <2>1. i \in Nat /\ i - 1 \in Nat /\ i \in 0 .. N /\ i - 1 \in 0 .. N /\ i \in 1 .. Len(s)
    BY <1>1 DEF N
  <2>2. t \in Seq(Contact) /\ Kept(t, i - 1) /\ s[i] \in Contact /\ Len(t) \in Nat
    BY <1>1, <1>7, <2>1
  <2>0. g[i] = IF s[i] \in S THEN Append(t, s[i]) ELSE t
    BY Zenon, <1>4
  <2> HIDE DEF t
  <2>3. CASE s[i] \in S
    <3> DEFINE u == Append(t, s[i])
    <3>1. /\ g[i] = u /\ u \in Seq(Contact) /\ Len(u) = Len(t) + 1 /\ u[Len(t) + 1] = s[i]
          /\ \A k \in 1 .. Len(t) : u[k] = t[k]
      BY <2>0, <2>2, <2>3
    <3>2. \A k \in 1 .. Len(u) : k = Len(t) + 1 \/ k \in 1 .. Len(t)
      BY <2>2, <3>1
    <3> HIDE DEF u
    <3>3. Len(u) <= i
      BY <2>1, <2>2, <3>1 DEF Kept
    <3>4. \A k \in 1 .. Len(u) : u[k] \in S /\ \E j \in 1 .. i : u[k] = s[j]
      <4>1. ASSUME NEW k \in 1 .. Len(t) PROVE u[k] \in S /\ \E j \in 1 .. i : u[k] = s[j]
        <5>1. PICK j \in 1 .. i - 1 : t[k] = s[j]
          BY Zenon, <2>2 DEF Kept
        <5> QED
          BY <2>1, <2>2, <3>1, <5>1 DEF Kept
      <4>2. u[Len(t) + 1] \in S /\ \E j \in 1 .. i : u[Len(t) + 1] = s[j]
        BY <2>1, <2>3, <3>1
      <4> QED
        BY Zenon, <3>2, <4>1, <4>2
    <3>5. ASSUME IsInjective(s) PROVE IsInjective(u)
      <4>1. \A k \in 1 .. Len(t) : u[k] # s[i]
        <5> SUFFICES ASSUME NEW k \in 1 .. Len(t) PROVE u[k] # s[i]
          BY Zenon
        <5>1. PICK j \in 1 .. i - 1 : t[k] = s[j]
          BY Zenon, <2>2 DEF Kept
        <5>2. s[j] # s[i]
          BY <2>1, <3>5 DEF IsInjective
        <5> QED
          BY Zenon, <3>1, <5>1, <5>2
      <4>2. \A k, l \in 1 .. Len(t) : u[k] = u[l] => k = l
        <5>1. IsInjective(t) /\ DOMAIN t = 1 .. Len(t)
          BY <2>2, <3>5 DEF Kept
        <5> QED
          BY Zenon, <3>1, <5>1 DEF IsInjective
      <4>3. \A k, l \in 1 .. Len(u) : u[k] = u[l] => k = l
        BY <3>1, <3>2, <4>1, <4>2
      <4> QED
        BY <3>1, <4>3 DEF IsInjective
    <3> QED
      BY Zenon, <2>1, <3>1, <3>3, <3>4, <3>5 DEF Kept
  <2>4. CASE s[i] \notin S
    <3>1. g[i] = t
      BY Zenon, <2>0, <2>4
    <3>2. Kept(t, i)
      BY <2>1, <2>2 DEF Kept
    <3> QED
      BY Zenon, <2>1, <2>2, <3>1, <3>2
  <2> QED
    BY Zenon, <2>3, <2>4
<1>8. g[N] \in X[N]
  <2>1. \A i \in 0 .. N : g[i] \in X[i]
    <3> HIDE DEF X
    <3> QED
      BY Zenon, <1>1, <1>6, <1>7, RunStays
  <2> QED
    BY <1>1, <2>1
<1>9. Kept(g[N], N)
  BY <1>1, <1>8
<1> QED
  BY Zenon, <1>5, <1>9 DEF Kept, N

(* A nonempty set of positions has a first one and a last one.             *)
LEMMA FirstPosition ==
  ASSUME NEW S \in SUBSET Nat, S # {}
  PROVE  \E m \in S : \A n \in S : m <= n
<1> DEFINE T == {n \in Nat : \A k \in S : k > n}
<1> SUFFICES ASSUME \A m \in S : \E n \in S : ~(m <= n) PROVE FALSE
  BY Zenon
<1>1. 0 \in T
  <2> SUFFICES ASSUME NEW k \in S PROVE k > 0
    BY Zenon
  <2>1. PICK n \in S : ~(k <= n)
    BY Zenon
  <2> QED
    BY <2>1
<1>2. ASSUME NEW n \in T PROVE n + 1 \in T
  <2>1. n \in Nat /\ \A k \in S : k \in Nat /\ k >= n + 1
    OBVIOUS
  <2>2. ASSUME NEW k \in S PROVE k > n + 1
    <3>1. PICK l \in S : ~(k <= l)
      BY Zenon
    <3> QED
      BY <2>1, <3>1
  <2> QED
    BY <2>1, <2>2
<1>3. T = Nat
  BY Zenon, <1>1, <1>2, ReachesAll
<1>4. PICK m : m \in S
  BY Zenon
<1>5. m \in T /\ m \in Nat
  BY Zenon, <1>3, <1>4
<1>6. m > m
  BY Zenon, <1>4, <1>5
<1> QED
  BY <1>5, <1>6

(* What list.remove leaves of contacts that are all different.             *)
LEMMA FirstRemoved ==
  ASSUME NEW s \in Seq(Contact), IsInjective(s), NEW c
  PROVE  /\ RemoveFirst(s, c) \in Seq(Contact) /\ IsInjective(RemoveFirst(s, c))
         /\ \A k \in 1 .. Len(RemoveFirst(s, c)) :
              RemoveFirst(s, c)[k] # c /\ \E j \in 1 .. Len(s) : RemoveFirst(s, c)[k] = s[j]
         /\ Contains(s, c) => Len(RemoveFirst(s, c)) + 1 = Len(s)
         /\ ~Contains(s, c) => RemoveFirst(s, c) = s
<1> DEFINE t == RemoveFirst(s, c)
           I == {i \in 1 .. Len(s) : s[i] = c}
<1>1. Len(s) \in Nat /\ DOMAIN s = 1 .. Len(s)
  OBVIOUS
<1>2. CASE ~Contains(s, c)
  <2>1. t = s /\ \A i \in 1 .. Len(s) : s[i] # c
    BY Zenon, <1>2 DEF RemoveFirst, Contains
  <2> QED
    BY Zenon, <1>2, <2>1
<1>3. CASE Contains(s, c)
  <2>1. PICK m \in I : \A n \in I : m <= n
    <3>1. I \subseteq Nat /\ I # {}
      BY <1>3 DEF Contains
    <3> QED
      BY Zenon, <3>1, FirstPosition
  <2>2. Min(I) \in I
    BY Zenon, <2>1 DEF Min
  <2>3. t = RemoveAt(s, Min(I))
    BY Zenon, <1>3, <2>2 DEF RemoveFirst, SelectInSeq, Contains
  <2> DEFINE i == Min(I)
  <2>4. i \in 1 .. Len(s) /\ s[i] = c
    BY Zenon, <2>2
  <2> HIDE DEF i, I
  <2>5. /\ t \in Seq(Contact) /\ Len(t) + 1 = Len(s)
        /\ \A k \in 1 .. Len(t) : t[k] = s[IF k < i THEN k ELSE k + 1]
    <3> DEFINE a == SubSeq(s, 1, i - 1)
               b == SubSeq(s, i + 1, Len(s))
    <3>1. /\ a \in Seq(Contact) /\ Len(a) = i - 1 /\ \A k \in 1 .. i - 1 : a[k] = s[k]
      BY <1>1, <2>4
    <3>2. /\ b \in Seq(Contact) /\ Len(b) = Len(s) - i /\ \A k \in 1 .. Len(s) - i : b[k] = s[k + i]
      <4>1. i + 1 \in 1 .. Len(s) + 1 /\ Len(s) \in (i + 1) - 1 .. Len(s)
        BY <1>1, <2>4
      <4>2. /\ b \in Seq(Contact) /\ Len(b) = Len(s) - (i + 1) + 1
            /\ \A k \in 1 .. Len(s) - (i + 1) + 1 : b[k] = s[(i + 1) + k - 1]
        BY <4>1, SubSeqProperties
      <4>3. Len(s) - (i + 1) + 1 = Len(s) - i /\ \A k \in 1 .. Len(s) - i : (i + 1) + k - 1 = k + i
        BY <1>1, <2>4
      <4> HIDE DEF b
      <4> QED
        BY Zenon, <4>2, <4>3
    <3>3. t = a \o b
      BY Zenon, <2>3 DEF RemoveAt, i
    <3> HIDE DEF a, b, t
    <3>c. /\ t \in Seq(Contact) /\ Len(t) = Len(a) + Len(b)
          /\ \A k \in 1 .. Len(a) + Len(b) : t[k] = IF k <= Len(a) THEN a[k] ELSE b[k - Len(a)]
      BY ONLY Zenon, <3>1, <3>2, <3>3, ConcatProperties
    <3>n. i \in Nat /\ i >= 1 /\ i <= Len(s) /\ Len(s) \in Nat /\ Len(a) = i - 1 /\ Len(b) = Len(s) - i
      BY <1>1, <2>4, <3>1, <3>2
    <3>4. t \in Seq(Contact) /\ Len(t) = Len(s) - 1
      <4>1. Len(t) = Len(a) + Len(b)
        BY Zenon, <3>c
      <4>2. Len(t) = Len(s) - 1
        BY ONLY SMT, <3>n, <4>1
      <4> QED
        BY Zenon, <3>c, <4>2
    <3>5. ASSUME NEW k \in 1 .. Len(t) PROVE t[k] = s[IF k < i THEN k ELSE k + 1]
      <4>0. k \in 1 .. Len(s) - 1
        BY Zenon, <3>4
      <4>1. CASE k < i
        <5>1. k \in 1 .. Len(a) + Len(b) /\ k <= Len(a) /\ k \in 1 .. i - 1
          BY ONLY SMT, <3>n, <4>0, <4>1
        <5> QED
          BY ONLY Zenon, <3>1, <3>c, <4>1, <5>1
      <4>2. CASE ~(k < i)
        <5>1. /\ k \in 1 .. Len(a) + Len(b) /\ ~(k <= Len(a))
              /\ k - Len(a) \in 1 .. Len(s) - i /\ k - Len(a) + i = k + 1
          BY ONLY SMT, <3>n, <4>0, <4>2
        <5>2. t[k] = b[k - Len(a)]
          BY ONLY Zenon, <3>c, <5>1
        <5>3. b[k - Len(a)] = s[k + 1]
          BY ONLY Zenon, <3>2, <5>1
        <5> QED
          BY ONLY Zenon, <4>2, <5>2, <5>3
      <4> QED
        BY Zenon, <4>1, <4>2
    <3> QED
      BY <1>1, <3>4, <3>5
  <2> DEFINE At(k) == IF k < i THEN k ELSE k + 1
  <2>6. \A k \in 1 .. Len(t) : t[k] = s[At(k)] /\ At(k) \in 1 .. Len(s) /\ At(k) # i
    BY <1>1, <2>4, <2>5
  <2>7. \A k, l \in 1 .. Len(t) : At(k) = At(l) => k = l
    BY <1>1, <2>4, <2>5
  <2> HIDE DEF At, t
  <2>8. \A k \in 1 .. Len(t) : t[k] # c
    BY Zenon, <1>1, <2>4, <2>6 DEF IsInjective
  <2>9. IsInjective(t)
    <3>1. DOMAIN t = 1 .. Len(t)
      BY <2>5
    <3> QED
      BY <1>1, <2>6, <2>7, <3>1 DEF IsInjective
  <2> QED
    BY Zenon, <1>3, <2>5, <2>6, <2>8, <2>9 DEF t
<1> QED
  BY Zenon, <1>2, <1>3

Bucket == [range_min : Nat, range_max : Nat, contacts : Seq(Contact)]

(* What BucketsSound says of a bucket.                                     *)
Fits(b) ==
  /\ Len(b.contacts) <= K /\ IsInjective(b.contacts)
  /\ \A k \in 1 .. Len(b.contacts) :
       InRange(b.contacts[k].id, b) /\ b.contacts[k].id # local_id

Joined(bs) ==
  /\ bs \in Seq(Bucket) /\ Len(bs) >= 1
  /\ bs[1].range_min = 0 /\ bs[Len(bs)].range_max = 2^Bits
  /\ \A i \in 1 .. Len(bs) : i > 1 => bs[i].range_min = bs[i - 1].range_max + 1

Sound(bs) == Joined(bs) /\ \A i \in 1 .. Len(bs) : Fits(bs[i])

Lists(bs, c) == \E i \in 1 .. Len(bs) : Contains(bs[i].contacts, c)

(* Every identifier is in the range of some bucket.                        *)
LEMMA TargetFound ==
  ASSUME NEW bs, Joined(bs), NEW c \in Contact
  PROVE  Target(bs, c) \in 1 .. Len(bs) /\ InRange(c.id, bs[Target(bs, c)])
<1>1. /\ bs \in Seq(Bucket) /\ Len(bs) \in Nat /\ Len(bs) >= 1 /\ c.id \in Nat /\ c.id <= 2^Bits
      /\ \A i \in 1 .. Len(bs) : bs[i].range_min \in Nat /\ bs[i].range_max \in Nat
  <2>1. c.id \in 0 .. 2^Bits - 1 /\ 2^Bits \in Nat
    BY Zenon, TableAssumption
  <2>2. c.id \in Nat /\ c.id <= 2^Bits
    BY ONLY <2>1
  <2>3. bs \in Seq(Bucket) /\ Len(bs) \in Nat /\ Len(bs) >= 1
    BY DEF Joined
  <2>4. \A i \in 1 .. Len(bs) : bs[i] \in Bucket
    BY <2>3
  <2>5. \A i \in 1 .. Len(bs) : bs[i].range_min \in Nat /\ bs[i].range_max \in Nat
    BY ONLY Zenon, <2>4 DEF Bucket
  <2> QED
    BY ONLY Zenon, <2>2, <2>3, <2>5
<1> DEFINE T == {n \in Nat : n + 1 <= Len(bs) => bs[n + 1].range_min <= c.id}
           S == {i \in 1 .. Len(bs) : InRange(c.id, bs[i])}
<1>2. S # {}
  <2> SUFFICES ASSUME \A i \in 1 .. Len(bs) : ~InRange(c.id, bs[i]) PROVE FALSE
    BY Zenon
  <2>1. 0 \in T
    BY <1>1 DEF Joined
  <2>2. ASSUME NEW n \in T PROVE n + 1 \in T
    <3> SUFFICES ASSUME (n + 1) + 1 <= Len(bs) PROVE bs[(n + 1) + 1].range_min <= c.id
      OBVIOUS
    <3>1. /\ n \in Nat /\ n + 1 \in 1 .. Len(bs) /\ (n + 1) + 1 \in 1 .. Len(bs)
          /\ (n + 1) + 1 > 1 /\ ((n + 1) + 1) - 1 = n + 1
      BY <1>1
    <3>2. bs[n + 1].range_min <= c.id
      BY <1>1, <3>1
    <3>3. ~(c.id <= bs[n + 1].range_max)
      BY Zenon, <3>1, <3>2 DEF InRange
    <3>4. bs[(n + 1) + 1].range_min = bs[n + 1].range_max + 1
      BY Zenon, <3>1 DEF Joined
    <3> QED
      BY <1>1, <3>1, <3>3, <3>4
  <2>3. T = Nat
    BY Zenon, <2>1, <2>2, ReachesAll
  <2>4. Len(bs) - 1 \in T /\ (Len(bs) - 1) + 1 = Len(bs)
    <3>1. Len(bs) - 1 \in Nat /\ (Len(bs) - 1) + 1 = Len(bs)
      BY ONLY <1>1
    <3> QED
      BY ONLY Zenon, <2>3, <3>1
  <2>5. bs[Len(bs)].range_min <= c.id
    BY <1>1, <2>4
  <2>6. InRange(c.id, bs[Len(bs)])
    BY Zenon, <1>1, <2>5 DEF Joined, InRange
  <2> QED
    BY <1>1, <2>6
<1>3. PICK i \in S : \A j \in S : i <= j
  <2>1. S \subseteq Nat
    OBVIOUS
  <2> HIDE DEF S
  <2> QED
    BY Zenon, <1>2, <2>1, FirstPosition
<1>4. i \in 1 .. Len(bs) /\ InRange(c.id, bs[i]) /\ \A j \in 1 .. i - 1 : ~InRange(c.id, bs[j])
  BY <1>1, <1>3
<1> QED
  BY Zenon, <1>4 DEF Target

(* The contacts of one bucket change to others that fit.                   *)
LEMMA ContactsPut ==
  ASSUME NEW bs, Sound(bs), NEW i \in 1 .. Len(bs), NEW t \in Seq(Contact),
         Len(t) <= K, IsInjective(t),
         \A k \in 1 .. Len(t) : InRange(t[k].id, bs[i]) /\ t[k].id # local_id
  PROVE  /\ Sound([bs EXCEPT ![i].contacts = t])
         /\ \A c : Lists([bs EXCEPT ![i].contacts = t], c) => Lists(bs, c) \/ Contains(t, c)
<1> DEFINE new == [bs EXCEPT ![i].contacts = t]
           b == [bs[i] EXCEPT !.contacts = t]
<1>1. bs \in Seq(Bucket) /\ bs[i] \in Bucket /\ Len(bs) \in Nat
  BY DEF Sound, Joined
<1>2. b \in Bucket /\ b.range_min = bs[i].range_min /\ b.range_max = bs[i].range_max /\ b.contacts = t
  BY Zenon, <1>1 DEF Bucket
<1>3. new \in Seq(Bucket) /\ Len(new) = Len(bs) /\ new[i] = b /\ \A j \in 1 .. Len(bs) : j # i => new[j] = bs[j]
  BY <1>1, <1>2
<1> HIDE DEF new, b
<1>4. \A j \in 1 .. Len(bs) : new[j].range_min = bs[j].range_min /\ new[j].range_max = bs[j].range_max
  BY Zenon, <1>2, <1>3
<1>5. Joined(new)
  <2>1. Joined(bs)
    BY Zenon DEF Sound
  <2>2. 1 \in 1 .. Len(bs) /\ Len(bs) \in 1 .. Len(bs) /\ \A j \in 1 .. Len(bs) : j > 1 => j - 1 \in 1 .. Len(bs)
    BY <1>1, <2>1 DEF Joined
  <2> QED
    BY Zenon, <1>3, <1>4, <2>1, <2>2 DEF Joined
<1>6. Fits(b)
  BY Zenon, <1>2 DEF Fits, InRange
<1>7. \A j \in 1 .. Len(new) : Fits(new[j])
  BY Zenon, <1>3, <1>6 DEF Sound
<1>8. \A c : Lists(new, c) => Lists(bs, c) \/ Contains(t, c)
  BY Zenon, <1>2, <1>3 DEF Lists
<1> QED
  BY Zenon, <1>5, <1>7, <1>8 DEF Sound, new

Mid(b) == (b.range_min + b.range_max) \div 2
Lower(b) == KBucket(b.range_min, Mid(b), Only(b.contacts, {c \in Contact : c.id <= Mid(b)}))
Upper(b) == KBucket(Mid(b) + 1, b.range_max, Only(b.contacts, {c \in Contact : c.id > Mid(b)}))

(* The buckets after a split, position by position.                        *)
LEMMA SplitBuckets ==
  ASSUME NEW bs \in Seq(Bucket), NEW i \in 1 .. Len(bs)
  PROVE  /\ Lower(bs[i]) \in Bucket /\ Upper(bs[i]) \in Bucket /\ Mid(bs[i]) \in Nat
         /\ split_bucket(bs, i) \in Seq(Bucket) /\ Len(split_bucket(bs, i)) = Len(bs) + 1
         /\ \A j \in 1 .. Len(bs) + 1 :
              split_bucket(bs, i)[j] = IF j < i THEN bs[j] ELSE IF j = i THEN Lower(bs[i])
                                       ELSE IF j = i + 1 THEN Upper(bs[i]) ELSE bs[j - 1]
<1> DEFINE lower == Lower(bs[i])
           upper == Upper(bs[i])
           new == split_bucket(bs, i)
<1>1. bs[i] \in Bucket /\ Len(bs) \in Nat
  OBVIOUS
<1>2. bs[i].range_min \in Nat /\ bs[i].range_max \in Nat /\ bs[i].contacts \in Seq(Contact)
  BY Zenon, <1>1 DEF Bucket
<1>3. Mid(bs[i]) \in Nat /\ Mid(bs[i]) + 1 \in Nat
  <2>1. \A a, b \in Nat : (a + b) \div 2 \in Nat /\ (a + b) \div 2 + 1 \in Nat
    BY ONLY SMT
  <2> QED
    BY Zenon, <1>2, <2>1 DEF Mid
<1>4. new = SubSeq(bs, 1, i - 1) \o <<lower, upper>> \o SubSeq(bs, i + 1, Len(bs))
  BY Zenon DEF split_bucket, Lower, Upper, Mid
<1>5. lower \in Bucket /\ upper \in Bucket
  <2>1. \A S : Only(bs[i].contacts, S) \in Seq(Contact)
    BY Zenon, <1>2, OnlySome
  <2> QED
    BY Zenon, <1>2, <1>3, <2>1 DEF Bucket, KBucket, Lower, Upper
<1> HIDE DEF new, lower, upper
<1>6. /\ new \in Seq(Bucket) /\ Len(new) = Len(bs) + 1
      /\ \A j \in 1 .. Len(bs) + 1 :
           new[j] = IF j < i THEN bs[j] ELSE IF j = i THEN lower ELSE IF j = i + 1 THEN upper ELSE bs[j - 1]
  <2> DEFINE a == SubSeq(bs, 1, i - 1)
             m == <<lower, upper>>
             z == SubSeq(bs, i + 1, Len(bs))
  <2>1. a \in Seq(Bucket) /\ Len(a) = i - 1 /\ \A j \in 1 .. i - 1 : a[j] = bs[j]
    BY <1>1
  <2>2. m \in Seq(Bucket) /\ Len(m) = 2 /\ m[1] = lower /\ m[2] = upper
    BY <1>5
  <2>3. z \in Seq(Bucket) /\ Len(z) = Len(bs) - i /\ \A j \in 1 .. Len(bs) - i : z[j] = bs[j + i]
    <3>1. \A j \in i + 1 .. Len(bs) : bs[j] \in Bucket
      BY <1>1
    <3>2. i + 1 \in Int /\ Len(bs) \in Int
      BY <1>1
    <3>3. /\ z \in Seq(Bucket) /\ Len(z) = IF i + 1 <= Len(bs) THEN Len(bs) - (i + 1) + 1 ELSE 0
          /\ \A j \in 1 .. Len(bs) - (i + 1) + 1 : z[j] = bs[(i + 1) + j - 1]
      BY <3>1, <3>2, SubSeqProperties
    <3>4. /\ Len(bs) - (i + 1) + 1 = Len(bs) - i /\ \A j \in 1 .. Len(bs) - i : (i + 1) + j - 1 = j + i
          /\ (IF i + 1 <= Len(bs) THEN Len(bs) - (i + 1) + 1 ELSE 0) = Len(bs) - i
      BY <1>1
    <3> HIDE DEF z
    <3> QED
      BY Zenon, <3>3, <3>4
  <2>4. new = a \o m \o z
    BY Zenon, <1>4
  <2> DEFINE p == a \o m
  <2> HIDE DEF a, m, z
  <2>5. /\ p \in Seq(Bucket) /\ Len(p) = Len(a) + Len(m)
        /\ \A j \in 1 .. Len(a) + Len(m) : p[j] = IF j <= Len(a) THEN a[j] ELSE m[j - Len(a)]
    BY ONLY Zenon, <2>1, <2>2, ConcatProperties
  <2>6. /\ new \in Seq(Bucket) /\ Len(new) = Len(p) + Len(z)
        /\ \A j \in 1 .. Len(p) + Len(z) : new[j] = IF j <= Len(p) THEN p[j] ELSE z[j - Len(p)]
    <3> HIDE DEF p
    <3>1. new = p \o z
      BY Zenon, <2>4 DEF p
    <3>2. p \in Seq(Bucket) /\ z \in Seq(Bucket)
      BY Zenon, <2>3, <2>5
    <3> QED
      BY ONLY Zenon, <3>1, <3>2, ConcatProperties
  <2> HIDE DEF p
  <2>7. i \in Nat /\ i >= 1 /\ i <= Len(bs) /\ Len(bs) \in Nat /\ Len(a) = i - 1 /\ Len(m) = 2 /\ Len(z) = Len(bs) - i
    BY <1>1, <2>1, <2>2, <2>3
  <2>8. Len(p) = i + 1 /\ Len(new) = Len(bs) + 1
    BY ONLY <2>5, <2>6, <2>7
  <2>9. ASSUME NEW j \in 1 .. Len(bs) + 1
        PROVE  new[j] = IF j < i THEN bs[j] ELSE IF j = i THEN lower ELSE IF j = i + 1 THEN upper ELSE bs[j - 1]
    <3>1. CASE j < i
      <4>1. /\ j \in 1 .. Len(p) + Len(z) /\ j <= Len(p) /\ j \in 1 .. Len(a) + Len(m)
            /\ j <= Len(a) /\ j \in 1 .. i - 1
        BY ONLY <2>7, <2>8, <3>1, j \in 1 .. Len(bs) + 1
      <4>2. new[j] = a[j] /\ a[j] = bs[j]
        BY ONLY Zenon, <2>1, <2>5, <2>6, <4>1
      <4> QED
        BY ONLY Zenon, <3>1, <4>2
    <3>2. CASE j = i \/ j = i + 1
      <4>1. /\ j \in 1 .. Len(p) + Len(z) /\ j <= Len(p) /\ j \in 1 .. Len(a) + Len(m) /\ ~(j <= Len(a))
            /\ ~(j < i) /\ j - Len(a) = IF j = i THEN 1 ELSE 2
        BY ONLY <2>7, <2>8, <3>2
      <4>2. new[j] = m[j - Len(a)]
        BY ONLY Zenon, <2>5, <2>6, <4>1
      <4> QED
        BY ONLY Zenon, <2>2, <3>2, <4>1, <4>2
    <3>3. CASE j > i + 1
      <4>1. /\ j \in 1 .. Len(p) + Len(z) /\ ~(j <= Len(p)) /\ j - Len(p) \in 1 .. Len(bs) - i
            /\ j - Len(p) + i = j - 1 /\ ~(j < i) /\ j # i /\ j # i + 1
        BY ONLY <2>7, <2>8, <3>3, j \in 1 .. Len(bs) + 1
      <4>2. new[j] = z[j - Len(p)]
        BY ONLY Zenon, <2>6, <4>1
      <4>3. z[j - Len(p)] = bs[j - 1]
        BY ONLY Zenon, <2>3, <4>1
      <4> QED
        BY ONLY Zenon, <4>1, <4>2, <4>3
    <3>4. j < i \/ (j = i \/ j = i + 1) \/ j > i + 1
      <4>1. i \in Nat /\ Len(bs) \in Nat
        BY Zenon, <2>7
      <4> QED
        BY ONLY SMT, <4>1, j \in 1 .. Len(bs) + 1
    <3> QED
      BY ONLY Zenon, <3>1, <3>2, <3>3, <3>4
  <2> QED
    BY Zenon, <2>6, <2>8, <2>9
<1> QED
  BY Zenon, <1>3, <1>5, <1>6 DEF new, lower, upper

(* The halves of a bucket hold contacts of the bucket that fit them.       *)
LEMMA HalvesFit ==
  ASSUME NEW b \in Bucket, Fits(b), Mid(b) \in Nat
  PROVE  /\ Fits(Lower(b)) /\ Fits(Upper(b))
         /\ \A c : Contains(Lower(b).contacts, c) \/ Contains(Upper(b).contacts, c) => Contains(b.contacts, c)
<1> DEFINE m == Mid(b)
           low == Only(b.contacts, {c \in Contact : c.id <= m})
           up == Only(b.contacts, {c \in Contact : c.id > m})
<1>1. b.contacts \in Seq(Contact) /\ b.range_min \in Nat /\ b.range_max \in Nat
  BY Zenon DEF Bucket
<1>2. /\ low \in Seq(Contact) /\ Len(low) <= Len(b.contacts) /\ IsInjective(low)
      /\ \A k \in 1 .. Len(low) : low[k].id <= m /\ \E j \in 1 .. Len(b.contacts) : low[k] = b.contacts[j]
  <2> DEFINE S == {c \in Contact : c.id <= m}
  <2>1. \A c \in S : c.id <= m
    BY Zenon
  <2> HIDE DEF S
  <2>2. /\ Only(b.contacts, S) \in Seq(Contact) /\ Len(Only(b.contacts, S)) <= Len(b.contacts)
        /\ \A k \in 1 .. Len(Only(b.contacts, S)) :
             /\ Only(b.contacts, S)[k] \in S
             /\ \E j \in 1 .. Len(b.contacts) : Only(b.contacts, S)[k] = b.contacts[j]
        /\ IsInjective(b.contacts) => IsInjective(Only(b.contacts, S))
    BY Zenon, <1>1, OnlySome
  <2>3. IsInjective(b.contacts)
    BY Zenon DEF Fits
  <2>4. low = Only(b.contacts, S)
    BY Zenon DEF S
  <2> HIDE DEF low
  <2> QED
    BY Zenon, <2>1, <2>2, <2>3, <2>4
<1>3. /\ up \in Seq(Contact) /\ Len(up) <= Len(b.contacts) /\ IsInjective(up)
      /\ \A k \in 1 .. Len(up) : up[k].id > m /\ \E j \in 1 .. Len(b.contacts) : up[k] = b.contacts[j]
  <2> DEFINE S == {c \in Contact : c.id > m}
  <2>1. \A c \in S : c.id > m
    BY Zenon
  <2> HIDE DEF S
  <2>2. /\ Only(b.contacts, S) \in Seq(Contact) /\ Len(Only(b.contacts, S)) <= Len(b.contacts)
        /\ \A k \in 1 .. Len(Only(b.contacts, S)) :
             /\ Only(b.contacts, S)[k] \in S
             /\ \E j \in 1 .. Len(b.contacts) : Only(b.contacts, S)[k] = b.contacts[j]
        /\ IsInjective(b.contacts) => IsInjective(Only(b.contacts, S))
    BY Zenon, <1>1, OnlySome
  <2>3. IsInjective(b.contacts)
    BY Zenon DEF Fits
  <2>4. up = Only(b.contacts, S)
    BY Zenon DEF S
  <2> HIDE DEF up
  <2> QED
    BY Zenon, <2>1, <2>2, <2>3, <2>4
<1>4. /\ Lower(b).contacts = low /\ Lower(b).range_min = b.range_min /\ Lower(b).range_max = m
      /\ Upper(b).contacts = up /\ Upper(b).range_min = m + 1 /\ Upper(b).range_max = b.range_max
  BY Zenon DEF Lower, Upper, KBucket
<1> HIDE DEF m, low, up
<1>5. Len(b.contacts) \in Nat /\ Len(low) \in Nat /\ Len(up) \in Nat /\ Len(b.contacts) <= K /\ K \in Nat /\ m \in Nat
  BY <1>1, <1>2, <1>3, TableAssumption DEF Fits, m
<1>6. Len(low) <= K /\ Len(up) <= K
  BY ONLY <1>2, <1>3, <1>5
<1>7. \A j \in 1 .. Len(b.contacts) :
        /\ b.contacts[j].id \in Nat /\ b.contacts[j].id # local_id
        /\ b.range_min <= b.contacts[j].id /\ b.contacts[j].id <= b.range_max
  <2>1. \A j \in 1 .. Len(b.contacts) : b.contacts[j] \in Contact
    BY <1>1
  <2>2. \A c \in Contact : c.id \in Nat
    <3> SUFFICES ASSUME NEW c \in Contact PROVE c.id \in Nat
      BY Zenon
    <3>1. c.id \in 0 .. 2^Bits - 1 /\ 2^Bits \in Nat
      BY Zenon, TableAssumption
    <3> QED
      BY ONLY <3>1
  <2> QED
    BY Zenon, <2>1, <2>2 DEF Fits, InRange
<1>8. Fits(Lower(b))
  <2>1. ASSUME NEW k \in 1 .. Len(low)
        PROVE  b.range_min <= low[k].id /\ low[k].id <= m /\ low[k].id # local_id
    BY Zenon, <1>2, <1>7
  <2> QED
    BY Zenon, <1>2, <1>4, <1>6, <2>1 DEF Fits, InRange
<1>9. Fits(Upper(b))
  <2>1. ASSUME NEW k \in 1 .. Len(up)
        PROVE  m + 1 <= up[k].id /\ up[k].id <= b.range_max /\ up[k].id # local_id
    <3>1. PICK j \in 1 .. Len(b.contacts) : up[k] = b.contacts[j]
      BY Zenon, <1>3
    <3>2. up[k].id > m
      BY Zenon, <1>3
    <3> QED
      BY <1>5, <1>7, <3>1, <3>2
  <2> QED
    BY Zenon, <1>3, <1>4, <1>6, <2>1 DEF Fits, InRange
<1>10. \A c : Contains(low, c) \/ Contains(up, c) => Contains(b.contacts, c)
  BY Zenon, <1>2, <1>3 DEF Contains
<1> QED
  BY Zenon, <1>4, <1>8, <1>9, <1>10

(* A split leaves the table sound, with the same contacts.                 *)
LEMMA SplitSound ==
  ASSUME NEW bs, Sound(bs), NEW i \in 1 .. Len(bs)
  PROVE  /\ Sound(split_bucket(bs, i))
         /\ \A c : Lists(split_bucket(bs, i), c) => Lists(bs, c)
<1> DEFINE new == split_bucket(bs, i)
           b == bs[i]
<1>1. bs \in Seq(Bucket) /\ b \in Bucket /\ Len(bs) \in Nat /\ Fits(b) /\ i \in Nat
  BY DEF Sound, Joined
<1>2. /\ new \in Seq(Bucket) /\ Len(new) = Len(bs) + 1 /\ Mid(b) \in Nat
      /\ \A j \in 1 .. Len(bs) + 1 :
           new[j] = IF j < i THEN bs[j] ELSE IF j = i THEN Lower(b) ELSE IF j = i + 1 THEN Upper(b) ELSE bs[j - 1]
  BY Zenon, <1>1, SplitBuckets
<1>3. /\ Lower(b).range_min = b.range_min /\ Lower(b).range_max + 1 = Upper(b).range_min
      /\ Upper(b).range_max = b.range_max
  BY Zenon DEF Lower, Upper, KBucket
<1>4. /\ Fits(Lower(b)) /\ Fits(Upper(b))
      /\ \A c : Contains(Lower(b).contacts, c) \/ Contains(Upper(b).contacts, c) => Contains(b.contacts, c)
  BY Zenon, <1>1, <1>2, HalvesFit
<1> HIDE DEF new
<1>5. ASSUME NEW j \in 1 .. Len(bs) + 1
      PROVE  /\ j < i => j \in 1 .. Len(bs) /\ new[j] = bs[j]
             /\ j = i => new[j] = Lower(b)
             /\ j = i + 1 => new[j] = Upper(b)
             /\ j > i + 1 => j - 1 \in 1 .. Len(bs) /\ new[j] = bs[j - 1]
             /\ j < i \/ j = i \/ j = i + 1 \/ j > i + 1
  BY <1>1, <1>2
<1>6. \A j \in 1 .. Len(new) : Fits(new[j])
  BY Zenon, <1>2, <1>4, <1>5 DEF Sound
<1>7. \A c : Lists(new, c) => Lists(bs, c)
  BY Zenon, <1>2, <1>4, <1>5 DEF Lists
<1>8. Joined(new)
  <2>1. Joined(bs)
    BY Zenon DEF Sound
  <2>2. new[1].range_min = 0
    <3>1. 1 \in 1 .. Len(bs) + 1 /\ (1 < i \/ 1 = i)
      BY <1>1
    <3> QED
      BY Zenon, <1>3, <1>5, <2>1, <3>1 DEF Joined
  <2>3. new[Len(new)].range_max = 2^Bits
    <3>1. /\ Len(bs) + 1 \in 1 .. Len(bs) + 1 /\ (Len(bs) + 1 = i + 1 \/ Len(bs) + 1 > i + 1)
          /\ (Len(bs) + 1) - 1 = Len(bs) /\ (Len(bs) + 1 = i + 1 => i = Len(bs))
      BY <1>1
    <3>2. CASE Len(bs) + 1 = i + 1
      BY Zenon, <1>2, <1>3, <1>5, <2>1, <3>1, <3>2 DEF Joined
    <3>3. CASE Len(bs) + 1 > i + 1
      BY Zenon, <1>2, <1>5, <2>1, <3>1, <3>3 DEF Joined
    <3> QED
      BY Zenon, <3>1, <3>2, <3>3
  <2>4. ASSUME NEW j \in 1 .. Len(new), j > 1 PROVE new[j].range_min = new[j - 1].range_max + 1
    <3>0. \A k \in 1 .. Len(bs) : k > 1 => bs[k].range_min = bs[k - 1].range_max + 1
      BY Zenon, <2>1 DEF Joined
    <3>1. j \in 1 .. Len(bs) + 1 /\ j - 1 \in 1 .. Len(bs) + 1 /\ j \in Nat
      BY <1>1, <1>2, <2>4
    <3>2. CASE j < i
      <4>1. j - 1 < i /\ j \in 1 .. Len(bs)
        BY <1>1, <3>1, <3>2
      <4> QED
        BY Zenon, <1>5, <2>4, <3>0, <3>1, <3>2, <4>1
    <3>3. CASE j = i
      <4>1. j - 1 < i
        BY <1>1, <3>3
      <4>2. new[j - 1] = bs[j - 1] /\ new[j].range_min = bs[j].range_min
        BY Zenon, <1>3, <1>5, <3>1, <3>3, <4>1
      <4> QED
        BY Zenon, <2>4, <3>0, <3>3, <4>2
    <3>4. CASE j = i + 1
      <4>1. j - 1 = i
        BY <1>1, <3>4
      <4> QED
        BY Zenon, <1>3, <1>5, <3>1, <3>4, <4>1
    <3>5. CASE j > i + 1
      <4>1. new[j] = bs[j - 1] /\ j - 1 \in 1 .. Len(bs) /\ j - 1 > 1
        BY <1>1, <1>5, <3>1, <3>5
      <4>2. bs[j - 1].range_min = bs[(j - 1) - 1].range_max + 1
        BY Zenon, <3>0, <4>1
      <4>3. new[j - 1].range_max = bs[(j - 1) - 1].range_max
        <5>1. CASE j - 1 = i + 1
          <6>1. (j - 1) - 1 = i
            BY <1>1, <5>1
          <6> QED
            BY Zenon, <1>3, <1>5, <3>1, <5>1, <6>1
        <5>2. CASE j - 1 > i + 1
          BY Zenon, <1>5, <3>1, <5>2
        <5> QED
          BY <1>1, <3>1, <3>5, <5>1, <5>2
      <4> QED
        BY Zenon, <4>1, <4>2, <4>3
    <3> QED
      BY Zenon, <1>5, <3>1, <3>2, <3>3, <3>4, <3>5
  <2> QED
    BY <1>1, <1>2, <2>2, <2>3, <2>4 DEF Joined
<1> QED
  BY Zenon, <1>6, <1>7, <1>8 DEF Sound, new

(* One round of update's recursion: a split, or nothing.                   *)
RoomStep(bs, c) ==
  LET i == Target(bs, c)
  IN  IF HasRoom(bs[i], c) \/ ~InRange(local_id, bs[i]) THEN bs ELSE split_bucket(bs, i)

(* The splits that make room leave the table sound, with the same          *)
(* contacts.                                                               *)
LEMMA RoomSound ==
  ASSUME NEW bs, Sound(bs), NEW c \in Contact
  PROVE  /\ Sound(MakeRoom(bs, c))
         /\ \A d : Lists(MakeRoom(bs, c), d) => Lists(bs, d)
<1> DEFINE N == Bits + 1
           Z == {x \in Seq(Bucket) : Sound(x) /\ \A d : Lists(x, d) => Lists(bs, d)}
           Steps(f) == f = [n \in 0 .. N |-> IF n = 0 THEN bs ELSE RoomStep(f[n - 1], c)]
           g == CHOOSE f : Steps(f)
<1>1. N \in Nat /\ bs \in Z
  BY TableAssumption DEF Sound, Joined
<1>2. ASSUME NEW x \in Z PROVE RoomStep(x, c) \in Z
  <2>1. Sound(x) /\ \A d : Lists(x, d) => Lists(bs, d)
    BY Zenon
  <2>2. Target(x, c) \in 1 .. Len(x)
    BY Zenon, <2>1, TargetFound DEF Sound
  <2>3. Sound(split_bucket(x, Target(x, c))) /\ \A d : Lists(split_bucket(x, Target(x, c)), d) => Lists(bs, d)
    BY Zenon, <2>1, <2>2, SplitSound
  <2>4. split_bucket(x, Target(x, c)) \in Z
    BY Zenon, <2>3 DEF Sound, Joined
  <2> HIDE DEF Z
  <2> QED
    BY Zenon, <2>4 DEF RoomStep
<1> HIDE DEF Z, N
<1>3. \E f : Steps(f)
  <2> DEFINE step == [i \in 1 .. N |-> [x \in Z |-> RoomStep(x, c)]]
  <2>1. step \in [1 .. N -> [Z -> Z]]
    BY Zenon, <1>2
  <2>2. PICK h \in [0 .. N -> Z] : Follows(h, N, bs, step)
    <3> HIDE DEF step
    <3> QED
      BY ONLY Zenon, <1>1, <2>1, RunWithin
  <2>3. ASSUME NEW i \in 0 .. N PROVE h[i] = IF i = 0 THEN bs ELSE RoomStep(h[i - 1], c)
    <3>1. CASE i = 0
      BY Zenon, <2>2, <3>1 DEF Follows
    <3>2. CASE i # 0
      <4>1. i \in 1 .. N /\ i - 1 \in 0 .. N
        BY <1>1, <3>2
      <4>2. h[i - 1] \in Z
        BY Zenon, <4>1
      <4> QED
        BY Zenon, <2>2, <3>2, <4>1, <4>2 DEF Follows
    <3> QED
      BY Zenon, <3>1, <3>2
  <2>4. Steps(h)
    BY Zenon, <2>3
  <2> QED
    BY Zenon, <2>4
<1>4. Steps(g)
  BY Zenon, <1>3
<1>5. MakeRoom(bs, c) = g[N]
  BY Zenon DEF MakeRoom, RoomStep, N
<1> HIDE DEF g
<1>6. g[0] = bs /\ \A i \in 1 .. N : g[i] = RoomStep(g[i - 1], c)
  <2>1. 0 \in 0 .. N /\ \A i \in 1 .. N : i \in 0 .. N /\ i # 0
    BY <1>1
  <2> QED
    BY ONLY Zenon, <1>4, <2>1
<1>7. g[N] \in Z
  <2> DEFINE X == [i \in 0 .. N |-> Z]
  <2>1. X[0] = Z /\ \A i \in 1 .. N : X[i - 1] = Z /\ X[i] = Z
    BY <1>1
  <2>2. g[0] \in X[0] /\ \A i \in 1 .. N : g[i - 1] \in X[i - 1] => g[i] \in X[i]
    BY Zenon, <1>1, <1>2, <1>6, <2>1
  <2>3. \A i \in 0 .. N : g[i] \in X[i]
    <3> HIDE DEF X
    <3> QED
      BY Zenon, <1>1, <2>2, RunStays
  <2> QED
    BY <1>1, <2>3
<1> QED
  BY Zenon, <1>5, <1>7 DEF Z

(* KBucket.update puts a contact at the end, once.                         *)
LEMMA TouchedFits ==
  ASSUME NEW s \in Seq(Contact), IsInjective(s), Len(s) <= K, NEW c \in Contact,
         Contains(s, c) \/ Len(s) < K
  PROVE  /\ Touched(s, c) \in Seq(Contact) /\ Len(Touched(s, c)) <= K /\ IsInjective(Touched(s, c))
         /\ \A k \in 1 .. Len(Touched(s, c)) :
              Touched(s, c)[k] = c \/ \E j \in 1 .. Len(s) : Touched(s, c)[k] = s[j]
<1> DEFINE r == RemoveFirst(s, c)
           t == Touched(s, c)
<1>1. /\ r \in Seq(Contact) /\ IsInjective(r)
      /\ \A k \in 1 .. Len(r) : r[k] # c /\ \E j \in 1 .. Len(s) : r[k] = s[j]
      /\ Contains(s, c) => Len(r) + 1 = Len(s)
      /\ ~Contains(s, c) => r = s
  BY Zenon, FirstRemoved
<1>2. t = Append(r, c)
  BY Zenon DEF Touched
<1> HIDE DEF r, t
<1>3. /\ t \in Seq(Contact) /\ Len(t) = Len(r) + 1 /\ Len(r) \in Nat
      /\ t[Len(r) + 1] = c /\ \A k \in 1 .. Len(r) : t[k] = r[k]
  BY <1>1, <1>2
<1>4. Len(s) \in Nat /\ K \in Nat
  BY TableAssumption
<1>5. Len(t) <= K
  <2>1. Len(r) + 1 = Len(s) \/ (Len(r) = Len(s) /\ Len(s) < K)
    BY Zenon, <1>1
  <2>2. Len(t) = Len(r) + 1 /\ Len(r) \in Nat
    BY Zenon, <1>3
  <2> QED
    BY ONLY SMT, <1>4, <2>1, <2>2, Len(s) <= K
<1>6. \A k \in 1 .. Len(t) : k = Len(r) + 1 \/ k \in 1 .. Len(r)
  BY ONLY <1>3
<1>7. IsInjective(t)
  <2>1. DOMAIN t = 1 .. Len(t) /\ DOMAIN r = 1 .. Len(r)
    BY <1>1, <1>3
  <2>2. \A k, l \in 1 .. Len(r) : r[k] = r[l] => k = l
    BY Zenon, <1>1, <2>1 DEF IsInjective
  <2>3. ASSUME NEW k \in 1 .. Len(t), NEW l \in 1 .. Len(t), t[k] = t[l] PROVE k = l
    <3>1. CASE k \in 1 .. Len(r) /\ l \in 1 .. Len(r)
      BY Zenon, <1>3, <2>2, <2>3, <3>1
    <3>2. CASE k = Len(r) + 1 /\ l \in 1 .. Len(r)
      BY Zenon, <1>1, <1>3, <2>3, <3>2
    <3>3. CASE k \in 1 .. Len(r) /\ l = Len(r) + 1
      BY Zenon, <1>1, <1>3, <2>3, <3>3
    <3> QED
      BY Zenon, <1>6, <3>1, <3>2, <3>3
  <2> QED
    BY Zenon, <2>1, <2>3 DEF IsInjective
<1>8. \A k \in 1 .. Len(t) : t[k] = c \/ \E j \in 1 .. Len(s) : t[k] = s[j]
  BY Zenon, <1>1, <1>3, <1>6
<1> QED
  BY Zenon, <1>3, <1>5, <1>7, <1>8 DEF t

(* The inductive invariant: the buckets are sound, and no update but the   *)
(* one that waits for a ping can still put a revoked node in them.         *)
TableInv ==
  /\ Sound(buckets)
  /\ ping \in [oldest : Contact, contact : Contact] \cup {NoPing}
  /\ \A c : Lists(buckets, c) /\ c.id \in revoked_nodes => c \in racing
  /\ ping # NoPing =>
       /\ ping.contact.id # local_id
       /\ ping.contact.id \in revoked_nodes => ping.contact \in racing

(* The types of a bucket of a sound table.                                 *)
LEMMA SoundBucket ==
  ASSUME NEW bs, Sound(bs), NEW i \in 1 .. Len(bs)
  PROVE  bs[i] \in Bucket /\ bs[i].contacts \in Seq(Contact) /\ Fits(bs[i])
<1>1. bs \in Seq(Bucket) /\ Fits(bs[i])
  BY Zenon DEF Sound, Joined
<1>2. bs[i] \in Bucket
  BY <1>1
<1>3. bs[i].contacts \in Seq(Contact)
  BY ONLY Zenon, <1>2 DEF Bucket
<1> QED
  BY Zenon, <1>1, <1>2, <1>3

(* A contact is put at the end of a bucket of a sound table.               *)
LEMMA PutAtEnd ==
  ASSUME NEW bs, Sound(bs), NEW i \in 1 .. Len(bs), NEW c \in Contact, HasRoom(bs[i], c),
         InRange(c.id, bs[i]), c.id # local_id
  PROVE  /\ Sound([bs EXCEPT ![i].contacts = Touched(@, c)])
         /\ \A d : Lists([bs EXCEPT ![i].contacts = Touched(@, c)], d) => Lists(bs, d) \/ d = c
<1> DEFINE s == bs[i].contacts
           t == Touched(s, c)
<1>1. s \in Seq(Contact) /\ IsInjective(s) /\ Len(s) <= K /\ Fits(bs[i])
  BY Zenon, SoundBucket DEF Fits
<1>2. /\ t \in Seq(Contact) /\ Len(t) <= K /\ IsInjective(t)
      /\ \A k \in 1 .. Len(t) : t[k] = c \/ \E j \in 1 .. Len(s) : t[k] = s[j]
  BY Zenon, <1>1, TouchedFits DEF HasRoom
<1>3. \A k \in 1 .. Len(t) : InRange(t[k].id, bs[i]) /\ t[k].id # local_id
  <2> HIDE DEF t
  <2> QED
    BY Zenon, <1>1, <1>2 DEF Fits
<1>4. [bs EXCEPT ![i].contacts = Touched(@, c)] = [bs EXCEPT ![i].contacts = t]
  BY Zenon
<1> HIDE DEF t
<1>5. /\ Sound([bs EXCEPT ![i].contacts = t])
      /\ \A d : Lists([bs EXCEPT ![i].contacts = t], d) => Lists(bs, d) \/ Contains(t, d)
  BY Zenon, <1>2, <1>3, ContactsPut
<1>6. \A d : Contains(t, d) => Contains(s, d) \/ d = c
  BY Zenon, <1>2 DEF Contains
<1>7. \A d : Contains(s, d) => Lists(bs, d)
  BY Zenon DEF Lists
<1> QED
  BY Zenon, <1>4, <1>5, <1>6, <1>7

(* update() keeps the invariant, up to its ping when it needs one.         *)
LEMMA UpdateStep ==
  ASSUME TableInv, NEW c \in Contact, update(c)
  PROVE  TableInv'
<1> DEFINE bs == MakeRoom(buckets, c)
           i == Target(bs, c)
<1>1. /\ c.id # local_id /\ c.id \notin revoked_nodes /\ UNCHANGED <<revoked_nodes, racing>>
      /\ \/ /\ HasRoom(bs[i], c)
            /\ buckets' = [bs EXCEPT ![i].contacts = Touched(@, c)]
            /\ ping' = ping
         \/ /\ buckets' = bs /\ ~HasRoom(bs[i], c)
            /\ \/ ping' = [oldest |-> Head(bs[i].contacts), contact |-> c]
               \/ ping' = ping
  BY Zenon DEF update, _verify_binding
<1>2. Sound(bs) /\ \A d : Lists(bs, d) => Lists(buckets, d)
  BY Zenon, RoomSound DEF TableInv
<1> HIDE DEF bs
<1>3. i \in 1 .. Len(bs) /\ InRange(c.id, bs[i])
  BY Zenon, <1>2, TargetFound DEF Sound
<1> HIDE DEF i
<1>4. CASE /\ HasRoom(bs[i], c) /\ ping' = ping
           /\ buckets' = [bs EXCEPT ![i].contacts = Touched(@, c)]
  <2>1. Sound(buckets') /\ \A d : Lists(buckets', d) => Lists(bs, d) \/ d = c
    BY Zenon, <1>1, <1>2, <1>3, <1>4, PutAtEnd
  <2>2. \A d : Lists(buckets', d) /\ d.id \in revoked_nodes' => d \in racing'
    BY Zenon, <1>1, <1>2, <2>1 DEF TableInv
  <2>3. (ping \in [oldest : Contact, contact : Contact] \cup {NoPing})'
    BY Zenon, <1>4 DEF TableInv
  <2>4. ping' # NoPing =>
          ping'.contact.id # local_id /\ (ping'.contact.id \in revoked_nodes' => ping'.contact \in racing')
    BY Zenon, <1>1, <1>4 DEF TableInv
  <2>5. Sound(buckets)'
    BY ONLY Zenon, <2>1 DEF Sound, Joined, Fits, InRange, Bucket
  <2>6. (\A d : Lists(buckets, d) /\ d.id \in revoked_nodes => d \in racing)'
    BY ONLY Zenon, <2>2 DEF Lists, Contains
  <2> QED
    BY Zenon, <2>3, <2>4, <2>5, <2>6 DEF TableInv
<1>5. CASE /\ buckets' = bs /\ ~HasRoom(bs[i], c)
           /\ \/ ping' = [oldest |-> Head(bs[i].contacts), contact |-> c]
              \/ ping' = ping
  <2>1. Head(bs[i].contacts) \in Contact
    <3>1. bs[i].contacts \in Seq(Contact)
      BY Zenon, <1>2, <1>3, SoundBucket
    <3>2. ~(Len(bs[i].contacts) < K) /\ K \in Nat /\ K # 0
      BY Zenon, <1>5, TableAssumption DEF HasRoom
    <3>3. Len(bs[i].contacts) \in Nat /\ Len(bs[i].contacts) # 0
      BY <3>1, <3>2
    <3> QED
      BY <3>1, <3>3
  <2>2. (ping \in [oldest : Contact, contact : Contact] \cup {NoPing})'
    BY <1>5, <2>1 DEF TableInv
  <2>3. ping' # NoPing =>
          ping'.contact.id # local_id /\ (ping'.contact.id \in revoked_nodes' => ping'.contact \in racing')
    BY <1>1, <1>5 DEF TableInv
  <2>4. \A d : Lists(buckets', d) /\ d.id \in revoked_nodes' => d \in racing'
    BY Zenon, <1>1, <1>2, <1>5 DEF TableInv
  <2>5. Sound(buckets)'
    BY ONLY Zenon, <1>2, <1>5 DEF Sound, Joined, Fits, InRange, Bucket
  <2>6. (\A d : Lists(buckets, d) /\ d.id \in revoked_nodes => d \in racing)'
    BY ONLY Zenon, <2>4 DEF Lists, Contains
  <2> QED
    BY Zenon, <2>2, <2>3, <2>5, <2>6 DEF TableInv
<1> QED
  BY ONLY Zenon, <1>1, <1>4, <1>5

(* revoke_node() keeps it too: it only takes contacts out, and records the *)
(* update that is waiting.                                                 *)
LEMMA RevokeStep ==
  ASSUME TableInv, NEW id, revoke_node(id)
  PROVE  TableInv'
<1> DEFINE S == {c \in Contact : c.id # id}
           Left(b) == [b EXCEPT !.contacts = Only(@, S)]
<1>1. /\ revoked_nodes' = revoked_nodes \cup {id} /\ ping' = ping
      /\ buckets' = [i \in 1 .. Len(buckets) |-> Left(buckets[i])]
      /\ racing' = racing \cup {c \in Contact : c.id = id /\ ping # NoPing /\ ping.contact = c}
  BY Zenon DEF revoke_node
<1>2. Sound(buckets) /\ buckets \in Seq(Bucket) /\ Len(buckets) \in Nat
  BY DEF TableInv, Sound, Joined
<1>3. \A c \in S : c.id # id
  BY Zenon
<1> HIDE DEF S
<1>4. ASSUME NEW b \in Bucket, Fits(b)
      PROVE  /\ Left(b) \in Bucket /\ Fits(Left(b))
             /\ Left(b).range_min = b.range_min /\ Left(b).range_max = b.range_max
             /\ \A c : Contains(Left(b).contacts, c) => Contains(b.contacts, c) /\ c.id # id
  <2> DEFINE t == Only(b.contacts, S)
  <2>1. b.contacts \in Seq(Contact) /\ IsInjective(b.contacts) /\ Len(b.contacts) <= K
    BY Zenon, <1>4 DEF Bucket, Fits
  <2>2. /\ t \in Seq(Contact) /\ Len(t) <= Len(b.contacts) /\ IsInjective(t)
        /\ \A k \in 1 .. Len(t) : t[k] \in S /\ \E j \in 1 .. Len(b.contacts) : t[k] = b.contacts[j]
    BY <2>1, OnlySome
  <2>3. /\ Left(b) \in Bucket /\ Left(b).contacts = t
        /\ Left(b).range_min = b.range_min /\ Left(b).range_max = b.range_max
    BY Zenon, <2>2 DEF Bucket
  <2> HIDE DEF t, Left
  <2>4. Len(t) <= K
    <3>1. Len(t) \in Nat /\ Len(b.contacts) \in Nat /\ K \in Nat
      BY <2>1, <2>2, TableAssumption
    <3> QED
      BY ONLY <2>1, <2>2, <3>1
  <2>5. Fits(Left(b))
    BY Zenon, <1>4, <2>2, <2>3, <2>4 DEF Fits, InRange
  <2>6. \A c : Contains(t, c) => Contains(b.contacts, c) /\ c.id # id
    BY Zenon, <1>3, <2>2 DEF Contains
  <2> QED
    BY Zenon, <2>3, <2>5, <2>6
<1> DEFINE new == [i \in 1 .. Len(buckets) |-> Left(buckets[i])]
<1>5. \A i \in 1 .. Len(buckets) : buckets[i] \in Bucket /\ Fits(buckets[i])
  BY Zenon, <1>2, SoundBucket
<1> HIDE DEF Left
<1>6. new \in Seq(Bucket) /\ Len(new) = Len(buckets) /\ \A i \in 1 .. Len(buckets) : new[i] = Left(buckets[i])
  BY <1>2, <1>4, <1>5
<1> HIDE DEF new
<1>7. Joined(new)
  <2>1. Joined(buckets)
    BY Zenon, <1>2 DEF Sound
  <2>2. /\ 1 \in 1 .. Len(buckets) /\ Len(buckets) \in 1 .. Len(buckets)
        /\ \A j \in 1 .. Len(buckets) : j > 1 => j - 1 \in 1 .. Len(buckets)
    BY <1>2, <2>1 DEF Joined
  <2>3. \A i \in 1 .. Len(buckets) :
          new[i].range_min = buckets[i].range_min /\ new[i].range_max = buckets[i].range_max
    BY Zenon, <1>4, <1>5, <1>6
  <2> QED
    BY ONLY Zenon, <1>6, <2>1, <2>2, <2>3 DEF Joined
<1>8. Sound(new)
  BY Zenon, <1>4, <1>5, <1>6, <1>7 DEF Sound
<1>9. \A c : Lists(new, c) => Lists(buckets, c) /\ c.id # id
  BY <1>4, <1>5, <1>6 DEF Lists
<1>10. buckets' = new
  BY Zenon, <1>1 DEF new
<1>11. Sound(buckets)'
  BY ONLY Zenon, <1>8, <1>10 DEF Sound, Joined, Fits, InRange, Bucket
<1>12. \A d : Lists(new, d) /\ d.id \in revoked_nodes' => d \in racing'
  BY Zenon, <1>1, <1>9 DEF TableInv
<1>13. (\A d : Lists(buckets, d) /\ d.id \in revoked_nodes => d \in racing)'
  BY ONLY Zenon, <1>10, <1>12 DEF Lists, Contains
<1>14. (ping \in [oldest : Contact, contact : Contact] \cup {NoPing})'
  BY Zenon, <1>1 DEF TableInv
<1>15. ping' # NoPing =>
         ping'.contact.id # local_id /\ (ping'.contact.id \in revoked_nodes' => ping'.contact \in racing')
  BY Zenon, <1>1 DEF TableInv
<1> QED
  BY Zenon, <1>11, <1>13, <1>14, <1>15 DEF TableInv

(* The end of a ping: the oldest contact moves to the end, or leaves for   *)
(* the contact whose update waited.                                        *)
LEMMA PingStep ==
  ASSUME TableInv, PingAnswered \/ PingTimesOut \/ OldestGone
  PROVE  TableInv'
<1> DEFINE i == Waiting
           s == buckets[i].contacts
           o == ping.oldest
           c == ping.contact
<1>1. ping # NoPing /\ ping' = NoPing /\ UNCHANGED <<revoked_nodes, racing>>
  BY Zenon DEF PingAnswered, PingTimesOut, OldestGone, PingEnds
<1>2. /\ Sound(buckets) /\ o \in Contact /\ c \in Contact /\ c.id # local_id
      /\ c.id \in revoked_nodes => c \in racing
  BY Zenon, <1>1 DEF TableInv
<1>3. i \in 1 .. Len(buckets) /\ InRange(c.id, buckets[i])
  BY Zenon, <1>2, TargetFound DEF Sound, Waiting
<1> HIDE DEF i, o, c
<1>4. s \in Seq(Contact) /\ IsInjective(s) /\ Len(s) <= K /\ Fits(buckets[i])
  BY Zenon, <1>2, <1>3, SoundBucket DEF Fits
<1>5. Sound(buckets') /\ \A d : Lists(buckets', d) => Lists(buckets, d) \/ d = c
  <2>1. CASE OldestGone
    BY Zenon, <1>2, <2>1 DEF OldestGone
  <2>2. CASE PingAnswered
    <3>1. Contains(s, o) /\ buckets' = [buckets EXCEPT ![i].contacts = Touched(@, o)]
      BY Zenon, <2>2 DEF PingAnswered, i, o
    <3>2. HasRoom(buckets[i], o) /\ InRange(o.id, buckets[i]) /\ o.id # local_id /\ Lists(buckets, o)
      BY Zenon, <1>3, <1>4, <3>1 DEF HasRoom, Contains, Fits, Lists
    <3> QED
      BY Zenon, <1>2, <1>3, <3>1, <3>2, PutAtEnd
  <2>3. CASE PingTimesOut
    <3> DEFINE left == RemoveFirst(s, o)
               b == [buckets[i] EXCEPT !.contacts = left]
               t == IF HasRoom(b, c) THEN Touched(left, c) ELSE left
    <3>1. Contains(s, o) /\ buckets' = [buckets EXCEPT ![i].contacts = t]
      BY Zenon, <2>3 DEF PingTimesOut, i, o, c
    <3>2. /\ left \in Seq(Contact) /\ IsInjective(left) /\ Len(left) + 1 = Len(s)
          /\ \A k \in 1 .. Len(left) : \E j \in 1 .. Len(s) : left[k] = s[j]
      BY <1>4, <3>1, FirstRemoved
    <3>3. HasRoom(b, c) <=> Contains(left, c) \/ Len(left) < K
      <4>1. b.contacts = left
        <5>1. buckets[i] \in Bucket
          BY Zenon, <1>2, <1>3, SoundBucket
        <5> HIDE DEF left
        <5> QED
          BY Zenon, <5>1 DEF Bucket
      <4> QED
        BY Zenon, <4>1 DEF HasRoom
    <3>4. Len(left) <= K
      <4>1. Len(left) \in Nat /\ Len(s) \in Nat /\ K \in Nat
        BY <1>4, <3>2, TableAssumption
      <4> HIDE DEF left, s
      <4> QED
        BY ONLY <1>4, <3>2, <4>1
    <3> HIDE DEF left, b, s
    <3>5. /\ t \in Seq(Contact) /\ Len(t) <= K /\ IsInjective(t)
          /\ \A k \in 1 .. Len(t) : t[k] = c \/ \E j \in 1 .. Len(s) : t[k] = s[j]
      <4>1. CASE HasRoom(b, c)
        <5>1. /\ Touched(left, c) \in Seq(Contact) /\ Len(Touched(left, c)) <= K /\ IsInjective(Touched(left, c))
              /\ \A k \in 1 .. Len(Touched(left, c)) :
                   Touched(left, c)[k] = c \/ \E j \in 1 .. Len(left) : Touched(left, c)[k] = left[j]
          BY Zenon, <1>2, <3>2, <3>3, <3>4, <4>1, TouchedFits
        <5> QED
          BY <3>2, <4>1, <5>1
      <4>2. CASE ~HasRoom(b, c)
        BY Zenon, <3>2, <3>4, <4>2
      <4> QED
        BY Zenon, <4>1, <4>2
    <3> HIDE DEF t
    <3>6. \A k \in 1 .. Len(t) : InRange(t[k].id, buckets[i]) /\ t[k].id # local_id
      BY Zenon, <1>2, <1>3, <1>4, <3>5 DEF Fits, s
    <3>7. Sound(buckets') /\ \A d : Lists(buckets', d) => Lists(buckets, d) \/ Contains(t, d)
      BY Zenon, <1>2, <1>3, <3>1, <3>5, <3>6, ContactsPut
    <3>8. \A d : Contains(t, d) => Contains(s, d) \/ d = c
      BY Zenon, <3>5 DEF Contains
    <3>9. \A d : Contains(s, d) => Lists(buckets, d)
      BY Zenon, <1>3 DEF Lists, s
    <3> QED
      BY Zenon, <3>7, <3>8, <3>9
  <2> QED
    BY Zenon, <2>1, <2>2, <2>3
<1>6. Sound(buckets)'
  BY ONLY Zenon, <1>5 DEF Sound, Joined, Fits, InRange, Bucket
<1>7. \A d : Lists(buckets', d) /\ d.id \in revoked_nodes' => d \in racing'
  BY Zenon, <1>1, <1>2, <1>5 DEF TableInv
<1>8. (\A d : Lists(buckets, d) /\ d.id \in revoked_nodes => d \in racing)'
  BY ONLY Zenon, <1>7 DEF Lists, Contains
<1> QED
  BY Zenon, <1>1, <1>6, <1>8 DEF TableInv

(* Every step keeps the invariant.                                         *)
LEMMA TableStep == TableInv /\ [TableNext]_tableVars => TableInv'
<1> SUFFICES ASSUME TableInv, [TableNext]_tableVars PROVE TableInv'
  BY Zenon
<1>1. CASE UNCHANGED tableVars
  BY Zenon, <1>1 DEF tableVars, TableInv, Sound, Joined, Fits, InRange, Lists, Contains
<1> QED
  BY Zenon, <1>1, UpdateStep, RevokeStep, PingStep DEF TableNext

(* The table starts with one empty bucket.                                 *)
LEMMA TableStarts == TableInit => TableInv
<1> SUFFICES ASSUME TableInit PROVE TableInv
  BY Zenon
<1> DEFINE b == KBucket(0, 2^Bits, <<>>)
<1>1. buckets = <<b>> /\ ping = NoPing /\ revoked_nodes = {}
  BY Zenon DEF TableInit
<1>2. b \in Bucket /\ b.range_min = 0 /\ b.range_max = 2^Bits /\ b.contacts = <<>>
  BY TableAssumption DEF Bucket, KBucket
<1> HIDE DEF b
<1>3. Fits(b)
  BY <1>2, TableAssumption DEF Fits, IsInjective
<1>4. Sound(buckets)
  BY <1>1, <1>2, <1>3 DEF Sound, Joined
<1> QED
  BY Zenon, <1>1, <1>4 DEF TableInv

(* For identifiers of any length, any bucket size and any contacts: the    *)
(* ranges of the buckets stay without a gap, and every bucket holds at     *)
(* most K different contacts that belong there, whatever is received,      *)
(* revoked or evicted while an eviction waits for its ping.                *)
THEOREM TableIsSound == TableSpec => []BucketsSound
<1>1. TableInv => BucketsSound
  <2> SUFFICES ASSUME TableInv PROVE BucketsSound
    BY Zenon
  <2>1. Sound(buckets) /\ Joined(buckets) /\ Len(buckets) \in Nat
    BY DEF TableInv, Sound, Joined
  <2>2. /\ buckets[1].range_min = 0 /\ buckets[Len(buckets)].range_max = 2^Bits
        /\ \A i \in 2 .. Len(buckets) : buckets[i].range_min = buckets[i - 1].range_max + 1
    BY <2>1 DEF Joined
  <2>3. ASSUME NEW i \in 1 .. Len(buckets)
        PROVE  /\ Len(buckets[i].contacts) <= K /\ IsInjective(buckets[i].contacts)
               /\ \A c \in ToSet(buckets[i].contacts) : InRange(c.id, buckets[i]) /\ c.id # local_id
    <3>1. buckets[i].contacts \in Seq(Contact) /\ Fits(buckets[i])
      BY Zenon, <2>1, SoundBucket
    <3>2. DOMAIN buckets[i].contacts = 1 .. Len(buckets[i].contacts)
      BY <3>1
    <3> QED
      BY Zenon, <3>1, <3>2 DEF Fits, ToSet
  <2> QED
    BY Zenon, <2>2, <2>3 DEF BucketsSound
<1> QED
  BY <1>1, TableStarts, TableStep, PTL DEF TableSpec

(* And a revoked node is in the table only if its update was waiting for a *)
(* ping when it was revoked.                                               *)
THEOREM RevokedStayOut == TableSpec => []RevokedOnlyByRace
<1>1. TableInv => RevokedOnlyByRace
  <2> SUFFICES ASSUME TableInv, NEW c \in Held, c.id \in revoked_nodes PROVE c \in racing
    BY Zenon DEF RevokedOnlyByRace
  <2>1. PICK i \in 1 .. Len(buckets) : c \in ToSet(buckets[i].contacts)
    BY Zenon DEF Held
  <2>2. buckets[i].contacts \in Seq(Contact)
    BY Zenon, SoundBucket DEF TableInv
  <2>3. Contains(buckets[i].contacts, c)
    BY <2>1, <2>2 DEF ToSet, Contains
  <2>4. Lists(buckets, c)
    BY Zenon, <2>3 DEF Lists
  <2> QED
    BY Zenon, <2>4 DEF TableInv
<1> QED
  BY <1>1, TableStarts, TableStep, PTL DEF TableSpec
=============================================================================
