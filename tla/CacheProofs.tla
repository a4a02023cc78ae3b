---------------------------- MODULE CacheProofs ----------------------------
(***************************************************************************)
(* Proofs about the three caches of cache.rs, for any keys and values and  *)
(* any capacity: the maps, lists and counts that each cache keeps agree    *)
(* with each other after every operation, and each cache evicts what its   *)
(* policy says.                                                            *)
(***************************************************************************)
EXTENDS Caches, FiniteSetTheorems, SequenceTheorems, WellFoundedInduction, TLAPS

(* A set of numbers that is not empty has a least element.                 *)
LEMMA LeastExists ==
  ASSUME NEW T \in SUBSET Nat, T # {}
  PROVE  \E x \in T : \A y \in T : x <= y
<1> DEFINE R == OpToRel(<, Nat)
<1>1. IsWellFoundedOn(R, Nat)
  BY NatLessThanWellFounded
<1>2. \A x, y \in Nat : y < x => <<y, x>> \in R
  BY DEF OpToRel
<1> HIDE DEF R
<1>3. PICK x \in T : \A y \in T : ~(<<y, x>> \in R)
  BY <1>1, WFMin
<1>4. \A y \in T : y \in Nat /\ x \in Nat /\ ~(y < x)
  BY <1>2, <1>3
<1> QED BY <1>4

(* A map with one key more, or one less.                                   *)
LEMMA HeldAdd ==
  ASSUME NEW m, NEW S, m \in [Keys -> S], NEW k \in Keys, NEW x, x # None
  PROVE  Held([m EXCEPT ![k] = x]) = Held(m) \cup {k}
BY DEF Held

LEMMA HeldDrop ==
  ASSUME NEW m, NEW S, m \in [Keys -> S], NEW k \in Keys
  PROVE  Held([m EXCEPT ![k] = None]) = Held(m) \ {k}
BY DEF Held
(* The sequence without its element number p.                              *)
Dropped(q, p) == [i \in 1 .. Len(q) - 1 |-> IF i < p THEN q[i] ELSE q[i + 1]]

(* A sequence that goes on where another one ends.                         *)
LEMMA IsAppend ==
  ASSUME NEW K, NEW n \in Nat, NEW s \in [1..n -> K], NEW t \in [1 .. n + 1 -> K],
         \A i \in 1..n : t[i] = s[i]
  PROVE  t = Append(s, t[n + 1])
<1>1. s \in Seq(K) /\ t \in Seq(K) /\ Len(s) = n /\ Len(t) = n + 1
  OBVIOUS
<1>2. t[n + 1] \in K
  OBVIOUS
<1>3. Append(s, t[n + 1]) \in Seq(K) /\ Len(Append(s, t[n + 1])) = n + 1
  BY <1>1, <1>2
<1>4. \A i \in 1 .. n + 1 : Append(s, t[n + 1])[i] = t[i]
  BY <1>1, <1>2
<1> QED BY <1>1, <1>3, <1>4, SeqEqual

(* retain drops the one place that holds the key: the recursion of retain  *)
(* has one solution, and this is it.                                       *)
LEMMA RetainDrops ==
  ASSUME NEW K, NEW q \in Seq(K), NEW p \in 1..Len(q), NEW k,
         \A i \in 1..Len(q) : q[i] = k <=> i = p
  PROVE  retain(q, k) = Dropped(q, p)
<1> DEFINE N == Len(q)
           Low(n) == [i \in 1..n |-> q[i]]
           High(n) == [i \in 1 .. n - 1 |-> IF i < p THEN q[i] ELSE q[i + 1]]
           G == [n \in 0..N |-> IF n < p THEN Low(n) ELSE High(n)]
           Rec(f) == [n \in 0..N |-> IF n = 0 THEN <<>>
                                     ELSE IF q[n] = k THEN f[n - 1] ELSE Append(f[n - 1], q[n])]
           F == CHOOSE f : f = Rec(f)
<1>1. N \in Nat /\ p \in Nat /\ 1 <= p /\ p <= N
  OBVIOUS
<1>2. retain(q, k) = F[N]
  BY DEF retain
<1>3. \A n \in 1..N : q[n] \in K /\ (q[n] = k <=> n = p)
  OBVIOUS
<1>4. High(N) = Dropped(q, p)
  BY DEF Dropped
<1> HIDE DEF N
<1>5. Low(0) = <<>>
  OBVIOUS
<1>6. High(p) = Low(p - 1)
  BY <1>1
<1>7. ASSUME NEW n \in 1..N
      PROVE  Low(n) = Append(Low(n - 1), q[n])
  <2>1. n - 1 \in Nat /\ (n - 1) + 1 = n
    BY <1>1
  <2>2. Low(n - 1) \in [1 .. n - 1 -> K] /\ Low(n) \in [1..n -> K]
    BY <1>1, <1>3
  <2>3. Low(n)[n] = q[n] /\ \A i \in 1 .. n - 1 : Low(n)[i] = Low(n - 1)[i]
    BY <1>1
  <2> HIDE DEF Low
  <2>4. Low(n) = Append(Low(n - 1), Low(n)[(n - 1) + 1])
    BY <2>1, <2>2, <2>3, IsAppend
  <2> QED BY <2>1, <2>3, <2>4
<1>8. ASSUME NEW n \in 1..N, n > p
      PROVE  High(n) = Append(High(n - 1), q[n])
  <2>1. n - 2 \in Nat /\ (n - 2) + 1 = n - 1 /\ (n - 1) - 1 = n - 2
    BY <1>1, <1>8
  <2>2. High(n - 1) \in [1 .. n - 2 -> K] /\ High(n) \in [1 .. n - 1 -> K]
    BY <1>1, <1>3, <1>8
  <2>3. High(n)[n - 1] = q[n] /\ \A i \in 1 .. n - 2 : High(n)[i] = High(n - 1)[i]
    BY <1>1, <1>8
  <2> HIDE DEF High
  <2>4. High(n) = Append(High(n - 1), High(n)[(n - 2) + 1])
    BY <2>1, <2>2, <2>3, IsAppend
  <2> QED BY <2>1, <2>3, <2>4
<1> HIDE DEF Low, High
<1>9. ASSUME NEW n \in 0..N
      PROVE  G[n] = IF n = 0 THEN <<>> ELSE IF q[n] = k THEN G[n - 1] ELSE Append(G[n - 1], q[n])
  <2>1. G[n] = IF n < p THEN Low(n) ELSE High(n)
    OBVIOUS
  <2>2. n # 0 => n \in 1..N /\ n - 1 \in 0..N /\ G[n - 1] = IF n - 1 < p THEN Low(n - 1) ELSE High(n - 1)
    BY <1>1
  <2> HIDE DEF G
  <2>3. CASE n = 0
    BY <1>1, <1>5, <2>1, <2>3
  <2>4. CASE n # 0 /\ n < p
    <3>1. n \in 1..N /\ n - 1 < p /\ q[n] # k
      BY <1>1, <1>3, <2>2, <2>4
    <3>2. Low(n) = Append(Low(n - 1), q[n])
      BY <1>7, <3>1
    <3>3. G[n] = Low(n) /\ G[n - 1] = Low(n - 1)
      BY <2>1, <2>2, <2>4, <3>1
    <3> QED BY <2>4, <3>1, <3>2, <3>3
  <2>5. CASE n = p
    BY <1>1, <1>3, <1>6, <2>1, <2>2, <2>5
  <2>6. CASE n > p
    <3>1. n # 0 /\ n \in 1..N /\ ~(n < p) /\ ~(n - 1 < p) /\ q[n] # k
      BY <1>1, <1>3, <2>2, <2>6
    <3>2. High(n) = Append(High(n - 1), q[n])
      BY <1>8, <2>6, <3>1
    <3>3. G[n] = High(n) /\ G[n - 1] = High(n - 1)
      BY <2>1, <2>2, <3>1
    <3> QED BY <3>1, <3>2, <3>3
  <2> QED BY <1>1, <2>3, <2>4, <2>5, <2>6
<1>10. G = Rec(G)
  <2>1. G = [n \in 0..N |-> G[n]]
    OBVIOUS
  <2> HIDE DEF G
  <2> QED BY <1>9, <2>1
<1>11. F = Rec(F)
  BY <1>10
<1>12. ASSUME NEW n \in 0..N
       PROVE  F[n] = IF n = 0 THEN <<>> ELSE IF q[n] = k THEN F[n - 1] ELSE Append(F[n - 1], q[n])
  <2>1. PICK f : f = F
    OBVIOUS
  <2>2. f = Rec(f)
    BY <1>11, <2>1
  <2> HIDE DEF F
  <2>3. f[n] = IF n = 0 THEN <<>> ELSE IF q[n] = k THEN f[n - 1] ELSE Append(f[n - 1], q[n])
    BY <2>2
  <2> QED BY <2>1, <2>3
<1>13. \A n \in 0..N : F[n] = G[n]
  <2> HIDE DEF F, G
  <2> DEFINE Bad == {n \in 0..N : F[n] # G[n]}
  <2> SUFFICES ASSUME Bad # {} PROVE FALSE
    OBVIOUS
  <2>1. Bad \in SUBSET Nat
    BY <1>1
  <2>2. \E n \in Bad : \A m \in Bad : n <= m
    <3> HIDE DEF Bad
    <3> QED BY <2>1, LeastExists
  <2>3. PICK n \in Bad : \A m \in Bad : n <= m
    BY <2>2
  <2>4. n \in 0..N /\ n # 0 /\ F[n] # G[n]
    BY <1>9, <1>12
  <2>5. n - 1 \in 0..N /\ n \in 0..N /\ ~(n <= n - 1)
    BY <1>1, <2>4
  <2>6. F[n - 1] = G[n - 1]
    BY <2>3, <2>5
  <2> QED BY <1>9, <1>12, <2>4, <2>5, <2>6
<1>14. G[N] = High(N)
  BY <1>1
<1> HIDE DEF F, G
<1> QED BY <1>1, <1>2, <1>4, <1>13, <1>14

(* The sequence q holds the members of S, each once.                       *)
Lists(q, S) ==
  /\ q \in Seq(S)
  /\ \A i, j \in 1..Len(q) : q[i] = q[j] => i = j
  /\ \A x \in S : \E i \in 1..Len(q) : q[i] = x

LEMMA ListsCount ==
  ASSUME NEW q, NEW S, Lists(q, S)
  PROVE  IsFiniteSet(S) /\ Cardinality(S) = Len(q)
<1>1. q \in [1..Len(q) -> S] /\ Len(q) \in Nat
  BY DEF Lists
<1>2. q \in Bijection(1..Len(q), S)
  BY <1>1 DEF Lists, Bijection, Injection, Surjection, IsInjective
<1>3. ExistsBijection(1..Len(q), S)
  BY <1>2 DEF ExistsBijection
<1>4. IsFiniteSet(1..Len(q)) /\ Cardinality(1..Len(q)) = Len(q)
  <2>1. 1 \in Int /\ Len(q) \in Int
    BY <1>1
  <2>2. /\ IsFiniteSet(1..Len(q))
        /\ Cardinality(1..Len(q)) = IF 1 > Len(q) THEN 0 ELSE Len(q) - 1 + 1
    BY <2>1, FS_Interval, Zenon
  <2> QED BY <1>1, <2>2
<1> QED BY <1>3, <1>4, FS_Bijection

LEMMA ListsNothing == Lists(<<>>, {})
BY DEF Lists

LEMMA ListsAppend ==
  ASSUME NEW q, NEW S, Lists(q, S), NEW x, x \notin S
  PROVE  Lists(Append(q, x), S \cup {x})
<1> DEFINE T == S \cup {x}
           r == Append(q, x)
<1>1. q \in Seq(T) /\ x \in T /\ Len(q) \in Nat
  BY SeqMonotonic DEF Lists
<1>2. r \in Seq(T) /\ Len(r) = Len(q) + 1 /\ r[Len(q) + 1] = x /\ \A i \in 1..Len(q) : r[i] = q[i]
  BY <1>1
<1>3. \A i \in 1..Len(q) : q[i] \in S
  BY DEF Lists
<1> HIDE DEF r
<1>4. \A i, j \in 1..Len(r) : r[i] = r[j] => i = j
  <2> SUFFICES ASSUME NEW i \in 1..Len(r), NEW j \in 1..Len(r), r[i] = r[j]
               PROVE  i = j
    OBVIOUS
  <2>1. CASE i \in 1..Len(q) /\ j \in 1..Len(q)
    BY <1>2, <2>1 DEF Lists
  <2>2. CASE i \notin 1..Len(q) \/ j \notin 1..Len(q)
    BY <1>1, <1>2, <1>3, <2>2
  <2> QED BY <2>1, <2>2
<1>5. \A y \in T : \E i \in 1..Len(r) : r[i] = y
  <2> SUFFICES ASSUME NEW y \in T PROVE \E i \in 1..Len(r) : r[i] = y
    OBVIOUS
  <2>1. CASE y = x
    BY <1>1, <1>2, <2>1
  <2>2. CASE y \in S
    <3>1. PICK i \in 1..Len(q) : q[i] = y
      BY <2>2 DEF Lists
    <3> QED BY <1>1, <1>2, <3>1
  <2> QED BY <2>1, <2>2
<1> QED BY <1>2, <1>4, <1>5 DEF Lists, r

LEMMA ListsDropped ==
  ASSUME NEW q, NEW S, Lists(q, S), NEW p \in 1..Len(q)
  PROVE  /\ Lists(Dropped(q, p), S \ {q[p]})
         /\ Len(Dropped(q, p)) = Len(q) - 1
<1> DEFINE N == Len(q)
           T == S \ {q[p]}
           r == Dropped(q, p)
           at(i) == IF i < p THEN i ELSE i + 1
<1>1. N \in Nat /\ p \in 1..N /\ \A i, j \in 1..N : q[i] = q[j] => i = j
  BY DEF Lists
<1>2. \A i \in 1..N : q[i] \in S
  BY DEF Lists
<1>3. \A i \in 1 .. N - 1 : at(i) \in 1..N /\ at(i) # p
  BY <1>1
<1>4. \A i, j \in 1 .. N - 1 : at(i) = at(j) => i = j
  BY <1>1
<1>5. \A i \in 1..N : i # p => \E j \in 1 .. N - 1 : at(j) = i
  <2> SUFFICES ASSUME NEW i \in 1..N, i # p PROVE \E j \in 1 .. N - 1 : at(j) = i
    OBVIOUS
  <2>1. CASE i < p
    BY <1>1, <2>1
  <2>2. CASE i > p
    <3>1. i - 1 \in 1 .. N - 1 /\ at(i - 1) = i
      BY <1>1, <2>2
    <3> QED BY <3>1
  <2> QED BY <1>1, <2>1, <2>2
<1>6. r = [i \in 1 .. N - 1 |-> q[at(i)]]
  BY DEF Dropped
<1> HIDE DEF N, at, r
<1>7. \A i \in 1 .. N - 1 : r[i] = q[at(i)] /\ r[i] \in T
  <2> SUFFICES ASSUME NEW i \in 1 .. N - 1 PROVE r[i] = q[at(i)] /\ r[i] \in T
    OBVIOUS
  <2>1. r[i] = q[at(i)] /\ at(i) \in 1..N /\ at(i) # p
    BY <1>3, <1>6
  <2> QED BY <1>1, <1>2, <2>1
<1>8. r \in [1 .. N - 1 -> T]
  BY <1>6, <1>7
<1>9. r \in Seq(T) /\ Len(r) = N - 1
  <2>1. N - 1 \in Nat
    BY <1>1
  <2> QED BY <1>8, <2>1
<1>10. \A i, j \in 1 .. N - 1 : r[i] = r[j] => i = j
  BY <1>1, <1>3, <1>4, <1>7
<1>11. \A x \in T : \E i \in 1 .. N - 1 : r[i] = x
  <2> SUFFICES ASSUME NEW x \in T PROVE \E i \in 1 .. N - 1 : r[i] = x
    OBVIOUS
  <2>1. PICK i \in 1..N : q[i] = x
    BY DEF Lists, N
  <2>2. i # p
    BY <2>1
  <2>3. PICK j \in 1 .. N - 1 : at(j) = i
    BY <1>5, <2>2
  <2> QED BY <1>7, <2>1, <2>3
<1> QED BY <1>9, <1>10, <1>11 DEF Lists, r, N

LEMMA ListsRetain ==
  ASSUME NEW q, NEW S, Lists(q, S), NEW x \in S
  PROVE  Lists(retain(q, x), S \ {x})
<1>1. PICK p \in 1..Len(q) : q[p] = x
  BY DEF Lists
<1>2. \A i \in 1..Len(q) : q[i] = x <=> i = p
  BY <1>1 DEF Lists
<1>3. retain(q, x) = Dropped(q, p)
  BY <1>2, RetainDrops DEF Lists
<1> QED BY <1>1, <1>3, ListsDropped

LEMMA ListsTail ==
  ASSUME NEW q, NEW S, Lists(q, S), q # <<>>
  PROVE  /\ Head(q) \in S /\ Lists(Tail(q), S \ {Head(q)})
         /\ Len(Tail(q)) = Len(q) - 1 /\ Len(q) \in Nat \ {0}
<1>1. q \in Seq(S) /\ Len(q) \in Nat \ {0}
  BY EmptySeq DEF Lists
<1>2. Head(q) = q[1] /\ q[1] \in S /\ 1 \in 1..Len(q)
  BY <1>1
<1>3. Tail(q) = Dropped(q, 1)
  <2>1. Tail(q) \in Seq(S) /\ Len(Tail(q)) = Len(q) - 1 /\ \A i \in 1..Len(Tail(q)) : Tail(q)[i] = q[i + 1]
    BY <1>1, HeadTailProperties
  <2>2. Dropped(q, 1) \in Seq(S) /\ Len(Dropped(q, 1)) = Len(q) - 1
    <3>1. Lists(Dropped(q, 1), S \ {q[1]}) /\ Len(Dropped(q, 1)) = Len(q) - 1
      BY <1>2, ListsDropped
    <3>2. Dropped(q, 1) \in Seq(S \ {q[1]})
      BY <3>1 DEF Lists
    <3> QED BY <3>1, <3>2, SeqMonotonic
  <2>3. \A i \in 1 .. Len(q) - 1 : Dropped(q, 1)[i] = q[i + 1]
    BY <1>1 DEF Dropped
  <2> QED BY <2>1, <2>2, <2>3, SeqEqual
<1> QED BY <1>1, <1>2, <1>3, ListsDropped
-----------------------------------------------------------------------------
(* The LFU cache.                                                          *)

(* f is the inverse of the counts in the map m.                            *)
Exact(f, m) ==
  /\ \A n \in DOMAIN f : f[n] # {} /\ f[n] = {k \in Held(m) : m[k].freq = n}
  /\ \A k \in Held(m) : m[k].freq \in DOMAIN f

LfuMap == [Keys -> Entry \cup {None}]

(* increment_freq, put's eviction and invalidate take a key out of both.   *)
LEMMA RemovedExact ==
  ASSUME NEW f, NEW m \in LfuMap, Exact(f, m), NEW k \in Held(m)
  PROVE  /\ Exact(removed(f, k, m[k].freq), [m EXCEPT ![k] = None])
         /\ [m EXCEPT ![k] = None] \in LfuMap
<1> DEFINE n == m[k].freq
           g == removed(f, k, n)
           o == [m EXCEPT ![k] = None]
<1>1. k \in Keys /\ o \in LfuMap
  BY DEF Held, LfuMap
<1>2. Held(o) = Held(m) \ {k}
  BY <1>1, HeldDrop DEF LfuMap
<1>3. \A j \in Held(o) : o[j] = m[j] /\ j # k
  BY <1>1, <1>2 DEF Held, LfuMap
<1>4. DOMAIN g = {i \in DOMAIN f : i = n => f[i] # {k}}
  BY DEF removed
<1>5. \A i \in DOMAIN g : g[i] = IF i = n THEN f[i] \ {k} ELSE f[i]
  BY DEF removed
<1>6. n \in DOMAIN f /\ \A i \in DOMAIN f : f[i] # {} /\ f[i] = {j \in Held(m) : m[j].freq = i}
  BY DEF Exact
<1> HIDE DEF n, g, o
<1>7. ASSUME NEW i \in DOMAIN g
      PROVE  g[i] # {} /\ g[i] = {j \in Held(o) : o[j].freq = i}
  <2>1. {j \in Held(o) : o[j].freq = i} = {j \in Held(m) : m[j].freq = i} \ {k}
    BY <1>2, <1>3
  <2>2. i \in DOMAIN f /\ f[i] # {} /\ f[i] = {j \in Held(m) : m[j].freq = i}
    BY <1>4, <1>6
  <2>3. i # n => k \notin f[i]
    BY <2>2 DEF n
  <2>4. g[i] = f[i] \ {k}
    BY <1>5, <2>3
  <2>5. g[i] # {}
    BY <1>4, <1>5, <2>2, <2>3
  <2> QED BY <2>1, <2>2, <2>4, <2>5
<1>8. ASSUME NEW j \in Held(o)
      PROVE  o[j].freq \in DOMAIN g
  <2>1. j \in Held(m) /\ j # k /\ o[j].freq = m[j].freq
    BY <1>2, <1>3
  <2>2. m[j].freq \in DOMAIN f /\ j \in f[m[j].freq]
    BY <1>6, <2>1 DEF Exact
  <2>3. f[m[j].freq] # {k}
    BY <2>1, <2>2
  <2> QED BY <1>4, <2>1, <2>2, <2>3
<1>9. Exact(g, o)
  BY <1>7, <1>8 DEF Exact
<1> QED BY <1>1, <1>9 DEF g, o, n

(* put, and increment_freq, enter a key that is in neither.                *)
LEMMA InsertedExact ==
  ASSUME NEW f, NEW m \in LfuMap, Exact(f, m), NEW k \in Keys, m[k] = None, NEW e \in Entry
  PROVE  /\ Exact(inserted(f, k, e.freq), [m EXCEPT ![k] = e])
         /\ [m EXCEPT ![k] = e] \in LfuMap
<1> DEFINE n == e.freq
           g == inserted(f, k, n)
           o == [m EXCEPT ![k] = e]
<1>1. o \in LfuMap /\ e # None
  BY EntryAssumption DEF LfuMap
<1>2. Held(o) = Held(m) \cup {k} /\ k \notin Held(m)
  BY <1>1, HeldAdd DEF LfuMap, Held
<1>3. o[k] = e /\ \A j \in Held(m) : o[j] = m[j]
  BY <1>2 DEF Held, LfuMap
<1>4. DOMAIN g = DOMAIN f \cup {n}
  BY DEF inserted
<1>5. \A i \in DOMAIN g : g[i] = (IF i \in DOMAIN f THEN f[i] ELSE {}) \cup {j \in {k} : i = n}
  BY DEF inserted
<1>6. /\ \A i \in DOMAIN f : f[i] # {} /\ f[i] = {j \in Held(m) : m[j].freq = i}
      /\ \A j \in Held(m) : m[j].freq \in DOMAIN f
  BY DEF Exact
<1>7. n = o[k].freq
  BY <1>3
<1> HIDE DEF n, g, o
<1>8. ASSUME NEW i \in DOMAIN g
      PROVE  g[i] # {} /\ g[i] = {j \in Held(o) : o[j].freq = i}
  <2>1. (IF i \in DOMAIN f THEN f[i] ELSE {}) = {j \in Held(m) : m[j].freq = i}
    BY <1>6
  <2>2. {j \in Held(o) : o[j].freq = i} = {j \in Held(m) : m[j].freq = i} \cup {j \in {k} : i = n}
    BY <1>2, <1>3, <1>7
  <2>3. g[i] # {}
    BY <1>4, <1>5, <1>6
  <2> QED BY <1>5, <2>1, <2>2, <2>3
<1>9. ASSUME NEW j \in Held(o)
      PROVE  o[j].freq \in DOMAIN g
  BY <1>2, <1>3, <1>4, <1>6, <1>7
<1>10. Exact(g, o)
  BY <1>8, <1>9 DEF Exact
<1> QED BY <1>1, <1>10 DEF g, o, n

(* The inductive invariant: the map is finite, which the keys need not be. *)
LfuInv ==
  /\ lfu_map \in LfuMap /\ Exact(freqs, lfu_map)
  /\ IsFiniteSet(Held(lfu_map)) /\ Cardinality(Held(lfu_map)) <= Capacity

(* What put may evict is in the map, and nothing in it was used less.      *)
LEMMA VictimsLeast ==
  ASSUME LfuInv, Held(lfu_map) # {}, NEW old \in Victims
  PROVE  old \in Held(lfu_map) /\ \A j \in Held(lfu_map) : lfu_map[old].freq <= lfu_map[j].freq
<1> DEFINE D == DOMAIN freqs
           n == CHOOSE n \in D : \A m \in D : n <= m
<1>1. /\ \A i \in D : freqs[i] # {} /\ freqs[i] = {k \in Held(lfu_map) : lfu_map[k].freq = i}
      /\ \A k \in Held(lfu_map) : lfu_map[k].freq \in D
  BY DEF LfuInv, Exact
<1>2. \A k \in Held(lfu_map) : lfu_map[k].freq \in Nat
  BY CapacityAssumption DEF LfuInv, LfuMap, Held, Entry
<1>3. D \in SUBSET Nat /\ D # {}
  BY <1>1, <1>2
<1> HIDE DEF D
<1>4. \E x \in D : \A y \in D : x <= y
  BY <1>3, LeastExists
<1>5. n \in D /\ \A m \in D : n <= m
  BY <1>4
<1>6. old \in freqs[n]
  BY DEF Victims, D
<1> HIDE DEF n
<1>7. old \in Held(lfu_map) /\ lfu_map[old].freq = n
  BY <1>1, <1>5, <1>6
<1> QED BY <1>1, <1>5, <1>7

LEMMA LfuStart ==
  ASSUME LfuInit
  PROVE  LfuInv
<1>1. Held(lfu_map) = {}
  BY DEF LfuInit, Absent, Held
<1>2. lfu_map \in LfuMap /\ DOMAIN freqs = {}
  BY DEF LfuInit, Absent, LfuMap
<1>3. Exact(freqs, lfu_map)
  BY <1>1, <1>2 DEF Exact
<1> QED BY <1>1, <1>2, <1>3, FS_EmptySet, CapacityAssumption DEF LfuInv

(* A use leaves the keys as they are, with one count raised.               *)
LEMMA LfuUsed ==
  ASSUME LfuInv, NEW k \in Keys, NEW v \in Values, lfu_map[k] # None, increment_freq(k, v)
  PROVE  LfuInv' /\ Held(lfu_map') = Held(lfu_map)
<1> DEFINE n == lfu_map[k].freq
           e == [value |-> v, freq |-> n + 1]
           m == [lfu_map EXCEPT ![k] = None]
<1>1. k \in Held(lfu_map) /\ lfu_map \in LfuMap
  BY DEF Held, LfuInv
<1>2. Exact(removed(freqs, k, n), m) /\ m \in LfuMap
  BY <1>1, RemovedExact DEF LfuInv
<1>3. n \in Nat /\ n < MaxFreq
  BY <1>1 DEF increment_freq, LfuMap, Entry
<1>4. e \in Entry /\ e.freq = n + 1
  BY <1>3, CapacityAssumption DEF Entry
<1>5. m[k] = None
  BY <1>1 DEF LfuMap
<1>6. freqs' = inserted(removed(freqs, k, n), k, e.freq)
  BY <1>4 DEF increment_freq
<1>7. lfu_map' = [m EXCEPT ![k] = e]
  BY <1>1 DEF increment_freq, LfuMap
<1> HIDE DEF m, e, n
<1>8. Exact(freqs', lfu_map') /\ lfu_map' \in LfuMap
  BY <1>2, <1>4, <1>5, <1>6, <1>7, InsertedExact
<1>9. Held(lfu_map') = Held(lfu_map)
  BY <1>1, <1>4, <1>7, <1>2, HeldAdd, HeldDrop, EntryAssumption DEF m, LfuMap
<1> QED BY <1>8, <1>9 DEF LfuInv

LEMMA LfuRoom ==
  ASSUME LfuInv, NEW k \in Keys, NEW v \in Values, LfuPutRoom(k, v)
  PROVE  LfuInv' /\ Held(lfu_map') = Held(lfu_map) \cup {k}
<1> DEFINE e == [value |-> v, freq |-> 1]
<1>1. e \in Entry /\ e.freq = 1 /\ e # None
  BY CapacityAssumption, EntryAssumption DEF Entry
<1>2. lfu_map[k] = None /\ lfu_map' = [lfu_map EXCEPT ![k] = e] /\ freqs' = inserted(freqs, k, e.freq)
  BY DEF LfuPutRoom
<1> HIDE DEF e
<1>3. Exact(freqs', lfu_map') /\ lfu_map' \in LfuMap
  BY <1>1, <1>2, InsertedExact DEF LfuInv
<1>4. Held(lfu_map') = Held(lfu_map) \cup {k} /\ k \notin Held(lfu_map)
  BY <1>1, <1>2, HeldAdd DEF LfuInv, LfuMap, Held
<1>5. IsFiniteSet(Held(lfu_map')) /\ Cardinality(Held(lfu_map')) = Cardinality(Held(lfu_map)) + 1
  BY <1>4, FS_AddElement DEF LfuInv
<1>6. Cardinality(Held(lfu_map)) < Capacity /\ Cardinality(Held(lfu_map)) \in Nat
  BY FS_CardinalityType DEF LfuPutRoom, LfuInv
<1> QED BY <1>3, <1>4, <1>5, <1>6, CapacityAssumption DEF LfuInv

LEMMA LfuDropped ==
  ASSUME LfuInv, NEW k \in Keys, LfuInvalidate(k)
  PROVE  LfuInv'
<1>1. k \in Held(lfu_map)
  BY DEF LfuInvalidate, Held
<1>2. Exact(freqs', lfu_map') /\ lfu_map' \in LfuMap
  BY <1>1, RemovedExact DEF LfuInv, LfuInvalidate
<1>3. Held(lfu_map') = Held(lfu_map) \ {k}
  BY HeldDrop DEF LfuInv, LfuMap, LfuInvalidate
<1>4. IsFiniteSet(Held(lfu_map')) /\ Cardinality(Held(lfu_map')) = Cardinality(Held(lfu_map)) - 1
  BY <1>1, <1>3, FS_RemoveElement DEF LfuInv
<1>5. Cardinality(Held(lfu_map)) \in Nat
  BY FS_CardinalityType DEF LfuInv
<1> QED BY <1>2, <1>4, <1>5, CapacityAssumption DEF LfuInv

(* An eviction: the victim leaves, then the new key enters.                *)
LEMMA LfuReplaced ==
  ASSUME LfuInv, NEW k \in Keys, NEW v \in Values, LfuPutEvict(k, v)
  PROVE  /\ LfuInv'
         /\ \E old \in Held(lfu_map) :
              /\ \A j \in Held(lfu_map) : lfu_map[old].freq <= lfu_map[j].freq
              /\ \A j \in Held(lfu_map) : j # old => lfu_map'[j] = lfu_map[j]
<1> DEFINE e == [value |-> v, freq |-> 1]
<1>1. e \in Entry /\ e.freq = 1 /\ e # None
  BY CapacityAssumption, EntryAssumption DEF Entry
<1>2. lfu_map[k] = None /\ Cardinality(Held(lfu_map)) >= Capacity
  BY DEF LfuPutEvict
<1>3. PICK old \in Victims :
        /\ lfu_map' = [lfu_map EXCEPT ![old] = None, ![k] = e]
        /\ freqs' = inserted(removed(freqs, old, lfu_map[old].freq), k, e.freq)
  BY <1>1 DEF LfuPutEvict
<1> HIDE DEF e
<1>4. Held(lfu_map) # {}
  BY <1>2, FS_EmptySet, CapacityAssumption
<1>5. old \in Held(lfu_map) /\ \A j \in Held(lfu_map) : lfu_map[old].freq <= lfu_map[j].freq
  BY <1>4, VictimsLeast
<1>6. old \in Keys /\ old # k /\ k \notin Held(lfu_map)
  BY <1>2, <1>5 DEF Held
<1> DEFINE m == [lfu_map EXCEPT ![old] = None]
           f == removed(freqs, old, lfu_map[old].freq)
<1>7. Exact(f, m) /\ m \in LfuMap
  BY <1>5, RemovedExact DEF LfuInv
<1>8. m[k] = None /\ Held(m) = Held(lfu_map) \ {old}
  BY <1>2, <1>6, HeldDrop DEF LfuInv, LfuMap
<1>9. lfu_map' = [m EXCEPT ![k] = e]
  BY <1>3, <1>6 DEF LfuInv, LfuMap
<1>10. \A j \in Held(lfu_map) : j # old => lfu_map'[j] = lfu_map[j]
  BY <1>6, <1>9 DEF Held, LfuInv, LfuMap
<1>11. freqs' = inserted(f, k, e.freq)
  BY <1>3
<1> HIDE DEF m, f
<1>12. Exact(freqs', lfu_map') /\ lfu_map' \in LfuMap
  BY <1>1, <1>11, <1>7, <1>8, <1>9, InsertedExact
<1>13. Held(lfu_map') = Held(m) \cup {k} /\ k \notin Held(m)
  BY <1>1, <1>6, <1>7, <1>8, <1>9, HeldAdd DEF LfuMap
<1>14. IsFiniteSet(Held(m)) /\ Cardinality(Held(m)) = Cardinality(Held(lfu_map)) - 1
  BY <1>5, <1>8, FS_RemoveElement DEF LfuInv
<1>15. IsFiniteSet(Held(lfu_map')) /\ Cardinality(Held(lfu_map')) = Cardinality(Held(m)) + 1
  BY <1>13, <1>14, FS_AddElement
<1>16. Cardinality(Held(lfu_map)) \in Nat
  BY FS_CardinalityType DEF LfuInv
<1>17. LfuInv'
  BY <1>12, <1>14, <1>15, <1>16, CapacityAssumption DEF LfuInv
<1> QED BY <1>5, <1>10, <1>17

LfuEvicts ==
  \A k \in Held(lfu_map) : lfu_map'[k] = None =>
    \/ LfuInvalidate(k)
    \/ /\ Cardinality(Held(lfu_map)) = Capacity
       /\ \A j \in Held(lfu_map) :
            lfu_map[k].freq <= lfu_map[j].freq /\ (j # k => lfu_map'[j] = lfu_map[j])

LEMMA LfuStep ==
  ASSUME LfuInv, LfuNext
  PROVE  LfuInv' /\ LfuEvicts
<1>1. PICK k \in Keys :
        \/ LfuGet(k) \/ LfuInvalidate(k)
        \/ \E v \in Values : LfuPutHit(k, v) \/ LfuPutRoom(k, v) \/ LfuPutEvict(k, v)
  BY DEF LfuNext
<1>2. CASE LfuGet(k)
  <2>1. lfu_map[k] # None /\ lfu_map[k].value \in Values
    BY <1>2 DEF LfuGet, LfuInv, LfuMap, Entry
  <2>2. LfuInv' /\ Held(lfu_map') = Held(lfu_map)
    BY <1>2, <2>1, LfuUsed DEF LfuGet
  <2> QED BY <2>2 DEF LfuEvicts, Held
<1>3. CASE LfuInvalidate(k)
  <2>1. LfuInv'
    BY <1>3, LfuDropped
  <2>2. \A j \in Held(lfu_map) : lfu_map'[j] = None => j = k
    BY <1>3 DEF LfuInvalidate, Held, LfuInv, LfuMap
  <2> QED BY <1>3, <2>1, <2>2 DEF LfuEvicts
<1>4. ASSUME NEW v \in Values, LfuPutHit(k, v)
      PROVE  LfuInv' /\ LfuEvicts
  <2>1. LfuInv' /\ Held(lfu_map') = Held(lfu_map)
    BY <1>4, LfuUsed DEF LfuPutHit
  <2> QED BY <2>1 DEF LfuEvicts, Held
<1>5. ASSUME NEW v \in Values, LfuPutRoom(k, v)
      PROVE  LfuInv' /\ LfuEvicts
  <2>1. LfuInv' /\ Held(lfu_map') = Held(lfu_map) \cup {k}
    BY <1>5, LfuRoom
  <2> QED BY <2>1 DEF LfuEvicts, Held
<1>6. ASSUME NEW v \in Values, LfuPutEvict(k, v)
      PROVE  LfuInv' /\ LfuEvicts
  <2>1. LfuInv'
    BY <1>6, LfuReplaced
  <2>2. PICK old \in Held(lfu_map) :
          /\ \A j \in Held(lfu_map) : lfu_map[old].freq <= lfu_map[j].freq
          /\ \A j \in Held(lfu_map) : j # old => lfu_map'[j] = lfu_map[j]
    BY <1>6, LfuReplaced
  <2>3. Cardinality(Held(lfu_map)) = Capacity
    <3>1. Cardinality(Held(lfu_map)) \in Nat /\ Cardinality(Held(lfu_map)) <= Capacity
      BY FS_CardinalityType DEF LfuInv
    <3> QED BY <1>6, <3>1, CapacityAssumption DEF LfuPutEvict
  <2>4. \A j \in Held(lfu_map) : lfu_map'[j] = None => j = old
    BY <2>2 DEF Held
  <2> QED BY <2>1, <2>2, <2>3, <2>4 DEF LfuEvicts
<1> QED BY <1>1, <1>2, <1>3, <1>4, <1>5, <1>6

LEMMA LfuFacts ==
  ASSUME LfuInv
  PROVE  LfuTypeOK /\ LfuCountsExact
<1>1. LfuCountsExact
  BY DEF LfuInv, Exact, LfuCountsExact
<1>2. \A k \in Held(lfu_map) : k \in Keys /\ lfu_map[k].freq \in 1..MaxFreq
  BY DEF LfuInv, LfuMap, Held, Entry
<1>3. ASSUME NEW n \in DOMAIN freqs
      PROVE  n \in 1..MaxFreq /\ freqs[n] \subseteq Keys
  <2>1. freqs[n] # {} /\ freqs[n] = {k \in Held(lfu_map) : lfu_map[k].freq = n}
    BY <1>1 DEF LfuCountsExact
  <2> QED BY <1>2, <2>1
<1> QED BY <1>1, <1>3 DEF LfuInv, LfuMap, LfuTypeOK

LEMMA LfuInductive == Spec => []LfuInv
<1>1. Init => LfuInv
  BY LfuStart DEF Init
<1>2. LfuInv /\ [Next]_vars => LfuInv'
  <2> SUFFICES ASSUME LfuInv, [Next]_vars PROVE LfuInv'
    OBVIOUS
  <2>1. CASE LfuNext
    BY <2>1, LfuStep
  <2>2. CASE UNCHANGED lfu
    BY <2>2 DEF lfu, LfuInv
  <2> QED BY <2>1, <2>2 DEF Next, vars
<1> QED BY <1>1, <1>2, PTL DEF Spec

(* The LFU cache never holds more keys than its capacity.                  *)
THEOREM LfuTyped == Spec => []LfuTypeOK
BY LfuInductive, LfuFacts, PTL

(* The two maps of the LFU cache stay inverse to each other through every  *)
(* get, put and invalidate: put's unwrap() never panics and what it evicts *)
(* is in the cache.                                                        *)
THEOREM LfuCorrect == Spec => []LfuCountsExact
BY LfuInductive, LfuFacts, PTL

(* Nothing is dropped but by invalidate, or one key for a new one when the *)
(* cache is full, and that key was used no more than any other.            *)
THEOREM LfuPolicy == Spec => LfuEvictsLeastUsed
<1>1. LfuInv /\ [Next]_vars => [LfuEvicts]_lfu
  <2> SUFFICES ASSUME LfuInv, [Next]_vars PROVE [LfuEvicts]_lfu
    OBVIOUS
  <2>1. CASE LfuNext
    BY <2>1, LfuStep
  <2>2. CASE UNCHANGED lfu
    BY <2>2
  <2> QED BY <2>1, <2>2 DEF Next, vars
<1>2. Spec => [][LfuEvicts]_lfu
  BY <1>1, LfuInductive, PTL DEF Spec
<1> QED BY <1>2 DEF LfuEvictsLeastUsed, LfuEvicts
-----------------------------------------------------------------------------
(* The FIFO cache.                                                         *)

FifoMap == [Keys -> Values \cup {None}]

(* A put in its loop has found its key missing, and has evicted the first  *)
(* key of a full cache, or nothing yet.                                    *)
FifoLooping ==
  /\ putting.key \in Keys /\ putting.value \in Values
  /\ putting.map \in FifoMap /\ Lists(putting.queue, Held(putting.map))
  /\ putting.map[putting.key] = None /\ fifo_map[putting.key] = None
  /\ \/ fifo_map = putting.map /\ fifo_queue = putting.queue
     \/ /\ Len(putting.queue) = Capacity
        /\ fifo_map = [putting.map EXCEPT ![Head(putting.queue)] = None]
        /\ fifo_queue = Tail(putting.queue)

(* The inductive invariant.                                                *)
FifoInv ==
  /\ fifo_map \in FifoMap /\ Lists(fifo_queue, Held(fifo_map))
  /\ Cardinality(Held(fifo_map)) <= Capacity
  /\ putting # None => FifoLooping

LEMMA FifoStart ==
  ASSUME FifoInit
  PROVE  FifoInv
<1>1. Held(fifo_map) = {} /\ fifo_map \in FifoMap
  BY DEF FifoInit, Absent, Held, FifoMap
<1> QED BY <1>1, ListsNothing, FS_EmptySet, CapacityAssumption DEF FifoInv, FifoInit

(* The queue is as long as the map has keys.                               *)
LEMMA FifoCount ==
  ASSUME FifoInv
  PROVE  /\ IsFiniteSet(Held(fifo_map)) /\ Len(fifo_queue) = Cardinality(Held(fifo_map))
         /\ Len(fifo_queue) \in Nat
BY ListsCount DEF FifoInv, Lists

LEMMA FifoHit ==
  ASSUME FifoInv, NEW k \in Keys, NEW v \in Values, FifoPutHit(k, v)
  PROVE  FifoInv'
<1>1. v # None /\ k \in Held(fifo_map) /\ fifo_map' = [fifo_map EXCEPT ![k] = v]
  BY CapacityAssumption DEF FifoPutHit, Held
<1>2. Held(fifo_map') = Held(fifo_map) \cup {k}
  BY <1>1, HeldAdd DEF FifoInv, FifoMap
<1>3. Held(fifo_map') = Held(fifo_map) /\ fifo_map' \in FifoMap
  BY <1>1, <1>2 DEF FifoInv, FifoMap
<1> QED BY <1>3 DEF FifoInv, FifoPutHit

LEMMA FifoMiss ==
  ASSUME FifoInv, NEW k \in Keys, NEW v \in Values, FifoPutMiss(k, v)
  PROVE  FifoInv'
<1>1. /\ putting'.key = k /\ putting'.value = v /\ putting'.map = fifo_map
      /\ putting'.queue = fifo_queue /\ UNCHANGED <<fifo_map, fifo_queue>> /\ fifo_map[k] = None
  BY DEF FifoPutMiss
<1>2. FifoLooping'
  BY <1>1 DEF FifoLooping, FifoInv
<1> QED BY <1>1, <1>2 DEF FifoInv

(* A round finds the map full, so that it is the first of its put.         *)
LEMMA FifoEvicted ==
  ASSUME FifoInv, FifoPutEvict
  PROVE  FifoInv'
<1>1. putting # None /\ FifoLooping /\ putting' = putting
  BY DEF FifoInv, FifoPutEvict
<1>2. Cardinality(Held(fifo_map)) = Capacity /\ Len(fifo_queue) = Capacity
  BY FifoCount, CapacityAssumption DEF FifoInv, FifoPutEvict, FifoFull
<1>3. fifo_map = putting.map /\ fifo_queue = putting.queue
  <2> SUFFICES ASSUME Len(putting.queue) = Capacity, fifo_queue = Tail(putting.queue)
               PROVE  FALSE
    BY <1>1 DEF FifoLooping
  <2>1. putting.queue # <<>>
    BY CapacityAssumption
  <2>2. Len(fifo_queue) = Capacity - 1
    BY <1>1, <2>1, ListsTail DEF FifoLooping
  <2> QED BY <1>2, <2>2, CapacityAssumption
<1>4. fifo_queue # <<>>
  BY <1>2, CapacityAssumption
<1>5. fifo_map' = [fifo_map EXCEPT ![Head(fifo_queue)] = None] /\ fifo_queue' = Tail(fifo_queue)
  BY <1>4 DEF FifoPutEvict
<1>6. Head(fifo_queue) \in Held(fifo_map) /\ Lists(fifo_queue', Held(fifo_map) \ {Head(fifo_queue)})
  BY <1>4, <1>5, ListsTail DEF FifoInv
<1>7. Head(fifo_queue) \in Keys /\ fifo_map' \in FifoMap
  BY <1>5, <1>6 DEF Held, FifoInv, FifoMap
<1>8. Held(fifo_map') = Held(fifo_map) \ {Head(fifo_queue)}
  BY <1>5, <1>7, HeldDrop DEF FifoInv, FifoMap
<1>9. Cardinality(Held(fifo_map')) <= Capacity
  <2>1. Cardinality(Held(fifo_map')) = Capacity - 1
    BY <1>2, <1>6, <1>8, FifoCount, FS_RemoveElement
  <2> QED BY <2>1, CapacityAssumption
<1>10. fifo_map'[putting.key] = None
  BY <1>1, <1>5, <1>7 DEF FifoLooping, FifoInv, FifoMap
<1>11. FifoLooping'
  BY <1>1, <1>2, <1>3, <1>5, <1>10 DEF FifoLooping
<1> QED BY <1>6, <1>7, <1>8, <1>9, <1>11 DEF FifoInv

LEMMA FifoInserted ==
  ASSUME FifoInv, FifoPutInsert
  PROVE  FifoInv'
<1> DEFINE k == putting.key
           v == putting.value
<1>1. k \in Keys /\ v \in Values /\ v # None /\ fifo_map[k] = None
  BY CapacityAssumption DEF FifoInv, FifoPutInsert, FifoLooping
<1>2. fifo_map' = [fifo_map EXCEPT ![k] = v] /\ fifo_queue' = Append(fifo_queue, k) /\ putting' = None
  BY DEF FifoPutInsert
<1> HIDE DEF k, v
<1>3. Held(fifo_map') = Held(fifo_map) \cup {k} /\ fifo_map' \in FifoMap /\ k \notin Held(fifo_map)
  BY <1>1, <1>2, HeldAdd DEF FifoInv, FifoMap, Held
<1>4. Lists(fifo_queue', Held(fifo_map'))
  <2>1. Lists(fifo_queue, Held(fifo_map))
    BY DEF FifoInv
  <2>2. Lists(Append(fifo_queue, k), Held(fifo_map) \cup {k})
    BY <1>3, <2>1, ListsAppend
  <2> QED BY <1>2, <1>3, <2>2
<1>5. Cardinality(Held(fifo_map')) = Cardinality(Held(fifo_map)) + 1
  BY <1>3, FifoCount, FS_AddElement
<1>6. Cardinality(Held(fifo_map')) <= Capacity
  BY <1>5, FifoCount, CapacityAssumption DEF FifoPutInsert, FifoFull
<1> QED BY <1>2, <1>3, <1>4, <1>6 DEF FifoInv

LEMMA FifoDropped ==
  ASSUME FifoInv, NEW k \in Keys, FifoInvalidate(k)
  PROVE  FifoInv'
<1>1. k \in Held(fifo_map) /\ putting' = None
  BY DEF FifoInvalidate, Held
<1>2. Held(fifo_map') = Held(fifo_map) \ {k} /\ fifo_map' \in FifoMap
  BY HeldDrop DEF FifoInv, FifoMap, FifoInvalidate
<1>3. Lists(fifo_queue', Held(fifo_map'))
  <2>1. Lists(fifo_queue, Held(fifo_map)) /\ fifo_queue' = retain(fifo_queue, k)
    BY DEF FifoInv, FifoInvalidate
  <2>2. Lists(retain(fifo_queue, k), Held(fifo_map) \ {k})
    BY <1>1, <2>1, ListsRetain
  <2> QED BY <1>2, <2>1, <2>2
<1>4. Cardinality(Held(fifo_map')) = Cardinality(Held(fifo_map)) - 1
  BY <1>1, <1>2, FifoCount, FS_RemoveElement
<1>5. Cardinality(Held(fifo_map')) <= Capacity
  BY <1>4, FifoCount, CapacityAssumption DEF FifoInv
<1> QED BY <1>1, <1>2, <1>3, <1>5 DEF FifoInv

LEMMA FifoInductive == Spec => []FifoInv
<1>1. Init => FifoInv
  BY FifoStart DEF Init
<1>2. FifoInv /\ [Next]_vars => FifoInv'
  <2> SUFFICES ASSUME FifoInv, [Next]_vars PROVE FifoInv'
    OBVIOUS
  <2>1. CASE FifoNext
    BY <2>1, FifoHit, FifoMiss, FifoEvicted, FifoInserted, FifoDropped DEF FifoNext, FifoLoop
  <2>2. CASE UNCHANGED fifo
    BY <2>2 DEF fifo, FifoInv, FifoLooping
  <2> QED BY <2>1, <2>2 DEF Next, vars
<1> QED BY <1>1, <1>2, PTL DEF Spec

LEMMA FifoFacts ==
  ASSUME FifoInv
  PROVE  FifoTypeOK /\ FifoQueueIsMap
<1>1. fifo_queue \in Seq(Held(fifo_map)) /\ Held(fifo_map) \subseteq Keys
  BY DEF FifoInv, Lists, Held
<1>2. fifo_queue \in Seq(Keys)
  BY <1>1, SeqMonotonic
<1>3. {fifo_queue[i] : i \in DOMAIN fifo_queue} = Held(fifo_map)
  BY <1>1 DEF FifoInv, Lists
<1> QED BY <1>2, <1>3, FifoCount DEF FifoInv, FifoLooping, FifoTypeOK, FifoQueueIsMap, FifoMap

(* The FIFO cache never holds more keys than its capacity, not even within *)
(* put's loop.                                                             *)
THEOREM FifoTyped == Spec => []FifoTypeOK
BY FifoInductive, FifoFacts, PTL

(* The queue of the FIFO cache holds the keys of its map, each once,       *)
(* between any two rounds of put's loop and after every operation: the     *)
(* loop never finds the queue empty while the map is full.                 *)
THEOREM FifoCorrect == Spec => []FifoQueueIsMap
BY FifoInductive, FifoFacts, PTL

(* What callers see of the map and the queue.                              *)
FifoHeld == IF putting = None THEN fifo_map ELSE putting.map
FifoOrder == IF putting = None THEN fifo_queue ELSE putting.queue

(* The insert that ends a put is the abstract put: with room, or for the   *)
(* key in front.                                                           *)
LEMMA FifoInsertImplements ==
  ASSUME FifoInv, FifoPutInsert
  PROVE  AsFifoQueue!Next
<1> DEFINE k == putting.key
           v == putting.value
<1>1. /\ putting # None /\ FifoLooping /\ k \in Keys /\ v \in Values
      /\ FifoHeld = putting.map /\ FifoOrder = putting.queue /\ FifoHeld[k] = None
  BY DEF FifoInv, FifoPutInsert, FifoLooping, FifoHeld, FifoOrder
<1>2. /\ FifoHeld' = [fifo_map EXCEPT ![k] = v] /\ FifoOrder' = Append(fifo_queue, k)
      /\ Len(fifo_queue) < Capacity
  BY FifoCount, CapacityAssumption DEF FifoPutInsert, FifoFull, FifoHeld, FifoOrder
<1> HIDE DEF k, v
<1>3. CASE fifo_map = putting.map /\ fifo_queue = putting.queue
  <2>1. AsFifoQueue!Insert(k, v)
    BY <1>1, <1>2, <1>3 DEF AsFifoQueue!Insert, FifoHeld, FifoOrder
  <2> QED BY <1>1, <2>1 DEF AsFifoQueue!Next
<1>4. CASE /\ Len(putting.queue) = Capacity
           /\ fifo_map = [putting.map EXCEPT ![Head(putting.queue)] = None]
           /\ fifo_queue = Tail(putting.queue)
  <2> DEFINE first == Head(FifoOrder)
  <2>1. putting.queue # <<>>
    BY <1>4, CapacityAssumption
  <2>2. first \in Held(putting.map)
    BY <1>1, <2>1, ListsTail DEF FifoLooping
  <2>3. first \in Keys /\ first # k
    BY <1>1, <2>2 DEF Held
  <2>4. FifoHeld \in FifoMap
    BY <1>1 DEF FifoLooping
  <2>5. FifoHeld' = [[FifoHeld EXCEPT ![first] = None] EXCEPT ![k] = v]
    BY <1>1, <1>2, <1>4
  <2>6. FifoHeld' = [[FifoHeld EXCEPT ![k] = v] EXCEPT ![first] = None]
    <3> HIDE DEF first
    <3> QED BY <1>1, <2>3, <2>4, <2>5 DEF FifoMap
  <2>7. FifoOrder' = Append(Tail(FifoOrder), k) /\ Len(FifoOrder) = Capacity
    BY <1>1, <1>2, <1>4
  <2>8. AsFifoQueue!Replace(k, v)
    BY <1>1, <2>6, <2>7 DEF AsFifoQueue!Replace, FifoHeld, FifoOrder
  <2> QED BY <1>1, <2>8 DEF AsFifoQueue!Next
<1> QED BY <1>1, <1>3, <1>4 DEF FifoLooping

LEMMA FifoImplements ==
  ASSUME FifoInv, FifoNext
  PROVE  AsFifoQueue!Next \/ UNCHANGED <<FifoHeld, FifoOrder>>
<1>1. ASSUME NEW k \in Keys, FifoInvalidate(k)
      PROVE  AsFifoQueue!Next
  <2>1. AsFifoQueue!Without(k) = retain(fifo_queue, k)
    BY <1>1 DEF FifoInvalidate, AsFifoQueue!Without, AsFifoQueue!retain, retain
  <2>2. AsFifoQueue!Invalidate(k)
    BY <1>1, <2>1 DEF AsFifoQueue!Invalidate, FifoInvalidate
  <2> QED BY <2>2 DEF AsFifoQueue!Next
<1>2. ASSUME NEW k \in Keys, NEW v \in Values, FifoPutHit(k, v)
      PROVE  AsFifoQueue!Next
  <2>1. AsFifoQueue!Overwrite(k, v)
    BY <1>2 DEF AsFifoQueue!Overwrite, AsFifoQueue!Used, FifoPutHit
  <2> QED BY <2>1 DEF AsFifoQueue!Next
<1>3. ASSUME NEW k \in Keys, NEW v \in Values, FifoPutMiss(k, v)
      PROVE  UNCHANGED <<FifoHeld, FifoOrder>>
  BY <1>3 DEF FifoPutMiss, FifoHeld, FifoOrder
<1>4. CASE FifoPutEvict
  BY <1>4 DEF FifoPutEvict, FifoHeld, FifoOrder
<1>5. CASE FifoPutInsert
  BY <1>5, FifoInsertImplements
<1> QED BY <1>1, <1>2, <1>3, <1>4, <1>5 DEF FifoNext, FifoLoop

(* The FIFO cache is a queue ordered by insertion: callers, who see what   *)
(* the mutex lets them see, find the capacity kept, only the key inserted  *)
(* first evicted and only to make room, and each key with the value last   *)
(* put.                                                                    *)
THEOREM FifoRefinement == Spec => ImplementsFifo
<1>1. Init => AsFifoQueue!Init
  BY DEF Init, FifoInit, AsFifoQueue!Init, AsFifoQueue!Absent, Absent
<1>2. FifoInv /\ [Next]_vars =>
        [AsFifoQueue!Next]_<<IF putting = None THEN fifo_map ELSE putting.map,
                             IF putting = None THEN fifo_queue ELSE putting.queue>>
  <2> SUFFICES ASSUME FifoInv, [Next]_vars
               PROVE  AsFifoQueue!Next \/ UNCHANGED <<FifoHeld, FifoOrder>>
    BY DEF FifoHeld, FifoOrder
  <2>1. CASE FifoNext
    BY <2>1, FifoImplements
  <2>2. CASE UNCHANGED fifo
    BY <2>2 DEF fifo, FifoHeld, FifoOrder
  <2> QED BY <2>1, <2>2 DEF Next, vars
<1> QED BY <1>1, <1>2, FifoInductive, PTL DEF Spec, ImplementsFifo, AsFifoQueue!Spec
-----------------------------------------------------------------------------
(* The LRU cache.  First its list: what remove_node and push_front do to   *)
(* the nodes, and to the sequence of slots that the links make up.         *)

(* t has the map, the free list and the data of s; its links may differ.   *)
SameData(s, t) ==
  /\ t \in LruInner /\ t.map = s.map /\ t.free_list = s.free_list
  /\ Len(t.nodes) = Len(s.nodes)
  /\ \A i \in 1..Len(s.nodes) :
       t.nodes[i].key = s.nodes[i].key /\ t.nodes[i].value = s.nodes[i].value

LEMMA NodesTyped ==
  ASSUME NEW s \in LruInner
  PROVE  /\ s.nodes \in Seq(LruNode) /\ Len(s.nodes) \in Nat /\ DOMAIN s.nodes = 1..Len(s.nodes)
         /\ \A i \in 1..Len(s.nodes) : s.nodes[i] \in LruNode
         /\ s.head \in Link /\ s.tail \in Link
<1>1. s.nodes \in Seq(LruNode) /\ s.head \in Link /\ s.tail \in Link
  BY DEF LruInner
<1> QED BY <1>1, LenProperties, ElementOfSeq

(* The fields that remove_node leaves.                                     *)
LEMMA RemoveNodeFields ==
  ASSUME NEW s \in LruInner, NEW idx \in 1..Len(s.nodes)
  PROVE  LET t == remove_node(s, idx)
             prev == s.nodes[idx].prev
             next == s.nodes[idx].next
         IN /\ SameData(s, t)
            /\ t.head = IF prev = None THEN next ELSE s.head
            /\ t.tail = IF next = None THEN prev ELSE s.tail
            /\ \A i \in 1..Len(s.nodes) :
                 /\ t.nodes[i].next = IF i = idx THEN None ELSE IF i = prev THEN next ELSE s.nodes[i].next
                 /\ t.nodes[i].prev = IF i = idx THEN None ELSE IF i = next THEN prev ELSE s.nodes[i].prev
<1> DEFINE prev == s.nodes[idx].prev
           next == s.nodes[idx].next
           N == Len(s.nodes)
           node(i) == [s.nodes[i] EXCEPT !.next = IF i = idx THEN None ELSE IF i = prev THEN next ELSE @,
                                         !.prev = IF i = idx THEN None ELSE IF i = next THEN prev ELSE @]
           b == bypass(s.nodes, idx, prev, next)
           t == remove_node(s, idx)
<1>1. N \in Nat /\ DOMAIN s.nodes = 1..N /\ \A i \in 1..N : s.nodes[i] \in LruNode
  BY NodesTyped
<1>2. prev \in Link /\ next \in Link /\ None \in Link
  BY <1>1 DEF LruNode, Link
<1>3. b = [i \in 1..N |-> node(i)]
  BY <1>1 DEF bypass
<1>4. t = [s EXCEPT !.nodes = b, !.head = IF prev = None THEN next ELSE s.head,
                    !.tail = IF next = None THEN prev ELSE s.tail]
  BY DEF remove_node
<1> HIDE DEF prev, next, b, t
<1>5. ASSUME NEW i \in 1..N
      PROVE  /\ node(i) \in LruNode
             /\ node(i).key = s.nodes[i].key /\ node(i).value = s.nodes[i].value
             /\ node(i).next = IF i = idx THEN None ELSE IF i = prev THEN next ELSE s.nodes[i].next
             /\ node(i).prev = IF i = idx THEN None ELSE IF i = next THEN prev ELSE s.nodes[i].prev
  <2>1. PICK n \in LruNode : n = s.nodes[i]
    BY <1>1
  <2> QED BY <1>2, <2>1 DEF LruNode
<1> HIDE DEF node, N
<1>6. b \in [1..N -> LruNode]
  BY <1>3, <1>5
<1>7. b \in Seq(LruNode) /\ Len(b) = N
  BY <1>1, <1>6
<1>8. /\ t \in LruInner /\ t.map = s.map /\ t.free_list = s.free_list /\ t.nodes = b
      /\ t.head = IF prev = None THEN next ELSE s.head
      /\ t.tail = IF next = None THEN prev ELSE s.tail
  BY <1>2, <1>4, <1>7 DEF LruInner
<1>9. \A i \in 1..N : t.nodes[i] = node(i)
  BY <1>3, <1>8
<1> QED BY <1>5, <1>7, <1>8, <1>9 DEF SameData, t, prev, next, N

(* The fields that push_front leaves.                                      *)
LEMMA PushFrontFields ==
  ASSUME NEW s \in LruInner, NEW idx \in 1..Len(s.nodes), idx \in 1..Capacity
  PROVE  LET t == push_front(s, idx)
         IN /\ SameData(s, t)
            /\ t.head = idx
            /\ t.tail = IF s.tail = None THEN idx ELSE s.tail
            /\ \A i \in 1..Len(s.nodes) :
                 /\ t.nodes[i].next = IF i = idx THEN s.head ELSE s.nodes[i].next
                 /\ t.nodes[i].prev = IF i = idx THEN None ELSE IF i = s.head THEN idx ELSE s.nodes[i].prev
<1> DEFINE N == Len(s.nodes)
           node(i) == [s.nodes[i] EXCEPT !.next = IF i = idx THEN s.head ELSE @,
                                         !.prev = IF i = idx THEN None ELSE IF i = s.head THEN idx ELSE @]
           b == [i \in 1..N |-> node(i)]
           t == push_front(s, idx)
<1>1. N \in Nat /\ DOMAIN s.nodes = 1..N /\ \A i \in 1..N : s.nodes[i] \in LruNode
  BY NodesTyped
<1>2. s.head \in Link /\ s.tail \in Link /\ None \in Link /\ idx \in Link
  BY NodesTyped DEF Link
<1>3. t = [s EXCEPT !.head = idx, !.tail = IF s.tail = None THEN idx ELSE s.tail, !.nodes = b]
  BY <1>1 DEF push_front, precede
<1> HIDE DEF b, t
<1>5. ASSUME NEW i \in 1..N
      PROVE  /\ node(i) \in LruNode
             /\ node(i).key = s.nodes[i].key /\ node(i).value = s.nodes[i].value
             /\ node(i).next = IF i = idx THEN s.head ELSE s.nodes[i].next
             /\ node(i).prev = IF i = idx THEN None ELSE IF i = s.head THEN idx ELSE s.nodes[i].prev
  <2>1. PICK n \in LruNode : n = s.nodes[i]
    BY <1>1
  <2> QED BY <1>2, <2>1 DEF LruNode
<1> HIDE DEF node, N
<1>6. b \in [1..N -> LruNode]
  BY <1>5 DEF b
<1>7. b \in Seq(LruNode) /\ Len(b) = N
  BY <1>1, <1>6
<1>8. /\ t \in LruInner /\ t.map = s.map /\ t.free_list = s.free_list /\ t.nodes = b
      /\ t.head = idx
      /\ t.tail = IF s.tail = None THEN idx ELSE s.tail
  BY <1>2, <1>3, <1>7 DEF LruInner
<1>9. \A i \in 1..N : t.nodes[i] = node(i)
  BY <1>8 DEF b
<1> QED BY <1>5, <1>7, <1>8, <1>9 DEF SameData, t, N

(* The links of s make up the sequence o of slots, from tail to head.      *)
Chain(s, o) ==
  /\ o \in Seq(1..Len(s.nodes))
  /\ \A i, j \in 1..Len(o) : o[i] = o[j] => i = j
  /\ s.tail = IF Len(o) = 0 THEN None ELSE o[1]
  /\ s.head = IF Len(o) = 0 THEN None ELSE o[Len(o)]
  /\ \A i \in 1..Len(o) :
       /\ s.nodes[o[i]].prev = IF i = Len(o) THEN None ELSE o[i + 1]
       /\ s.nodes[o[i]].next = IF i = 1 THEN None ELSE o[i - 1]

(* What a chain says of its places.                                        *)
LEMMA ChainPlaces ==
  ASSUME NEW s, NEW o, Chain(s, o)
  PROVE  /\ Len(o) \in Nat /\ \A i \in 1..Len(o) : o[i] \in 1..Len(s.nodes) /\ o[i] # None
         /\ \A i, j \in 1..Len(o) : o[i] = o[j] <=> i = j
<1>1. o \in Seq(1..Len(s.nodes)) /\ \A i, j \in 1..Len(o) : o[i] = o[j] => i = j
  BY DEF Chain
<1>2. \A i \in 1..Len(o) : o[i] \in 1..Len(s.nodes)
  BY <1>1, ElementOfSeq
<1>3. \A i \in 1..Len(s.nodes) : i \in Nat
  OBVIOUS
<1> QED BY <1>1, <1>2, <1>3, LenProperties, CapacityAssumption

LEMMA DroppedPlaces ==
  ASSUME NEW S, NEW o \in Seq(S), NEW p \in 1..Len(o)
  PROVE  /\ Dropped(o, p) \in Seq(S) /\ Len(Dropped(o, p)) = Len(o) - 1
         /\ \A i \in 1 .. Len(o) - 1 : Dropped(o, p)[i] = IF i < p THEN o[i] ELSE o[i + 1]
<1>1. Len(o) \in Nat /\ Len(o) - 1 \in Nat /\ \A i \in 1..Len(o) : o[i] \in S
  OBVIOUS
<1>2. \A i \in 1 .. Len(o) - 1 : Dropped(o, p)[i] = IF i < p THEN o[i] ELSE o[i + 1]
  BY DEF Dropped
<1>3. Dropped(o, p) \in [1 .. Len(o) - 1 -> S]
  BY <1>1 DEF Dropped
<1>4. ASSUME NEW n \in Nat, NEW f \in [1..n -> S]
      PROVE  f \in Seq(S) /\ Len(f) = n
  OBVIOUS
<1>5. Dropped(o, p) \in Seq(S) /\ Len(Dropped(o, p)) = Len(o) - 1
  BY <1>1, <1>3, <1>4
<1> QED BY <1>2, <1>5

(* remove_node takes one slot out of the chain.                            *)
LEMMA ChainRemove ==
  ASSUME NEW s \in LruInner, NEW o, Chain(s, o), NEW p \in 1..Len(o)
  PROVE  Chain(remove_node(s, o[p]), Dropped(o, p)) /\ SameData(s, remove_node(s, o[p]))
<1> DEFINE N == Len(o)
           idx == o[p]
           t == remove_node(s, idx)
           r == Dropped(o, p)
           prev == IF p = N THEN None ELSE o[p + 1]
           next == IF p = 1 THEN None ELSE o[p - 1]
<1>1. /\ N \in Nat /\ p \in 1..N /\ \A i \in 1..N : o[i] \in 1..Len(s.nodes) /\ o[i] # None
      /\ \A i, j \in 1..N : o[i] = o[j] <=> i = j
  BY ChainPlaces
<1>2. /\ s.tail = IF N = 0 THEN None ELSE o[1]
      /\ s.head = IF N = 0 THEN None ELSE o[N]
      /\ \A i \in 1..N : /\ s.nodes[o[i]].prev = IF i = N THEN None ELSE o[i + 1]
                         /\ s.nodes[o[i]].next = IF i = 1 THEN None ELSE o[i - 1]
  BY DEF Chain
<1>3. s.nodes[idx].prev = prev /\ s.nodes[idx].next = next
  BY <1>2
<1>4. /\ SameData(s, t)
      /\ t.head = IF prev = None THEN next ELSE s.head
      /\ t.tail = IF next = None THEN prev ELSE s.tail
      /\ \A i \in 1..Len(s.nodes) :
           /\ t.nodes[i].next = IF i = idx THEN None ELSE IF i = prev THEN next ELSE s.nodes[i].next
           /\ t.nodes[i].prev = IF i = idx THEN None ELSE IF i = next THEN prev ELSE s.nodes[i].prev
  <2> HIDE DEF prev, next
  <2>1. idx \in 1..Len(s.nodes)
    BY <1>1
  <2> HIDE DEF idx
  <2> QED BY <1>3, <2>1, RemoveNodeFields
<1>5. o \in Seq(1..Len(s.nodes))
  BY DEF Chain
<1>6. /\ r \in Seq(1..Len(s.nodes)) /\ Len(r) = N - 1
      /\ \A i \in 1 .. N - 1 : r[i] = IF i < p THEN o[i] ELSE o[i + 1]
  BY <1>5, DroppedPlaces
<1>7. Len(t.nodes) = Len(s.nodes)
  BY <1>4 DEF SameData
<1> HIDE DEF N, t, r
<1>8. \A i, j \in 1 .. N - 1 : r[i] = r[j] => i = j
  BY <1>1, <1>6
<1>9. t.tail = IF N - 1 = 0 THEN None ELSE r[1]
  BY <1>1, <1>2, <1>4, <1>6
<1>10. t.head = IF N - 1 = 0 THEN None ELSE r[N - 1]
  BY <1>1, <1>2, <1>4, <1>6
<1>11. ASSUME NEW i \in 1 .. N - 1, i < p
       PROVE  /\ t.nodes[r[i]].prev = IF i = N - 1 THEN None ELSE r[i + 1]
              /\ t.nodes[r[i]].next = IF i = 1 THEN None ELSE r[i - 1]
  <2>1. r[i] = o[i] /\ i \in 1..N /\ i # p /\ o[i] # idx /\ o[i] \in 1..Len(s.nodes)
    BY <1>1, <1>6, <1>11
  <2>2. o[i] # prev
    BY <1>1, <1>11, <2>1
  <2>3. o[i] = next <=> i = p - 1
    BY <1>1, <1>11, <2>1
  <2>4. t.nodes[o[i]].next = s.nodes[o[i]].next
    BY <1>4, <2>1, <2>2
  <2>5. t.nodes[o[i]].prev = IF i = p - 1 THEN prev ELSE s.nodes[o[i]].prev
    BY <1>4, <2>1, <2>3
  <2>6. i # 1 => i - 1 \in 1 .. N - 1 /\ r[i - 1] = o[i - 1]
    BY <1>1, <1>6, <1>11
  <2>7. i # N - 1 => i + 1 \in 1 .. N - 1 /\ r[i + 1] = IF i + 1 < p THEN o[i + 1] ELSE o[i + 2]
    BY <1>1, <1>6, <1>11
  <2>8. t.nodes[r[i]].next = IF i = 1 THEN None ELSE r[i - 1]
    BY <1>2, <2>1, <2>4, <2>6
  <2>9. CASE i = p - 1
    BY <1>1, <2>1, <2>5, <2>7, <2>8, <2>9
  <2>10. CASE i # p - 1
    <3>1. i # N /\ i # N - 1 /\ i + 1 < p
      BY <1>1, <1>11, <2>10
    <3> QED BY <1>2, <2>1, <2>5, <2>7, <2>8, <2>10, <3>1
  <2> QED BY <2>9, <2>10
<1>12. ASSUME NEW i \in 1 .. N - 1, ~(i < p)
       PROVE  /\ t.nodes[r[i]].prev = IF i = N - 1 THEN None ELSE r[i + 1]
              /\ t.nodes[r[i]].next = IF i = 1 THEN None ELSE r[i - 1]
  <2>1. r[i] = o[i + 1] /\ i + 1 \in 1..N /\ i + 1 # p /\ o[i + 1] # idx /\ o[i + 1] \in 1..Len(s.nodes)
    BY <1>1, <1>6, <1>12
  <2>2. o[i + 1] # next
    BY <1>1, <1>12, <2>1
  <2>3. o[i + 1] = prev <=> i = p
    BY <1>1, <1>12, <2>1
  <2>4. t.nodes[o[i + 1]].prev = s.nodes[o[i + 1]].prev
    BY <1>4, <2>1, <2>2
  <2>5. t.nodes[o[i + 1]].next = IF i = p THEN next ELSE s.nodes[o[i + 1]].next
    BY <1>4, <2>1, <2>3
  <2>6. i # N - 1 => i + 1 \in 1 .. N - 1 /\ r[i + 1] = o[i + 2]
    BY <1>1, <1>6, <1>12
  <2>7. i # 1 => i - 1 \in 1 .. N - 1 /\ r[i - 1] = IF i - 1 < p THEN o[i - 1] ELSE o[i]
    BY <1>1, <1>6, <1>12
  <2>8. t.nodes[r[i]].prev = IF i = N - 1 THEN None ELSE r[i + 1]
    <3>1. s.nodes[o[i + 1]].prev = IF i + 1 = N THEN None ELSE o[(i + 1) + 1]
      BY <1>2, <2>1
    <3>2. (i + 1 = N <=> i = N - 1) /\ (i + 1) + 1 = i + 2
      BY <1>1
    <3> QED BY <2>1, <2>4, <2>6, <3>1, <3>2
  <2>9. CASE i = p
    <3>1. i # 1 => i - 1 < p
      BY <1>1, <2>9
    <3> QED BY <2>1, <2>5, <2>7, <2>8, <2>9, <3>1
  <2>10. CASE i # p
    <3>1. i # 1 /\ ~(i - 1 < p) /\ i + 1 # 1 /\ (i + 1) - 1 = i
      BY <1>1, <1>12, <2>10
    <3>2. s.nodes[o[i + 1]].next = o[i]
      BY <1>2, <2>1, <3>1
    <3> QED BY <2>1, <2>5, <2>7, <2>8, <2>10, <3>1, <3>2
  <2> QED BY <2>9, <2>10
<1>13. Chain(t, r)
  BY <1>6, <1>7, <1>8, <1>9, <1>10, <1>11, <1>12 DEF Chain
<1> QED BY <1>4, <1>13 DEF t, r

(* push_front puts a slot that is not in the chain at its end.             *)
LEMMA ChainPush ==
  ASSUME NEW s \in LruInner, NEW o, Chain(s, o), NEW idx \in 1..Len(s.nodes), idx \in 1..Capacity,
         \A i \in 1..Len(o) : o[i] # idx
  PROVE  Chain(push_front(s, idx), Append(o, idx)) /\ SameData(s, push_front(s, idx))
<1> DEFINE N == Len(o)
           t == push_front(s, idx)
           r == Append(o, idx)
<1>1. /\ N \in Nat /\ \A i \in 1..N : o[i] \in 1..Len(s.nodes) /\ o[i] # None /\ o[i] # idx
      /\ \A i, j \in 1..N : o[i] = o[j] <=> i = j
  BY ChainPlaces
<1>2. /\ s.tail = IF N = 0 THEN None ELSE o[1]
      /\ s.head = IF N = 0 THEN None ELSE o[N]
      /\ \A i \in 1..N : /\ s.nodes[o[i]].prev = IF i = N THEN None ELSE o[i + 1]
                         /\ s.nodes[o[i]].next = IF i = 1 THEN None ELSE o[i - 1]
  BY DEF Chain
<1>3. /\ SameData(s, t) /\ t.head = idx /\ t.tail = IF s.tail = None THEN idx ELSE s.tail
      /\ \A i \in 1..Len(s.nodes) :
           /\ t.nodes[i].next = IF i = idx THEN s.head ELSE s.nodes[i].next
           /\ t.nodes[i].prev = IF i = idx THEN None ELSE IF i = s.head THEN idx ELSE s.nodes[i].prev
  BY PushFrontFields
<1>4. o \in Seq(1..Len(s.nodes))
  BY DEF Chain
<1>5. /\ r \in Seq(1..Len(s.nodes)) /\ Len(r) = N + 1 /\ r[N + 1] = idx
      /\ \A i \in 1..N : r[i] = o[i]
  BY <1>4
<1>6. Len(t.nodes) = Len(s.nodes) /\ idx # None
  BY <1>3, CapacityAssumption DEF SameData
<1> HIDE DEF N, t, r
<1>7. \A i \in 1 .. N + 1 : i \in 1..N \/ i = N + 1
  BY <1>1
<1>8. \A i, j \in 1 .. N + 1 : r[i] = r[j] => i = j
  BY <1>1, <1>5, <1>7
<1>9. t.tail = r[1] /\ t.head = r[N + 1]
  BY <1>1, <1>2, <1>3, <1>5
<1>10. ASSUME NEW i \in 1..N
       PROVE  /\ t.nodes[r[i]].prev = r[i + 1]
              /\ t.nodes[r[i]].next = IF i = 1 THEN None ELSE r[i - 1]
  <2>1. r[i] = o[i] /\ o[i] # idx /\ (o[i] = s.head <=> i = N) /\ o[i] \in 1..Len(s.nodes)
    BY <1>1, <1>2, <1>5
  <2>2. t.nodes[r[i]].next = IF i = 1 THEN None ELSE r[i - 1]
    <3>1. t.nodes[o[i]].next = s.nodes[o[i]].next
      BY <1>3, <2>1
    <3>2. i # 1 => r[i - 1] = o[i - 1]
      BY <1>1, <1>5
    <3> QED BY <1>2, <2>1, <3>1, <3>2
  <2>3. t.nodes[r[i]].prev = IF i = N THEN idx ELSE o[i + 1]
    <3>1. t.nodes[o[i]].prev = IF i = N THEN idx ELSE s.nodes[o[i]].prev
      BY <1>3, <2>1
    <3> QED BY <1>2, <2>1, <3>1
  <2>4. r[i + 1] = IF i = N THEN idx ELSE o[i + 1]
    BY <1>1, <1>5
  <2> QED BY <2>2, <2>3, <2>4
<1>11. /\ t.nodes[r[N + 1]].prev = None
       /\ t.nodes[r[N + 1]].next = IF N + 1 = 1 THEN None ELSE r[N]
  BY <1>1, <1>2, <1>3, <1>5
<1>12. ASSUME NEW i \in 1 .. N + 1
       PROVE  /\ t.nodes[r[i]].prev = IF i = N + 1 THEN None ELSE r[i + 1]
              /\ t.nodes[r[i]].next = IF i = 1 THEN None ELSE r[i - 1]
  <2>1. CASE i \in 1..N
    <3>1. i # N + 1
      BY <1>1, <2>1
    <3> QED BY <1>10, <2>1, <3>1
  <2>2. CASE i = N + 1
    <3>1. (N + 1) - 1 = N
      BY <1>1
    <3> QED BY <1>11, <2>2, <3>1
  <2> QED BY <1>7, <2>1, <2>2
<1>13. Chain(t, r)
  <2>1. Len(r) # 0
    BY <1>1, <1>5
  <2> QED BY <1>5, <1>6, <1>8, <1>9, <1>12, <2>1 DEF Chain
<1> QED BY <1>3, <1>13 DEF t, r
-----------------------------------------------------------------------------
(* The whole LRU cache.  The witness of its shape is the queue of the keys *)
(* from the least to the most recently used.                               *)

Slots(m, q) == [i \in 1..Len(q) |-> m[q[i]]]

Free(s) == {i \in 1..Len(s.nodes) : \A k \in Held(s.map) : s.map[k] # i}

Ordered(s, q) ==
  /\ s \in LruInner /\ Len(s.nodes) <= Capacity
  /\ Lists(q, Held(s.map))
  /\ \A k \in Held(s.map) : s.map[k] \in 1..Len(s.nodes) /\ s.nodes[s.map[k]].key = k
  /\ Chain(s, Slots(s.map, q))
  /\ Lists(s.free_list, Free(s))

LEMMA SlotsPlaces ==
  ASSUME NEW K, NEW q \in Seq(K), NEW m
  PROVE  /\ Slots(m, q) \in Seq({m[k] : k \in K}) /\ Len(Slots(m, q)) = Len(q)
         /\ \A i \in 1..Len(q) : Slots(m, q)[i] = m[q[i]]
<1>1. Len(q) \in Nat /\ \A i \in 1..Len(q) : q[i] \in K
  OBVIOUS
<1>2. \A i \in 1..Len(q) : Slots(m, q)[i] = m[q[i]]
  BY DEF Slots
<1>3. Slots(m, q) \in [1..Len(q) -> {m[k] : k \in K}]
  BY <1>1 DEF Slots
<1>4. ASSUME NEW S, NEW n \in Nat, NEW f \in [1..n -> S]
      PROVE  f \in Seq(S) /\ Len(f) = n
  OBVIOUS
<1> QED BY <1>1, <1>2, <1>3, <1>4

LEMMA SlotsAppend ==
  ASSUME NEW K, NEW q \in Seq(K), NEW m, NEW k \in K
  PROVE  Slots(m, Append(q, k)) = Append(Slots(m, q), m[k])
<1> DEFINE S == {m[j] : j \in K}
           a == Append(q, k)
<1>1. Len(q) \in Nat /\ a \in Seq(K) /\ Len(a) = Len(q) + 1 /\ a[Len(q) + 1] = k
      /\ \A i \in 1..Len(q) : a[i] = q[i]
  OBVIOUS
<1> HIDE DEF a
<1>2. /\ Slots(m, q) \in Seq(S) /\ Len(Slots(m, q)) = Len(q)
      /\ \A i \in 1..Len(q) : Slots(m, q)[i] = m[q[i]]
  BY SlotsPlaces
<1>3. /\ Slots(m, a) \in Seq(S) /\ Len(Slots(m, a)) = Len(a)
      /\ \A i \in 1..Len(a) : Slots(m, a)[i] = m[a[i]]
  BY <1>1, SlotsPlaces
<1>4. m[k] \in S
  OBVIOUS
<1> DEFINE b == Append(Slots(m, q), m[k])
<1> HIDE DEF S
<1>5. b \in Seq(S) /\ Len(b) = Len(q) + 1 /\ b[Len(q) + 1] = m[k]
      /\ \A i \in 1..Len(q) : b[i] = Slots(m, q)[i]
  BY <1>2, <1>4
<1> HIDE DEF b
<1>6. \A i \in 1..Len(a) : i \in 1..Len(q) \/ i = Len(q) + 1
  BY <1>1
<1>7. \A i \in 1..Len(a) : Slots(m, a)[i] = b[i]
  BY <1>1, <1>2, <1>3, <1>5, <1>6
<1>8. Slots(m, a) = b
  BY <1>1, <1>3, <1>5, <1>7, SeqEqual
<1> QED BY <1>8 DEF a, b

LEMMA SlotsDropped ==
  ASSUME NEW K, NEW q \in Seq(K), NEW m, NEW p \in 1..Len(q)
  PROVE  Slots(m, Dropped(q, p)) = Dropped(Slots(m, q), p)
<1> DEFINE a == Dropped(q, p)
           o == Slots(m, q)
           b == Dropped(o, p)
           c == Slots(m, a)
<1>1. /\ a \in Seq(K) /\ Len(a) = Len(q) - 1 /\ Len(q) \in Nat
      /\ \A i \in 1 .. Len(q) - 1 : a[i] = IF i < p THEN q[i] ELSE q[i + 1]
  BY DroppedPlaces
<1> DEFINE S == {m[k] : k \in K}
<1>2. o \in Seq(S) /\ Len(o) = Len(q) /\ \A i \in 1..Len(q) : o[i] = m[q[i]]
  BY SlotsPlaces
<1> HIDE DEF a, o
<1>3. c \in Seq(S) /\ Len(c) = Len(a) /\ \A i \in 1..Len(a) : c[i] = m[a[i]]
  <2>1. a \in Seq(K)
    BY <1>1
  <2> QED BY <2>1, SlotsPlaces
<1> HIDE DEF c, S
<1>4. /\ b \in Seq(S) /\ Len(b) = Len(o) - 1
      /\ \A i \in 1 .. Len(o) - 1 : b[i] = IF i < p THEN o[i] ELSE o[i + 1]
  BY <1>2, DroppedPlaces
<1> HIDE DEF b
<1>5. \A i \in 1 .. Len(q) - 1 : c[i] = b[i]
  <2> SUFFICES ASSUME NEW i \in 1 .. Len(q) - 1 PROVE c[i] = b[i]
    OBVIOUS
  <2>1. i \in 1..Len(q) /\ i + 1 \in 1..Len(q)
    BY <1>1
  <2>2. c[i] = m[IF i < p THEN q[i] ELSE q[i + 1]]
    BY <1>1, <1>3
  <2>3. b[i] = IF i < p THEN m[q[i]] ELSE m[q[i + 1]]
    BY <1>2, <1>4, <2>1
  <2> QED BY <2>2, <2>3
<1>6. c = b
  BY <1>1, <1>2, <1>3, <1>4, <1>5, SeqEqual
<1> QED BY <1>6 DEF a, b, c, o

(* What Ordered says of a key in place p of the queue.                     *)
LEMMA OrderedPlaces ==
  ASSUME NEW s, NEW q, Ordered(s, q)
  PROVE  /\ Len(q) \in Nat /\ Len(Slots(s.map, q)) = Len(q) /\ Len(s.nodes) \in Nat
         /\ \A i \in 1..Len(q) : /\ q[i] \in Held(s.map) /\ q[i] \in Keys
                                 /\ Slots(s.map, q)[i] = s.map[q[i]]
                                 /\ s.map[q[i]] \in 1..Len(s.nodes) /\ s.map[q[i]] \in 1..Capacity
         /\ \A j, k \in Held(s.map) : s.map[j] = s.map[k] => j = k
         /\ \A k \in Held(s.map) : \E i \in 1..Len(q) : q[i] = k
         /\ \A i, j \in 1..Len(q) : q[i] = q[j] => i = j
<1>1. q \in Seq(Held(s.map)) /\ Len(s.nodes) \in Nat /\ Len(s.nodes) <= Capacity
  BY NodesTyped DEF Ordered, Lists
<1>2. \A k \in Held(s.map) : k \in Keys /\ s.map[k] \in 1..Len(s.nodes) /\ s.nodes[s.map[k]].key = k
  BY DEF Ordered, Held
<1>3. Len(q) \in Nat /\ Len(Slots(s.map, q)) = Len(q) /\ \A i \in 1..Len(q) : Slots(s.map, q)[i] = s.map[q[i]]
  BY <1>1, SlotsPlaces, LenProperties
<1>4. \A i \in 1..Len(q) : q[i] \in Held(s.map)
  BY <1>1, ElementOfSeq
<1>5. \A i \in 1..Len(s.nodes) : i \in 1..Capacity
  BY <1>1, CapacityAssumption
<1>6. \A j, k \in Held(s.map) : s.map[j] = s.map[k] => j = k
  BY <1>2
<1>7. /\ \A k \in Held(s.map) : \E i \in 1..Len(q) : q[i] = k
      /\ \A i, j \in 1..Len(q) : q[i] = q[j] => i = j
  BY DEF Ordered, Lists
<1> QED BY <1>1, <1>2, <1>3, <1>4, <1>5, <1>6, <1>7

(* Links may change as long as the chain is that of some queue.            *)
LEMMA OrderedSame ==
  ASSUME NEW s, NEW q, Ordered(s, q), NEW t, SameData(s, t),
         NEW r, Lists(r, Held(s.map)), Chain(t, Slots(s.map, r))
  PROVE  Ordered(t, r)
<1>1. t.map = s.map /\ Len(t.nodes) = Len(s.nodes) /\ t.free_list = s.free_list /\ t \in LruInner
  BY DEF SameData
<1>2. Free(t) = Free(s)
  BY <1>1 DEF Free
<1>3. \A k \in Held(s.map) : s.map[k] \in 1..Len(s.nodes) /\ t.nodes[s.map[k]].key = k
  BY DEF SameData, Ordered
<1> QED BY <1>1, <1>2, <1>3 DEF Ordered

(* A key goes to the end of the queue.                                     *)
LEMMA ListsMove ==
  ASSUME NEW q, NEW S, Lists(q, S), NEW p \in 1..Len(q)
  PROVE  Lists(Append(Dropped(q, p), q[p]), S)
<1>1. Lists(Dropped(q, p), S \ {q[p]}) /\ q[p] \in S /\ q[p] \notin S \ {q[p]}
  <2>1. Lists(Dropped(q, p), S \ {q[p]})
    BY ListsDropped
  <2>2. q[p] \in S
    BY ElementOfSeq DEF Lists
  <2> QED BY <2>1, <2>2
<1>2. Lists(Append(Dropped(q, p), q[p]), (S \ {q[p]}) \cup {q[p]})
  BY <1>1, ListsAppend
<1>3. (S \ {q[p]}) \cup {q[p]} = S
  BY <1>1
<1> QED BY <1>2, <1>3

(* move_to_front: the slot of a key goes to the end of the chain.          *)
LEMMA UseOrdered ==
  ASSUME NEW s, NEW q, Ordered(s, q), NEW p \in 1..Len(q)
  PROVE  LET t == move_to_front(s, s.map[q[p]])
         IN Ordered(t, Append(Dropped(q, p), q[p])) /\ SameData(s, t)
<1> DEFINE k == q[p]
           idx == s.map[k]
           m == s.map
           o == Slots(m, q)
           t == move_to_front(s, idx)
           r == Append(Dropped(q, p), k)
           N == Len(q)
<1>1. s \in LruInner /\ Chain(s, o) /\ q \in Seq(Held(m)) /\ Lists(q, Held(m))
  BY DEF Ordered, Lists
<1>2. /\ N \in Nat /\ Len(o) = N /\ o[p] = idx /\ k \in Held(m)
      /\ idx \in 1..Len(s.nodes) /\ idx \in 1..Capacity
      /\ \A i \in 1..N : q[i] \in Held(m) /\ o[i] = m[q[i]]
      /\ \A i, j \in 1..N : q[i] = q[j] => i = j
      /\ \A i, j \in Held(m) : m[i] = m[j] => i = j
  BY OrderedPlaces
<1>3. Lists(r, Held(m))
  BY <1>1, ListsMove
<1>4. Slots(m, r) = Append(Dropped(o, p), idx)
  <2>1. Dropped(q, p) \in Seq(Held(m))
    BY <1>1, DroppedPlaces
  <2>2. Slots(m, r) = Append(Slots(m, Dropped(q, p)), m[k])
    BY <1>2, <2>1, SlotsAppend
  <2>3. Slots(m, Dropped(q, p)) = Dropped(o, p)
    BY <1>1, SlotsDropped
  <2> QED BY <2>2, <2>3
<1>5. \A i, j \in 1..N : o[i] = o[j] => i = j
  BY <1>2
<1> HIDE DEF k, idx, o, r, N, m
<1>6. CASE s.head = idx
  <2>1. t = s
    BY <1>6 DEF move_to_front
  <2>2. s.head = o[N] /\ N \in 1..N
    BY <1>1, <1>2 DEF Chain, N
  <2>3. p = N
    BY <1>2, <1>5, <1>6, <2>2 DEF N
  <2>4. r = q
    <3>1. /\ Dropped(q, p) \in Seq(Held(m)) /\ Len(Dropped(q, p)) = N - 1
          /\ \A i \in 1 .. N - 1 : Dropped(q, p)[i] = IF i < p THEN q[i] ELSE q[i + 1]
      BY <1>1, DroppedPlaces DEF N
    <3>2. N - 1 \in Nat /\ (N - 1) + 1 = N /\ k = q[N]
      BY <1>2, <2>2, <2>3 DEF k
    <3>3. \A i \in 1 .. N - 1 : Dropped(q, p)[i] = q[i]
      BY <1>2, <2>3, <3>1
    <3>4. q \in [1..N -> Held(m)] /\ Dropped(q, p) \in [1 .. N - 1 -> Held(m)]
      BY <1>1, <3>1, LenProperties DEF N
    <3>5. q = Append(Dropped(q, p), q[(N - 1) + 1])
      BY <3>2, <3>3, <3>4, IsAppend
    <3> QED BY <3>2, <3>5 DEF r
  <2>5. SameData(s, s)
    BY <1>1 DEF SameData
  <2> QED BY <2>1, <2>4, <2>5 DEF t, r, k, idx
<1>7. CASE s.head # idx
  <2> DEFINE u == remove_node(s, idx)
  <2>1. t = push_front(u, idx)
    BY <1>7 DEF move_to_front
  <2>2. Chain(u, Dropped(o, p)) /\ SameData(s, u)
    BY <1>1, <1>2, ChainRemove DEF N
  <2>3. u \in LruInner /\ idx \in 1..Len(u.nodes)
    BY <1>2, <2>2 DEF SameData
  <2>4. o \in Seq(1..Len(s.nodes)) /\ p \in 1..Len(o)
    BY <1>1, <1>2 DEF Chain, N
  <2>5. \A i \in 1..Len(Dropped(o, p)) : Dropped(o, p)[i] # idx
    <3>1. /\ Len(Dropped(o, p)) = N - 1
          /\ \A i \in 1 .. N - 1 : Dropped(o, p)[i] = IF i < p THEN o[i] ELSE o[i + 1]
      <4>1. /\ Len(Dropped(o, p)) = Len(o) - 1
            /\ \A i \in 1 .. Len(o) - 1 : Dropped(o, p)[i] = IF i < p THEN o[i] ELSE o[i + 1]
        BY <2>4, DroppedPlaces
      <4>2. Len(o) = N
        BY <1>2
      <4> QED BY <4>1, <4>2
    <3> SUFFICES ASSUME NEW i \in 1 .. N - 1 PROVE Dropped(o, p)[i] # idx
      BY <3>1
    <3>2. i \in 1..N /\ i + 1 \in 1..N /\ p \in 1..N
      BY <1>2, <2>4
    <3>3. CASE i < p
      BY <1>2, <1>5, <3>1, <3>2, <3>3
    <3>4. CASE ~(i < p)
      <4>1. i + 1 # p
        BY <1>2, <3>2, <3>4
      <4> QED BY <1>2, <1>5, <3>1, <3>2, <3>4, <4>1
    <3> QED BY <3>3, <3>4
  <2> HIDE DEF u
  <2>6. Chain(t, Append(Dropped(o, p), idx)) /\ SameData(u, t)
    BY <1>2, <2>1, <2>2, <2>3, <2>5, ChainPush
  <2>7. SameData(s, t)
    BY <2>2, <2>6 DEF SameData
  <2>8. Ordered(t, r)
    BY <1>3, <1>4, <2>6, <2>7, OrderedSame DEF m
  <2> QED BY <2>7, <2>8 DEF t, r, k, idx, m
<1> QED BY <1>6, <1>7

(* put on a key that is there: its value changes, its links do not.        *)
LEMMA ValueOrdered ==
  ASSUME NEW s, NEW q, Ordered(s, q), NEW k \in Held(s.map), NEW v \in Values
  PROVE  LET t == [s EXCEPT !.nodes[s.map[k]].value = v]
         IN /\ Ordered(t, q) /\ t.map = s.map /\ Len(t.nodes) = Len(s.nodes)
            /\ \A i \in 1..Len(s.nodes) :
                 t.nodes[i].value = IF i = s.map[k] THEN v ELSE s.nodes[i].value
<1> DEFINE idx == s.map[k]
           t == [s EXCEPT !.nodes[idx].value = v]
           n == s.nodes
           b == [n EXCEPT ![idx] = [n[idx] EXCEPT !.value = v]]
<1>1. /\ s \in LruInner /\ n \in Seq(LruNode) /\ Len(n) \in Nat /\ DOMAIN n = 1..Len(n)
      /\ \A i \in 1..Len(n) : n[i] \in LruNode
  BY NodesTyped DEF Ordered
<1>2. idx \in 1..Len(n)
  BY DEF Ordered
<1>3. t = [s EXCEPT !.nodes = b]
  BY <1>1 DEF LruInner
<1> HIDE DEF idx, t
<1>4. PICK x \in LruNode : x = [n[idx] EXCEPT !.value = v]
  BY <1>1, <1>2 DEF LruNode
<1>5. /\ x.key = n[idx].key /\ x.value = v /\ x.prev = n[idx].prev /\ x.next = n[idx].next
  BY <1>1, <1>2, <1>4 DEF LruNode
<1>6. b \in Seq(LruNode) /\ Len(b) = Len(n) /\ \A i \in 1..Len(n) : b[i] = IF i = idx THEN x ELSE n[i]
  BY <1>1, <1>2, <1>4, ExceptSeq
<1> HIDE DEF b
<1>7. /\ t \in LruInner /\ t.map = s.map /\ t.free_list = s.free_list /\ t.nodes = b
      /\ t.head = s.head /\ t.tail = s.tail
  BY <1>1, <1>3, <1>6 DEF LruInner
<1>8. \A i \in 1..Len(n) : /\ t.nodes[i].key = n[i].key /\ t.nodes[i].prev = n[i].prev
                           /\ t.nodes[i].next = n[i].next
                           /\ t.nodes[i].value = IF i = idx THEN v ELSE n[i].value
  BY <1>5, <1>6, <1>7
<1>9. Free(t) = Free(s)
  BY <1>6, <1>7 DEF Free
<1>10. Chain(t, Slots(s.map, q))
  <2> DEFINE o == Slots(s.map, q)
  <2>1. Chain(s, o)
    BY DEF Ordered
  <2>2. \A i \in 1..Len(o) : o[i] \in 1..Len(n)
    BY <2>1, ChainPlaces
  <2> HIDE DEF o
  <2>3. \A i \in 1..Len(o) : t.nodes[o[i]].prev = n[o[i]].prev /\ t.nodes[o[i]].next = n[o[i]].next
    BY <1>8, <2>2
  <2>4. Len(t.nodes) = Len(s.nodes)
    BY <1>6, <1>7
  <2>5. Chain(t, o)
    BY <1>7, <2>1, <2>3, <2>4 DEF Chain
  <2> QED BY <2>5 DEF o
<1>11. Ordered(t, q)
  BY <1>6, <1>7, <1>8, <1>9, <1>10 DEF Ordered
<1> QED BY <1>6, <1>7, <1>8, <1>11 DEF t, idx

(* evict and invalidate: a key leaves the map and the chain, and its slot  *)
(* goes to the free list.                                                  *)
DropKey(s, k) ==
  [remove_node(s, s.map[k]) EXCEPT !.map = [s.map EXCEPT ![k] = None],
                                   !.free_list = Append(s.free_list, s.map[k])]

LEMMA ChainSame ==
  ASSUME NEW s, NEW o, Chain(s, o),
         NEW t, t.nodes = s.nodes, t.head = s.head, t.tail = s.tail
  PROVE  Chain(t, o)
BY DEF Chain

LEMMA DropOrdered ==
  ASSUME NEW s, NEW q, Ordered(s, q), NEW p \in 1..Len(q), NEW t, t = DropKey(s, q[p])
  PROVE  /\ Ordered(t, Dropped(q, p)) /\ t.map = [s.map EXCEPT ![q[p]] = None]
         /\ Len(t.free_list) = Len(s.free_list) + 1 /\ Len(s.free_list) \in Nat
         /\ Len(t.nodes) = Len(s.nodes)
         /\ \A i \in 1..Len(s.nodes) : t.nodes[i].value = s.nodes[i].value
<1> DEFINE k == q[p]
           m == s.map
           idx == m[k]
           o == Slots(m, q)
           r == Dropped(q, p)
           u == remove_node(s, idx)
           w == [m EXCEPT ![k] = None]
<1>1. s \in LruInner /\ Chain(s, o) /\ q \in Seq(Held(m)) /\ Lists(q, Held(m)) /\ m \in [Keys -> Link]
  BY DEF Ordered, Lists, LruInner
<1>2. /\ Len(o) = Len(q) /\ o[p] = idx /\ k \in Held(m) /\ k \in Keys
      /\ idx \in 1..Len(s.nodes) /\ idx \in 1..Capacity
      /\ \A i, j \in Held(m) : m[i] = m[j] => i = j
  BY OrderedPlaces
<1>3. Lists(s.free_list, Free(s)) /\ s.free_list \in Seq(1..Capacity) /\ Len(s.free_list) \in Nat
  BY <1>1, LenProperties DEF Ordered, LruInner
<1>4. t = [u EXCEPT !.map = w, !.free_list = Append(s.free_list, idx)]
  BY DEF DropKey
<1>5. Held(w) = Held(m) \ {k} /\ w \in [Keys -> Link]
  BY <1>1, <1>2, HeldDrop DEF Link
<1>6. \A j \in Held(w) : w[j] = m[j] /\ j # k /\ j \in Held(m)
  BY <1>1, <1>2, <1>5 DEF Held
<1>7. Lists(r, Held(w))
  BY <1>1, <1>5, ListsDropped
<1>8. Slots(w, r) = Dropped(o, p)
  <2>1. r \in Seq(Held(w))
    BY <1>7 DEF Lists
  <2>2. \A i \in 1..Len(r) : w[r[i]] = m[r[i]]
    BY <1>6, <2>1, ElementOfSeq
  <2>3. Slots(w, r) = Slots(m, r)
    <3> HIDE DEF w, r
    <3> QED BY <2>2 DEF Slots
  <2>4. Slots(m, r) = Dropped(o, p)
    BY <1>1, SlotsDropped
  <2> QED BY <2>3, <2>4
<1>9. Chain(u, Dropped(o, p)) /\ SameData(s, u)
  BY <1>1, <1>2, ChainRemove
<1> HIDE DEF k, idx, m, o, r, u, w
<1>10. /\ t \in LruInner /\ t.map = w /\ t.free_list = Append(s.free_list, idx)
       /\ t.nodes = u.nodes /\ t.head = u.head /\ t.tail = u.tail
  <2>1. u \in LruInner
    BY <1>9 DEF SameData
  <2>2. Append(s.free_list, idx) \in Seq(1..Capacity)
    BY <1>2, <1>3
  <2> QED BY <1>4, <1>5, <2>1, <2>2 DEF LruInner
<1>11. Len(u.nodes) = Len(s.nodes)
       /\ \A i \in 1..Len(s.nodes) : u.nodes[i].key = s.nodes[i].key /\ u.nodes[i].value = s.nodes[i].value
  BY <1>9 DEF SameData
<1>12. Chain(t, Slots(w, r))
  BY <1>8, <1>9, <1>10, ChainSame
<1>13. \A j \in Held(w) : w[j] \in 1..Len(s.nodes) /\ t.nodes[w[j]].key = j
  <2>1. \A j \in Held(m) : m[j] \in 1..Len(s.nodes) /\ s.nodes[m[j]].key = j
    BY DEF Ordered, m
  <2> QED BY <1>6, <1>10, <1>11, <2>1
<1>14. Free(t) = Free(s) \cup {idx} /\ idx \notin Free(s)
  <2>1. Free(t) = {i \in 1..Len(s.nodes) : \A j \in Held(w) : w[j] # i}
    BY <1>10, <1>11 DEF Free
  <2>2. Free(s) = {i \in 1..Len(s.nodes) : \A j \in Held(m) : m[j] # i}
    BY DEF Free, m
  <2>3. \A j \in Held(w) : w[j] # idx
    BY <1>2, <1>6 DEF idx
  <2>4. \A j \in Held(m) : j \in Held(w) \/ j = k
    BY <1>5
  <2> QED BY <1>2, <1>6, <2>1, <2>2, <2>3, <2>4 DEF idx
<1>15. Lists(t.free_list, Free(t))
  BY <1>3, <1>10, <1>14, ListsAppend
<1>16. Len(t.free_list) = Len(s.free_list) + 1
  BY <1>2, <1>3, <1>10
<1>17. Len(s.nodes) <= Capacity
  BY DEF Ordered
<1>18. Ordered(t, r)
  BY <1>7, <1>10, <1>11, <1>12, <1>13, <1>15, <1>17 DEF Ordered
<1> QED BY <1>3, <1>10, <1>11, <1>16, <1>18 DEF r, w, m, k

(* u is s with a node for k in a slot that no key of s has.                *)
Placed(s, u, k, v, idx) ==
  /\ u \in LruInner /\ Len(u.nodes) <= Capacity
  /\ u.map = [s.map EXCEPT ![k] = idx] /\ u.head = s.head /\ u.tail = s.tail
  /\ idx \in 1..Len(u.nodes) /\ Len(s.nodes) <= Len(u.nodes)
  /\ 1..Len(u.nodes) \subseteq 1..Len(s.nodes) \cup {idx}
  /\ \A i \in 1..Len(s.nodes) : i # idx => u.nodes[i] = s.nodes[i]
  /\ u.nodes[idx].key = k /\ u.nodes[idx].value = v
  /\ \A j \in Held(s.map) : s.map[j] # idx
  /\ Lists(u.free_list, Free(s) \ {idx})

LEMMA PlacedOrdered ==
  ASSUME NEW s, NEW q, Ordered(s, q), NEW k \in Keys, s.map[k] = None, NEW v, NEW idx, NEW u,
         Placed(s, u, k, v, idx)
  PROVE  LET t == push_front(u, idx)
         IN /\ Ordered(t, Append(q, k)) /\ SameData(u, t)
            /\ \A j \in Held(s.map) : t.map[j] = s.map[j] /\ t.nodes[t.map[j]].value = s.nodes[s.map[j]].value
            /\ t.nodes[t.map[k]].value = v
<1> DEFINE m == s.map
           w == u.map
           o == Slots(m, q)
           t == push_front(u, idx)
           r == Append(q, k)
<1>1. s \in LruInner /\ Chain(s, o) /\ q \in Seq(Held(m)) /\ Lists(q, Held(m)) /\ m \in [Keys -> Link]
  BY DEF Ordered, Lists, LruInner
<1>2. /\ u \in LruInner /\ idx \in 1..Len(u.nodes) /\ w = [m EXCEPT ![k] = idx]
      /\ \A j \in Held(m) : m[j] # idx
  BY DEF Placed
<1>3. Len(u.nodes) \in Nat /\ Len(s.nodes) \in Nat /\ Len(u.nodes) <= Capacity /\ Len(s.nodes) <= Len(u.nodes)
  BY <1>1, <1>2, NodesTyped DEF Placed
<1>4. idx \in 1..Capacity /\ idx # None
  BY <1>2, <1>3, CapacityAssumption
<1>5. Held(w) = Held(m) \cup {k} /\ k \notin Held(m)
  BY <1>1, <1>2, <1>4, HeldAdd DEF Held
<1>6. w[k] = idx /\ \A j \in Held(m) : w[j] = m[j]
  BY <1>1, <1>2, <1>5 DEF Held
<1>7. Lists(r, Held(w))
  BY <1>1, <1>5, ListsAppend
<1>8. /\ Len(q) \in Nat /\ Len(o) = Len(q)
      /\ \A i \in 1..Len(q) : q[i] \in Held(m) /\ o[i] = m[q[i]]
  BY OrderedPlaces
<1>9. Slots(w, r) = Append(o, idx)
  <2>1. Slots(w, q) = o
    BY <1>6, <1>8 DEF Slots
  <2>2. Held(m) \subseteq Held(w) /\ k \in Held(w)
    BY <1>5
  <2>3. q \in Seq(Held(w))
    BY <1>1, <2>2, SeqMonotonic
  <2>4. Slots(w, r) = Append(Slots(w, q), w[k])
    BY <2>2, <2>3, SlotsAppend
  <2> QED BY <1>6, <2>1, <2>4
<1> HIDE DEF m, o, r, t, w
<1>10. \A i \in 1..Len(o) : o[i] # idx
  BY <1>2, <1>8
<1>11. Chain(u, o)
  <2>1. \A i \in 1..Len(o) : o[i] \in 1..Len(s.nodes)
    BY <1>1, ChainPlaces
  <2>2. \A i \in 1..Len(o) : u.nodes[o[i]] = s.nodes[o[i]]
    BY <1>10, <2>1 DEF Placed
  <2>3. o \in Seq(1..Len(u.nodes))
    <3>1. 1..Len(s.nodes) \subseteq 1..Len(u.nodes)
      BY <1>3
    <3>2. o \in Seq(1..Len(s.nodes))
      BY <1>1 DEF Chain
    <3> QED BY <3>1, <3>2, SeqMonotonic
  <2>4. u.head = s.head /\ u.tail = s.tail
    BY DEF Placed
  <2> QED BY <1>1, <2>2, <2>3, <2>4 DEF Chain
<1>12. Chain(t, Append(o, idx)) /\ SameData(u, t)
  BY <1>2, <1>4, <1>10, <1>11, ChainPush DEF t
<1>13. /\ t \in LruInner /\ t.map = w /\ t.free_list = u.free_list /\ Len(t.nodes) = Len(u.nodes)
       /\ \A i \in 1..Len(u.nodes) : t.nodes[i].key = u.nodes[i].key /\ t.nodes[i].value = u.nodes[i].value
  BY <1>12 DEF SameData, w
<1>14. \A j \in Held(m) : m[j] \in 1..Len(s.nodes) /\ s.nodes[m[j]].key = j
  BY DEF Ordered, m
<1>15. \A j \in Held(m) : /\ m[j] \in 1..Len(u.nodes)
                          /\ u.nodes[m[j]].key = j /\ u.nodes[m[j]].value = s.nodes[m[j]].value
  <2>1. \A j \in Held(m) : m[j] \in 1..Len(s.nodes) /\ m[j] # idx
    BY <1>2, <1>14
  <2>2. \A j \in Held(m) : u.nodes[m[j]] = s.nodes[m[j]]
    BY <2>1 DEF Placed
  <2>3. \A i \in 1..Len(s.nodes) : i \in 1..Len(u.nodes)
    BY <1>3
  <2> QED BY <1>14, <2>1, <2>2, <2>3
<1>16. u.nodes[idx].key = k /\ u.nodes[idx].value = v
  BY DEF Placed
<1>17. \A j \in Held(w) : w[j] \in 1..Len(t.nodes) /\ t.nodes[w[j]].key = j
  <2> SUFFICES ASSUME NEW j \in Held(w) PROVE w[j] \in 1..Len(t.nodes) /\ t.nodes[w[j]].key = j
    OBVIOUS
  <2>1. CASE j = k
    BY <1>2, <1>6, <1>13, <1>16, <2>1
  <2>2. CASE j \in Held(m)
    BY <1>6, <1>13, <1>15, <2>2
  <2> QED BY <1>5, <2>1, <2>2
<1>18. Free(t) = Free(s) \ {idx}
  <2>1. Free(t) = {i \in 1..Len(u.nodes) : \A j \in Held(w) : w[j] # i}
    BY <1>13 DEF Free
  <2>2. Free(s) = {i \in 1..Len(s.nodes) : \A j \in Held(m) : m[j] # i}
    BY DEF Free, m
  <2>3. \A i : (\A j \in Held(w) : w[j] # i) <=> i # idx /\ (\A j \in Held(m) : m[j] # i)
    BY <1>5, <1>6
  <2>4. \A i : i # idx => (i \in 1..Len(u.nodes) <=> i \in 1..Len(s.nodes))
    <3>1. \A i \in 1..Len(s.nodes) : i \in 1..Len(u.nodes)
      BY <1>3
    <3> QED BY <3>1 DEF Placed
  <2> QED BY <2>1, <2>2, <2>3, <2>4
<1>19. Lists(t.free_list, Free(t))
  BY <1>13, <1>18 DEF Placed
<1>20. Ordered(t, r)
  BY <1>3, <1>7, <1>9, <1>12, <1>13, <1>17, <1>19 DEF Ordered
<1>21. \A j \in Held(m) : t.map[j] = m[j] /\ t.nodes[t.map[j]].value = s.nodes[m[j]].value
  BY <1>6, <1>13, <1>15
<1>22. t.nodes[t.map[k]].value = v
  BY <1>2, <1>6, <1>13, <1>16
<1> QED BY <1>12, <1>20, <1>21, <1>22 DEF t, r, m

(* put has a slot for the new key: one that was freed, or a new one as     *)
(* long as the vector is shorter than the capacity.                        *)
LEMMA InsertOrdered ==
  ASSUME NEW s, NEW q, Ordered(s, q), NEW k \in Keys, s.map[k] = None, NEW v \in Values,
         Len(s.free_list) > 0 \/ Len(s.nodes) < Capacity
  PROVE  LET t == insert(s, k, v)
         IN /\ Ordered(t, Append(q, k))
            /\ \A j \in Held(s.map) : t.map[j] = s.map[j] /\ t.nodes[t.map[j]].value = s.nodes[s.map[j]].value
            /\ t.nodes[t.map[k]].value = v /\ Held(t.map) = Held(s.map) \cup {k}
<1> DEFINE n == Len(s.free_list)
           idx == IF n > 0 THEN s.free_list[n] ELSE Len(s.nodes) + 1
           fl == IF n > 0 THEN SubSeq(s.free_list, 1, n - 1) ELSE s.free_list
           node == Unlinked(k, v)
           nodes == IF n > 0 THEN [s.nodes EXCEPT ![idx] = node] ELSE Append(s.nodes, node)
           u == [s EXCEPT !.free_list = fl, !.nodes = nodes, !.map = [s.map EXCEPT ![k] = idx]]
           t == insert(s, k, v)
<1>1. /\ s \in LruInner /\ s.map \in [Keys -> Link] /\ s.free_list \in Seq(1..Capacity)
      /\ Lists(s.free_list, Free(s)) /\ Len(s.nodes) <= Capacity
  BY DEF Ordered, LruInner
<1>2. s.nodes \in Seq(LruNode) /\ Len(s.nodes) \in Nat /\ n \in Nat
  BY <1>1, NodesTyped, LenProperties
<1>3. t = push_front(u, idx)
  BY <1>1 DEF insert, LruInner
<1>4. node \in LruNode /\ node.key = k /\ node.value = v
  BY DEF Unlinked, LruNode, Link
<1> HIDE DEF node, t
<1>5. /\ \A j \in Held(s.map) : s.map[j] \in 1..Len(s.nodes)
      /\ Free(s) = {i \in 1..Len(s.nodes) : \A j \in Held(s.map) : s.map[j] # i}
  BY DEF Ordered, Free
<1>6. /\ idx \in 1..Capacity /\ fl \in Seq(1..Capacity)
      /\ nodes \in Seq(LruNode) /\ Len(nodes) <= Capacity
      /\ idx \in 1..Len(nodes) /\ Len(s.nodes) <= Len(nodes)
      /\ 1..Len(nodes) \subseteq 1..Len(s.nodes) \cup {idx}
      /\ \A i \in 1..Len(s.nodes) : i # idx => nodes[i] = s.nodes[i]
      /\ nodes[idx] = node
      /\ \A j \in Held(s.map) : s.map[j] # idx
      /\ Lists(fl, Free(s) \ {idx})
  <2>1. CASE n > 0
    <3>1. n \in 1..n /\ idx = s.free_list[n] /\ fl = SubSeq(s.free_list, 1, n - 1)
          /\ nodes = [s.nodes EXCEPT ![idx] = node]
      BY <1>2, <2>1
    <3> HIDE DEF idx, fl, nodes
    <3>2. idx \in Free(s)
      BY <1>1, <3>1, ElementOfSeq DEF Lists
    <3>3. idx \in 1..Len(s.nodes) /\ \A j \in Held(s.map) : s.map[j] # idx
      BY <1>5, <3>2
    <3>4. idx \in 1..Capacity
      BY <1>1, <1>2, <3>3, CapacityAssumption
    <3>5. /\ nodes \in Seq(LruNode) /\ Len(nodes) = Len(s.nodes)
          /\ \A i \in 1..Len(s.nodes) : nodes[i] = IF i = idx THEN node ELSE s.nodes[i]
      BY <1>2, <1>4, <3>1, <3>3, ExceptSeq
    <3>6. fl = Dropped(s.free_list, n)
      <4>1. /\ Dropped(s.free_list, n) \in Seq(1..Capacity) /\ Len(Dropped(s.free_list, n)) = n - 1
            /\ \A i \in 1 .. n - 1 : Dropped(s.free_list, n)[i] = IF i < n THEN s.free_list[i] ELSE s.free_list[i + 1]
        BY <1>1, <3>1, DroppedPlaces
      <4>2. /\ fl \in Seq(1..Capacity) /\ Len(fl) = n - 1
            /\ \A i \in 1 .. n - 1 : fl[i] = s.free_list[i]
        <5>1. n \in Nat /\ n - 1 \in Int /\ 1 \in Int /\ \A i \in 1 .. n - 1 : i \in 1..n
          BY <1>2
        <5>2. \A i \in 1 .. n - 1 : s.free_list[i] \in 1..Capacity
          BY <1>1, <5>1, ElementOfSeq
        <5>3. /\ fl \in Seq(1..Capacity) /\ Len(fl) = IF 1 <= n - 1 THEN (n - 1) - 1 + 1 ELSE 0
              /\ \A i \in 1 .. (n - 1) - 1 + 1 : fl[i] = s.free_list[1 + i - 1]
          BY <3>1, <5>1, <5>2, SubSeqProperties
        <5> HIDE DEF n
        <5> QED BY <2>1, <5>1, <5>3
      <4>3. \A i \in 1 .. n - 1 : i < n
        BY <1>2
      <4> QED BY <4>1, <4>2, <4>3, SeqEqual
    <3>7. fl \in Seq(1..Capacity)
      BY <1>1, <3>1, <3>6, DroppedPlaces
    <3>8. Lists(fl, Free(s) \ {idx})
      <4>1. Lists(s.free_list, Free(s)) /\ n \in 1..n /\ idx = s.free_list[n]
        BY <1>1, <3>1
      <4>2. Lists(Dropped(s.free_list, n), Free(s) \ {s.free_list[n]})
        BY <4>1, ListsDropped
      <4> QED BY <3>6, <4>1, <4>2
    <3>9. /\ Len(nodes) <= Capacity /\ idx \in 1..Len(nodes) /\ Len(s.nodes) <= Len(nodes)
          /\ 1..Len(nodes) \subseteq 1..Len(s.nodes) \cup {idx}
      BY <1>1, <1>2, <3>3, <3>5
    <3>10. nodes[idx] = node /\ \A i \in 1..Len(s.nodes) : i # idx => nodes[i] = s.nodes[i]
      BY <3>3, <3>5
    <3> QED BY <3>3, <3>4, <3>5, <3>7, <3>8, <3>9, <3>10
  <2>2. CASE ~(n > 0)
    <3>1. n = 0 /\ idx = Len(s.nodes) + 1 /\ fl = s.free_list /\ nodes = Append(s.nodes, node)
      BY <1>2, <2>2
    <3>2. Len(s.nodes) < Capacity
      BY <2>2
    <3> HIDE DEF idx, fl, nodes
    <3>3. /\ nodes \in Seq(LruNode) /\ Len(nodes) = Len(s.nodes) + 1
          /\ nodes[idx] = node /\ \A i \in 1..Len(s.nodes) : nodes[i] = s.nodes[i]
      BY <1>2, <1>4, <3>1
    <3>4. idx \in 1..Len(nodes) /\ idx \in 1..Capacity /\ Len(nodes) <= Capacity /\ idx \notin 1..Len(s.nodes)
      BY <1>2, <3>1, <3>2, <3>3, CapacityAssumption
    <3>5. 1..Len(nodes) \subseteq 1..Len(s.nodes) \cup {idx}
      BY <1>2, <3>1, <3>3
    <3>6. Free(s) \ {idx} = Free(s)
      BY <1>5, <3>4
    <3>7. \A j \in Held(s.map) : s.map[j] # idx
      BY <1>5, <3>4
    <3>8. Len(s.nodes) <= Len(nodes)
      BY <1>2, <3>3
    <3>9. fl \in Seq(1..Capacity) /\ Lists(fl, Free(s) \ {idx})
      BY <1>1, <3>1, <3>6
    <3> QED BY <3>3, <3>4, <3>5, <3>7, <3>8, <3>9
  <2> QED BY <2>1, <2>2
<1> HIDE DEF idx, fl, nodes
<1>7. /\ u \in LruInner /\ u.map = [s.map EXCEPT ![k] = idx] /\ u.nodes = nodes /\ u.free_list = fl
      /\ u.head = s.head /\ u.tail = s.tail
  BY <1>1, <1>6 DEF LruInner, Link
<1> HIDE DEF u
<1>8. Placed(s, u, k, v, idx)
  BY <1>4, <1>6, <1>7 DEF Placed
<1>9. /\ Ordered(t, Append(q, k)) /\ SameData(u, t)
      /\ \A j \in Held(s.map) : t.map[j] = s.map[j] /\ t.nodes[t.map[j]].value = s.nodes[s.map[j]].value
      /\ t.nodes[t.map[k]].value = v
  BY <1>3, <1>8, PlacedOrdered
<1>10. Held(t.map) = Held(s.map) \cup {k}
  <2>1. t.map = [s.map EXCEPT ![k] = idx]
    BY <1>7, <1>9 DEF SameData
  <2>2. idx # None
    BY <1>6, CapacityAssumption
  <2>3. Held([s.map EXCEPT ![k] = idx]) = Held(s.map) \cup {k}
    BY <1>1, <2>2, HeldAdd
  <2> QED BY <2>1, <2>3
<1> QED BY <1>9, <1>10 DEF t
-----------------------------------------------------------------------------
(* The LRU cache in operation.                                             *)

LruInv == \E q \in Seq(Keys) : Ordered(lru, q)

LEMMA OrderedKeys ==
  ASSUME NEW s, NEW q, Ordered(s, q)
  PROVE  q \in Seq(Keys)
<1>1. q \in Seq(Held(s.map)) /\ Held(s.map) \subseteq Keys
  BY DEF Ordered, Lists, Held
<1> QED BY <1>1, SeqMonotonic

LEMMA LruStart ==
  ASSUME LruInit
  PROVE  LruInv
<1>1. /\ lru.map = Absent /\ lru.nodes = <<>> /\ lru.free_list = <<>>
      /\ lru.head = None /\ lru.tail = None /\ lru \in LruInner
  BY DEF LruInit, LruInner, Link, Absent
<1>2. Held(lru.map) = {} /\ Free(lru) = {}
  BY <1>1 DEF Absent, Held, Free
<1>3. Slots(lru.map, <<>>) = <<>>
  BY DEF Slots
<1>4. Chain(lru, <<>>)
  BY <1>1 DEF Chain
<1>5. Ordered(lru, <<>>)
  BY <1>1, <1>2, <1>3, <1>4, ListsNothing, CapacityAssumption DEF Ordered
<1> QED BY <1>5, OrderedKeys DEF LruInv

(* A vector without a free slot is as long as the queue.                   *)
LEMMA NoFreeSlot ==
  ASSUME NEW s, NEW q, Ordered(s, q), Len(s.free_list) = 0
  PROVE  Len(s.nodes) = Len(q)
<1> DEFINE o == Slots(s.map, q)
<1>1. Lists(s.free_list, Free(s)) /\ Chain(s, o)
  BY DEF Ordered
<1>2. Free(s) = {}
  BY <1>1 DEF Lists
<1>3. /\ Len(o) = Len(q) /\ Len(s.nodes) \in Nat
      /\ \A i \in 1..Len(q) : o[i] = s.map[q[i]]
      /\ \A k \in Held(s.map) : \E i \in 1..Len(q) : q[i] = k
  BY OrderedPlaces
<1>4. \A x \in 1..Len(s.nodes) : \E i \in 1..Len(o) : o[i] = x
  <2> SUFFICES ASSUME NEW x \in 1..Len(s.nodes) PROVE \E i \in 1..Len(o) : o[i] = x
    OBVIOUS
  <2>1. PICK k \in Held(s.map) : s.map[k] = x
    BY <1>2 DEF Free
  <2>2. PICK i \in 1..Len(q) : q[i] = k
    BY <1>3
  <2> QED BY <1>3, <2>1, <2>2
<1> HIDE DEF o
<1>5. Lists(o, 1..Len(s.nodes))
  BY <1>1, <1>4 DEF Lists, Chain
<1>6. Cardinality(1..Len(s.nodes)) = Len(q)
  BY <1>3, <1>5, ListsCount
<1>7. 1 \in Int /\ Len(s.nodes) \in Int
  BY <1>3
<1>8. Cardinality(1..Len(s.nodes)) = IF 1 > Len(s.nodes) THEN 0 ELSE Len(s.nodes) - 1 + 1
  BY <1>7, FS_Interval, Zenon
<1> QED BY <1>3, <1>6, <1>8

(* The queue is never longer than the capacity: its keys have slots of     *)
(* their own.                                                              *)
LEMMA QueueFits ==
  ASSUME NEW s, NEW q, Ordered(s, q)
  PROVE  Len(q) \in Nat /\ Len(q) <= Capacity
<1> DEFINE o == Slots(s.map, q)
           n == Len(s.nodes)
<1>1. Chain(s, o) /\ n <= Capacity
  BY DEF Ordered
<1>2. Len(o) = Len(q) /\ Len(q) \in Nat /\ n \in Nat
  BY OrderedPlaces
<1> HIDE DEF o, n
<1>3. o \in [1..Len(q) -> 1..n]
  BY <1>1, <1>2 DEF Chain, n
<1>4. o \in Injection(1..Len(q), 1..n)
  BY <1>1, <1>2, <1>3 DEF Chain, Injection, IsInjective
<1>5. 1 \in Int /\ n \in Int /\ Len(q) \in Int
  BY <1>2
<1>6. /\ IsFiniteSet(1..n)
      /\ Cardinality(1..n) = IF 1 > n THEN 0 ELSE n - 1 + 1
      /\ Cardinality(1..Len(q)) = IF 1 > Len(q) THEN 0 ELSE Len(q) - 1 + 1
  BY <1>5, FS_Interval, Zenon
<1>7. Cardinality(1..Len(q)) <= Cardinality(1..n)
  BY <1>4, <1>6, FS_Injection
<1> QED BY <1>1, <1>2, <1>6, <1>7, CapacityAssumption

(* The eviction of put is that of the first key of the queue.              *)
LEMMA EvictDrops ==
  ASSUME NEW s, NEW q, Ordered(s, q), s.tail # None
  PROVE  1 \in 1..Len(q) /\ evict(s) = DropKey(s, q[1])
<1> DEFINE o == Slots(s.map, q)
<1>1. /\ Len(o) = Len(q) /\ Len(q) \in Nat /\ \A i \in 1..Len(q) : q[i] \in Held(s.map) /\ o[i] = s.map[q[i]]
  BY OrderedPlaces
<1>2. s.tail = IF Len(o) = 0 THEN None ELSE o[1]
  BY DEF Ordered, Chain
<1> HIDE DEF o
<1>3. 1 \in 1..Len(q) /\ s.tail = s.map[q[1]]
  BY <1>1, <1>2
<1>4. s.nodes[s.tail].key = q[1] /\ s \in LruInner /\ s.tail \in 1..Len(s.nodes)
  BY <1>1, <1>3 DEF Ordered
<1>5. SameData(s, remove_node(s, s.tail))
  BY <1>4, RemoveNodeFields
<1>6. remove_node(s, s.tail).map = s.map /\ remove_node(s, s.tail).free_list = s.free_list
  BY <1>5 DEF SameData
<1>7. evict(s) = [remove_node(s, s.tail) EXCEPT
                    !.map = [remove_node(s, s.tail).map EXCEPT ![s.nodes[s.tail].key] = None],
                    !.free_list = Append(remove_node(s, s.tail).free_list, s.tail)]
  BY DEF evict
<1> QED BY <1>3, <1>4, <1>6, <1>7 DEF DropKey

(* invalidate takes the key out of the map before it unlinks its node,     *)
(* which makes no difference to remove_node.                               *)
LEMMA InvalidateDrops ==
  ASSUME NEW s \in LruInner, NEW k \in Keys
  PROVE  [remove_node([s EXCEPT !.map[k] = None], s.map[k]) EXCEPT !.free_list = Append(@, s.map[k])]
           = DropKey(s, k)
<1> DEFINE idx == s.map[k]
           prev == s.nodes[idx].prev
           next == s.nodes[idx].next
           b == bypass(s.nodes, idx, prev, next)
           u == [s EXCEPT !.map = [s.map EXCEPT ![k] = None]]
           head == IF prev = None THEN next ELSE s.head
           tail == IF next = None THEN prev ELSE s.tail
<1>1. [s EXCEPT !.map[k] = None] = u
  BY DEF LruInner
<1>2. u.nodes = s.nodes /\ u.head = s.head /\ u.tail = s.tail /\ u.free_list = s.free_list
      /\ u.map = [s.map EXCEPT ![k] = None]
  BY DEF LruInner
<1>3. remove_node(u, idx) = [u EXCEPT !.nodes = b, !.head = head, !.tail = tail]
  <2> HIDE DEF u
  <2> QED BY <1>2 DEF remove_node
<1>4. remove_node(s, idx) = [s EXCEPT !.nodes = b, !.head = head, !.tail = tail]
  BY DEF remove_node
<1> HIDE DEF b, head, tail
<1> DEFINE fl == Append(s.free_list, idx)
           m == [s.map EXCEPT ![k] = None]
<1>5. remove_node(u, idx).free_list = s.free_list
  BY <1>3 DEF LruInner
<1>6. [remove_node(u, idx) EXCEPT !.free_list = Append(@, idx)]
        = [[u EXCEPT !.nodes = b, !.head = head, !.tail = tail] EXCEPT !.free_list = fl]
  BY <1>3, <1>5
<1> HIDE DEF fl, m, idx
<1>7. [[[s EXCEPT !.map = m] EXCEPT !.nodes = b, !.head = head, !.tail = tail] EXCEPT !.free_list = fl]
        = [[s EXCEPT !.nodes = b, !.head = head, !.tail = tail] EXCEPT !.map = m, !.free_list = fl]
  BY DEF LruInner
<1> QED BY <1>1, <1>4, <1>6, <1>7 DEF DropKey, fl, m, idx

(* What the keys of s are cached with.                                     *)
HeldOf(s) == [k \in Keys |-> IF s.map[k] = None THEN None ELSE s.nodes[s.map[k]].value]

LEMMA HeldSame ==
  ASSUME NEW s, NEW q, Ordered(s, q), NEW t, SameData(s, t)
  PROVE  HeldOf(t) = HeldOf(s)
<1>1. \A k \in Keys : s.map[k] # None => s.map[k] \in 1..Len(s.nodes)
  BY DEF Ordered, Held
<1>2. t.map = s.map /\ \A i \in 1..Len(s.nodes) : t.nodes[i].value = s.nodes[i].value
  BY DEF SameData
<1>3. \A k \in Keys : (IF t.map[k] = None THEN None ELSE t.nodes[t.map[k]].value)
                        = (IF s.map[k] = None THEN None ELSE s.nodes[s.map[k]].value)
  BY <1>1, <1>2
<1> QED BY <1>3 DEF HeldOf

LEMMA HeldValue ==
  ASSUME NEW s, NEW q, Ordered(s, q), NEW k \in Held(s.map), NEW v \in Values
  PROVE  HeldOf([s EXCEPT !.nodes[s.map[k]].value = v]) = [HeldOf(s) EXCEPT ![k] = v]
<1> DEFINE t == [s EXCEPT !.nodes[s.map[k]].value = v]
<1>1. /\ t.map = s.map
      /\ \A i \in 1..Len(s.nodes) : t.nodes[i].value = IF i = s.map[k] THEN v ELSE s.nodes[i].value
  BY ValueOrdered
<1>2. \A j \in Keys : s.map[j] # None => /\ s.map[j] \in 1..Len(s.nodes)
                                         /\ (s.map[j] = s.map[k] => j = k)
  BY OrderedPlaces DEF Ordered, Held
<1>3. k \in Keys /\ s.map[k] # None
  BY DEF Held
<1> HIDE DEF t
<1>4. ASSUME NEW j \in Keys
      PROVE  (IF t.map[j] = None THEN None ELSE t.nodes[t.map[j]].value)
               = (IF j = k THEN v ELSE IF s.map[j] = None THEN None ELSE s.nodes[s.map[j]].value)
  BY <1>1, <1>2, <1>3
<1>5. HeldOf(t) = [HeldOf(s) EXCEPT ![k] = v]
  BY <1>3, <1>4 DEF HeldOf
<1> QED BY <1>5 DEF t

LEMMA HeldDropped ==
  ASSUME NEW s, NEW q, Ordered(s, q), NEW p \in 1..Len(q), NEW t, t = DropKey(s, q[p])
  PROVE  HeldOf(t) = [HeldOf(s) EXCEPT ![q[p]] = None]
<1>1. /\ t.map = [s.map EXCEPT ![q[p]] = None]
      /\ \A i \in 1..Len(s.nodes) : t.nodes[i].value = s.nodes[i].value
  <2>1. /\ Ordered(t, Dropped(q, p)) /\ t.map = [s.map EXCEPT ![q[p]] = None]
        /\ Len(t.free_list) = Len(s.free_list) + 1 /\ Len(s.free_list) \in Nat
        /\ Len(t.nodes) = Len(s.nodes)
        /\ \A i \in 1..Len(s.nodes) : t.nodes[i].value = s.nodes[i].value
    BY DropOrdered
  <2> QED BY <2>1
<1>2. q[p] \in Keys /\ s.map \in [Keys -> Link]
  BY OrderedPlaces DEF Ordered, LruInner
<1>3. \A j \in Keys : s.map[j] # None => s.map[j] \in 1..Len(s.nodes)
  BY DEF Ordered, Held
<1>4. ASSUME NEW j \in Keys
      PROVE  (IF t.map[j] = None THEN None ELSE t.nodes[t.map[j]].value)
               = (IF j = q[p] THEN None ELSE IF s.map[j] = None THEN None ELSE s.nodes[s.map[j]].value)
  BY <1>1, <1>2, <1>3
<1> QED BY <1>2, <1>4 DEF HeldOf

LEMMA HeldInserted ==
  ASSUME NEW s, NEW q, Ordered(s, q), NEW k \in Keys, s.map[k] = None, NEW v \in Values,
         Len(s.free_list) > 0 \/ Len(s.nodes) < Capacity
  PROVE  HeldOf(insert(s, k, v)) = [HeldOf(s) EXCEPT ![k] = v]
<1> DEFINE t == insert(s, k, v)
<1>1. /\ \A j \in Held(s.map) : t.map[j] = s.map[j] /\ t.nodes[t.map[j]].value = s.nodes[s.map[j]].value
      /\ t.nodes[t.map[k]].value = v /\ Held(t.map) = Held(s.map) \cup {k}
  <2>1. LET u == insert(s, k, v)
        IN /\ Ordered(u, Append(q, k))
           /\ \A j \in Held(s.map) : u.map[j] = s.map[j] /\ u.nodes[u.map[j]].value = s.nodes[s.map[j]].value
           /\ u.nodes[u.map[k]].value = v /\ Held(u.map) = Held(s.map) \cup {k}
    BY InsertOrdered
  <2> QED BY <2>1
<1> HIDE DEF t
<1>2. ASSUME NEW j \in Keys
      PROVE  (IF t.map[j] = None THEN None ELSE t.nodes[t.map[j]].value)
               = (IF j = k THEN v ELSE IF s.map[j] = None THEN None ELSE s.nodes[s.map[j]].value)
  <2>1. (j \in Held(t.map) <=> t.map[j] # None) /\ (j \in Held(s.map) <=> s.map[j] # None)
    BY DEF Held
  <2> QED BY <1>1, <2>1
<1>3. HeldOf(t) = [HeldOf(s) EXCEPT ![k] = v]
  BY <1>2 DEF HeldOf
<1> QED BY <1>3 DEF t

(* A step of the abstract queue, from contents h and queue q to g and r.   *)
QueueStep(h, q, g, r) ==
  \E k \in Keys :
    \/ h[k] # None /\ g = h /\ r = Append(retain(q, k), k)
    \/ g = [h EXCEPT ![k] = None] /\ r = retain(q, k)
    \/ \E v \in Values :
         \/ h[k] # None /\ g = [h EXCEPT ![k] = v] /\ r = Append(retain(q, k), k)
         \/ h[k] = None /\ Len(q) < Capacity /\ g = [h EXCEPT ![k] = v] /\ r = Append(q, k)
         \/ /\ h[k] = None /\ Len(q) = Capacity
            /\ g = [h EXCEPT ![k] = v, ![Head(q)] = None] /\ r = Append(Tail(q), k)

LEMMA HeldPlace ==
  ASSUME NEW s, NEW q, Ordered(s, q), NEW k \in Keys
  PROVE  /\ HeldOf(s)[k] = None <=> s.map[k] = None
         /\ s.map[k] # None => /\ k \in Held(s.map) /\ \E p \in 1..Len(q) : q[p] = k
         /\ \A p \in 1..Len(q) : retain(q, q[p]) = Dropped(q, p)
<1>1. s.map[k] # None => k \in Held(s.map)
  BY DEF Held
<1>2. \A j \in Held(s.map) : s.map[j] \in 1..Len(s.nodes) /\ \E p \in 1..Len(q) : q[p] = j
  <2>1. \A j \in Held(s.map) : s.map[j] \in 1..Len(s.nodes)
    BY DEF Ordered
  <2>2. \A j \in Held(s.map) : \E p \in 1..Len(q) : q[p] = j
    BY DEF Ordered, Lists
  <2> QED BY <2>1, <2>2
<1>3. \A i \in 1..Len(s.nodes) : s.nodes[i].value # None
  <2>1. \A i \in 1..Len(s.nodes) : s.nodes[i] \in LruNode
    BY NodesTyped DEF Ordered
  <2> QED BY <2>1, CapacityAssumption DEF LruNode
<1>4. ASSUME NEW p \in 1..Len(q)
      PROVE  retain(q, q[p]) = Dropped(q, p)
  <2>1. q \in Seq(Held(s.map)) /\ \A i \in 1..Len(q) : q[i] = q[p] <=> i = p
    BY DEF Ordered, Lists
  <2>2. \A j : j = q[p] => retain(q, j) = Dropped(q, p)
    BY <2>1, RetainDrops
  <2> QED BY <2>2
<1> QED BY <1>1, <1>2, <1>3, <1>4 DEF HeldOf

LEMMA LruGetStep ==
  ASSUME NEW q, Ordered(lru, q), NEW k \in Keys, LruGet(k)
  PROVE  \E r : Ordered(lru', r) /\ QueueStep(HeldOf(lru), q, HeldOf(lru'), r)
<1>1. lru.map[k] # None /\ lru' = move_to_front(lru, lru.map[k])
  BY DEF LruGet
<1>2. PICK p \in 1..Len(q) : q[p] = k
  BY <1>1, HeldPlace
<1>3. HeldOf(lru)[k] # None /\ retain(q, k) = Dropped(q, p)
  BY <1>1, <1>2, HeldPlace
<1>4. Ordered(lru', Append(Dropped(q, p), q[p])) /\ SameData(lru, lru')
  BY <1>1, <1>2, UseOrdered
<1>5. HeldOf(lru') = HeldOf(lru)
  BY <1>4, HeldSame
<1> QED BY <1>2, <1>3, <1>4, <1>5 DEF QueueStep

LEMMA LruHitStep ==
  ASSUME NEW q, Ordered(lru, q), NEW k \in Keys, NEW v \in Values, LruPutHit(k, v)
  PROVE  \E r : Ordered(lru', r) /\ QueueStep(HeldOf(lru), q, HeldOf(lru'), r)
<1>1. PICK s : s = [lru EXCEPT !.nodes[lru.map[k]].value = v]
  OBVIOUS
<1>2. lru.map[k] # None /\ lru' = move_to_front(s, lru.map[k])
  BY <1>1 DEF LruPutHit
<1>3. k \in Held(lru.map)
  BY <1>2, HeldPlace
<1>4. PICK p \in 1..Len(q) : q[p] = k
  BY <1>2, HeldPlace
<1>5. HeldOf(lru)[k] # None /\ retain(q, k) = Dropped(q, p)
  BY <1>2, <1>4, HeldPlace
<1>6. Ordered(s, q) /\ s.map = lru.map
  BY <1>1, <1>3, ValueOrdered
<1>7. HeldOf(s) = [HeldOf(lru) EXCEPT ![k] = v]
  BY <1>1, <1>3, HeldValue
<1>8. lru' = move_to_front(s, s.map[q[p]])
  BY <1>2, <1>4, <1>6
<1>9. Ordered(lru', Append(Dropped(q, p), q[p])) /\ SameData(s, lru')
  BY <1>6, <1>8, UseOrdered
<1>10. HeldOf(lru') = [HeldOf(lru) EXCEPT ![k] = v]
  BY <1>6, <1>7, <1>9, HeldSame
<1> QED BY <1>4, <1>5, <1>9, <1>10 DEF QueueStep

LEMMA LruInvalidateStep ==
  ASSUME NEW q, Ordered(lru, q), NEW k \in Keys, LruInvalidate(k)
  PROVE  \E r : Ordered(lru', r) /\ QueueStep(HeldOf(lru), q, HeldOf(lru'), r)
<1>1. lru.map[k] # None /\ lru \in LruInner
  BY DEF LruInvalidate, Ordered
<1>2. lru' = DropKey(lru, k)
  BY <1>1, InvalidateDrops DEF LruInvalidate
<1>3. PICK p \in 1..Len(q) : q[p] = k
  BY <1>1, HeldPlace
<1>4. retain(q, k) = Dropped(q, p)
  BY <1>3, HeldPlace
<1>5. Ordered(lru', Dropped(q, p))
  BY <1>2, <1>3, DropOrdered
<1>6. HeldOf(lru') = [HeldOf(lru) EXCEPT ![q[p]] = None]
  BY <1>2, <1>3, HeldDropped
<1> QED BY <1>3, <1>4, <1>5, <1>6 DEF QueueStep

(* put of a new key: when the cache is full its first key makes room.      *)
LEMMA LruNewStep ==
  ASSUME NEW q, Ordered(lru, q), NEW k \in Keys, NEW v \in Values, LruPutNew(k, v)
  PROVE  \E r : Ordered(lru', r) /\ QueueStep(HeldOf(lru), q, HeldOf(lru'), r)
<1> DEFINE full == Cardinality(Held(lru.map)) >= Capacity /\ lru.tail # None
<1>1. lru.map[k] = None /\ lru' = insert(IF full THEN evict(lru) ELSE lru, k, v)
  BY DEF LruPutNew
<1>2. Lists(q, Held(lru.map)) /\ q \in Seq(Held(lru.map))
  BY DEF Ordered, Lists
<1>3. Cardinality(Held(lru.map)) = Len(q) /\ Len(q) \in Nat
  BY <1>2, ListsCount, LenProperties
<1>4. HeldOf(lru)[k] = None
  BY <1>1, HeldPlace
<1>5. CASE full
  <2>1. 1 \in 1..Len(q) /\ evict(lru) = DropKey(lru, q[1])
    BY <1>5, EvictDrops
  <2>2. PICK s : s = evict(lru)
    OBVIOUS
  <2>3. s = DropKey(lru, q[1]) /\ lru' = insert(s, k, v)
    BY <1>1, <1>5, <2>1, <2>2
  <2>4. /\ Ordered(s, Dropped(q, 1)) /\ s.map = [lru.map EXCEPT ![q[1]] = None]
        /\ Len(s.free_list) = Len(lru.free_list) + 1 /\ Len(lru.free_list) \in Nat
        /\ Len(s.nodes) = Len(lru.nodes)
        /\ \A i \in 1..Len(lru.nodes) : s.nodes[i].value = lru.nodes[i].value
    BY <2>1, <2>3, DropOrdered
  <2>5. q[1] \in Keys /\ q[1] \in Held(lru.map) /\ lru.map \in [Keys -> Link]
    BY <2>1, OrderedPlaces DEF Ordered, LruInner
  <2>6. s.map[k] = None /\ Len(s.free_list) > 0
    BY <1>1, <2>4, <2>5
  <2>7. Ordered(lru', Append(Dropped(q, 1), k))
    BY <2>3, <2>4, <2>6, InsertOrdered
  <2>8. HeldOf(s) = [HeldOf(lru) EXCEPT ![q[1]] = None]
    BY <2>1, <2>3, HeldDropped
  <2>9. HeldOf(lru') = [HeldOf(s) EXCEPT ![k] = v]
    <3>1. Ordered(s, Dropped(q, 1)) /\ s.map[k] = None /\ (Len(s.free_list) > 0 \/ Len(s.nodes) < Capacity)
      BY <2>4, <2>6
    <3>2. HeldOf(insert(s, k, v)) = [HeldOf(s) EXCEPT ![k] = v]
      BY <3>1, HeldInserted
    <3> QED BY <2>3, <3>2
  <2>10. q # <<>> /\ Head(q) = q[1] /\ Tail(q) = Dropped(q, 1)
    <3>1. q # <<>> /\ Head(q) = q[1]
      BY <1>2, <1>3, <2>1
    <3>2. /\ Tail(q) \in Seq(Held(lru.map)) /\ Len(Tail(q)) = Len(q) - 1
          /\ \A i \in 1..Len(Tail(q)) : Tail(q)[i] = q[i + 1]
      BY <1>2, <3>1, HeadTailProperties
    <3>3. /\ Dropped(q, 1) \in Seq(Held(lru.map)) /\ Len(Dropped(q, 1)) = Len(q) - 1
          /\ \A i \in 1 .. Len(q) - 1 : Dropped(q, 1)[i] = IF i < 1 THEN q[i] ELSE q[i + 1]
      BY <1>2, <2>1, DroppedPlaces
    <3>4. \A i \in 1 .. Len(q) - 1 : ~(i < 1)
      BY <1>3
    <3>5. Tail(q) = Dropped(q, 1)
      BY <3>2, <3>3, <3>4, SeqEqual
    <3> QED BY <3>1, <3>5
  <2>11. Len(q) = Capacity
    <3>1. Len(q) <= Capacity
      BY QueueFits
    <3> QED BY <1>3, <1>5, <3>1, CapacityAssumption
  <2>12. q[1] # k
    BY <1>1, <2>5 DEF Held
  <2>13. HeldOf(lru') = [HeldOf(lru) EXCEPT ![k] = v, ![Head(q)] = None]
    <3>1. PICK h : h = HeldOf(lru)
      OBVIOUS
    <3>2. PICK j : j = q[1]
      OBVIOUS
    <3>3. h = [i \in Keys |-> h[i]]
      BY <3>1 DEF HeldOf
    <3>4. HeldOf(lru') = [[h EXCEPT ![j] = None] EXCEPT ![k] = v]
      BY <2>8, <2>9, <3>1, <3>2
    <3>5. j \in Keys /\ j # k
      BY <2>5, <2>12, <3>2
    <3>6. HeldOf(lru') = [[h EXCEPT ![k] = v] EXCEPT ![j] = None]
      BY <3>3, <3>4, <3>5
    <3> QED BY <2>10, <3>1, <3>2, <3>6
  <2> QED BY <1>4, <2>7, <2>10, <2>11, <2>13 DEF QueueStep
<1>6. CASE ~full
  <2>1. lru' = insert(lru, k, v)
    BY <1>1, <1>6
  <2>2. Len(q) < Capacity
    <3>1. lru.tail = None => Len(q) = 0
      <4>1. Len(Slots(lru.map, q)) = Len(q) /\ \A i \in 1..Len(q) : Slots(lru.map, q)[i] # None
        BY OrderedPlaces, CapacityAssumption
      <4>2. lru.tail = IF Len(Slots(lru.map, q)) = 0 THEN None ELSE Slots(lru.map, q)[1]
        BY DEF Ordered, Chain
      <4> QED BY <1>3, <4>1, <4>2
    <3> QED BY <1>3, <1>6, <3>1, CapacityAssumption
  <2>3. Len(lru.free_list) > 0 \/ Len(lru.nodes) < Capacity
    <3>1. Len(lru.free_list) \in Nat
      BY LenProperties DEF Ordered, Lists
    <3>2. Len(lru.free_list) = 0 => Len(lru.nodes) = Len(q)
      BY NoFreeSlot
    <3> QED BY <2>2, <3>1, <3>2
  <2>4. Ordered(lru', Append(q, k))
    BY <1>1, <2>1, <2>3, InsertOrdered
  <2>5. HeldOf(lru') = [HeldOf(lru) EXCEPT ![k] = v]
    BY <1>1, <2>1, <2>3, HeldInserted
  <2> QED BY <1>4, <2>2, <2>4, <2>5 DEF QueueStep
<1> QED BY <1>5, <1>6

LEMMA LruStep ==
  ASSUME NEW q, Ordered(lru, q), LruNext
  PROVE  \E r : Ordered(lru', r) /\ QueueStep(HeldOf(lru), q, HeldOf(lru'), r)
<1>1. PICK k \in Keys : \/ LruGet(k) \/ LruInvalidate(k)
                        \/ \E v \in Values : LruPutHit(k, v) \/ LruPutNew(k, v)
  BY DEF LruNext
<1>2. CASE LruGet(k)
  BY <1>2, LruGetStep
<1>3. CASE LruInvalidate(k)
  BY <1>3, LruInvalidateStep
<1>4. ASSUME NEW v \in Values, LruPutHit(k, v)
      PROVE  \E r : Ordered(lru', r) /\ QueueStep(HeldOf(lru), q, HeldOf(lru'), r)
  BY <1>4, LruHitStep
<1>5. ASSUME NEW v \in Values, LruPutNew(k, v)
      PROVE  \E r : Ordered(lru', r) /\ QueueStep(HeldOf(lru), q, HeldOf(lru'), r)
  BY <1>5, LruNewStep
<1> QED BY <1>1, <1>2, <1>3, <1>4, <1>5

LEMMA LruInductive == Spec => []LruInv
<1>1. Init => LruInv
  BY LruStart DEF Init
<1>2. LruInv /\ [Next]_vars => LruInv'
  <2> SUFFICES ASSUME LruInv, [Next]_vars PROVE LruInv'
    OBVIOUS
  <2>1. PICK q \in Seq(Keys) : Ordered(lru, q)
    BY DEF LruInv
  <2>2. CASE LruNext
    <3>1. PICK r : Ordered(lru', r)
      BY <2>1, <2>2, LruStep
    <3>2. r \in Seq(Keys)
      BY <3>1, OrderedKeys
    <3> QED BY <3>1, <3>2 DEF LruInv
  <2>3. CASE UNCHANGED lru
    BY <2>1, <2>3 DEF LruInv
  <2> QED BY <2>2, <2>3 DEF Next, vars
<1> QED BY <1>1, <1>2, PTL DEF Spec

LEMMA LruFacts ==
  ASSUME LruInv
  PROVE  LruTypeOK /\ LruListWellFormed
<1>1. PICK q \in Seq(Keys) : Ordered(lru, q)
  BY DEF LruInv
<1> DEFINE m == lru.map
           o == Slots(m, q)
           fl == lru.free_list
           live == {m[k] : k \in Held(m)}
           free == {fl[i] : i \in DOMAIN fl}
<1>2. /\ lru \in LruInner /\ Len(lru.nodes) <= Capacity /\ Lists(fl, Free(lru)) /\ Chain(lru, o)
      /\ \A k \in Held(m) : m[k] \in 1..Len(lru.nodes) /\ lru.nodes[m[k]].key = k
  BY <1>1 DEF Ordered
<1>3. Len(lru.nodes) \in Nat /\ DOMAIN lru.nodes = 1..Len(lru.nodes)
  BY <1>2, NodesTyped
<1>4. fl \in Seq(Free(lru)) /\ DOMAIN fl = 1..Len(fl) /\ \A i \in 1..Len(fl) : fl[i] \in Free(lru)
  BY <1>2, ElementOfSeq DEF Lists
<1>5. Free(lru) = {i \in 1..Len(lru.nodes) : \A k \in Held(m) : m[k] # i}
  BY DEF Free
<1>6. free = Free(lru)
  <2>1. \A x \in Free(lru) : \E i \in 1..Len(fl) : fl[i] = x
    BY <1>2 DEF Lists
  <2> HIDE DEF fl
  <2> QED BY <1>4, <2>1
<1>7. Cardinality(free) = Len(fl)
  BY <1>2, <1>6, ListsCount
<1>8. live \cap free = {} /\ live \cup free = DOMAIN lru.nodes
  BY <1>2, <1>3, <1>5, <1>6
<1>9. LruTypeOK
  <2>1. \A i \in DOMAIN fl : fl[i] <= Len(lru.nodes)
    BY <1>3, <1>4, <1>5
  <2> QED BY <1>2, <2>1 DEF LruTypeOK
<1>10. /\ Len(o) = Len(q) /\ Len(q) \in Nat
       /\ \A i \in 1..Len(q) : q[i] \in Held(m) /\ o[i] = m[q[i]]
       /\ \A k \in Held(m) : \E i \in 1..Len(q) : q[i] = k
  <2>1. \A k \in Held(m) : \E i \in 1..Len(q) : q[i] = k
    BY <1>1 DEF Ordered, Lists
  <2>2. /\ Len(o) = Len(q) /\ Len(q) \in Nat
        /\ \A i \in 1..Len(q) : q[i] \in Held(m) /\ o[i] = m[q[i]]
    BY <1>1, OrderedPlaces
  <2> QED BY <2>1, <2>2
<1> HIDE DEF o
<1>11. \A i \in 1..Len(o) : o[i] \in live /\ o[i] # None
  <2>1. \A i \in 1..Len(o) : o[i] \in live
    BY <1>10
  <2>2. \A i \in 1..Len(o) : o[i] # None
    BY <1>2, ChainPlaces
  <2> QED BY <2>1, <2>2
<1>12. \A x \in live : \E i \in 1..Len(o) : o[i] = x
  BY <1>10
<1> HIDE DEF live, free
<1>13. lru.head \in live \cup {None} /\ lru.tail \in live \cup {None}
  BY <1>2, <1>10, <1>11 DEF Chain
<1>14. ASSUME NEW x \in live
       PROVE  /\ IF lru.nodes[x].prev = None THEN lru.head = x
                 ELSE lru.nodes[x].prev \in live /\ lru.nodes[lru.nodes[x].prev].next = x
              /\ IF lru.nodes[x].next = None THEN lru.tail = x
                 ELSE lru.nodes[x].next \in live /\ lru.nodes[lru.nodes[x].next].prev = x
  <2>1. PICK i \in 1..Len(o) : o[i] = x
    BY <1>12
  <2>2. i \in Nat /\ Len(o) \in Nat /\ i >= 1 /\ i <= Len(o)
    BY <1>10
  <2>3. /\ lru.nodes[x].prev = IF i = Len(o) THEN None ELSE o[i + 1]
        /\ lru.nodes[x].next = IF i = 1 THEN None ELSE o[i - 1]
    BY <1>2, <2>1 DEF Chain
  <2>4. lru.tail = (IF Len(o) = 0 THEN None ELSE o[1]) /\ lru.head = IF Len(o) = 0 THEN None ELSE o[Len(o)]
    BY <1>2 DEF Chain
  <2>5. i # Len(o) => i + 1 \in 1..Len(o) /\ i + 1 # 1 /\ (i + 1) - 1 = i
    BY <2>2
  <2>6. i # 1 => i - 1 \in 1..Len(o) /\ i - 1 # Len(o) /\ (i - 1) + 1 = i
    BY <2>2
  <2>7. i # Len(o) => lru.nodes[o[i + 1]].next = x
    BY <1>2, <2>1, <2>5 DEF Chain
  <2>8. i # 1 => lru.nodes[o[i - 1]].prev = x
    BY <1>2, <2>1, <2>6 DEF Chain
  <2>9. Len(o) # 0
    BY <2>2
  <2> QED BY <1>11, <2>1, <2>3, <2>4, <2>5, <2>6, <2>7, <2>8, <2>9
<1>15. LruListWellFormed
  BY <1>2, <1>7, <1>8, <1>13, <1>14 DEF LruListWellFormed, live, free
<1> QED BY <1>9, <1>15

(* The vector of the LRU cache never outgrows the capacity it is allocated *)
(* with, and every slot number, on the free list too, is in range.         *)
THEOREM LruTyped == Spec => []LruTypeOK
BY LruInductive, LruFacts, PTL

(* No slot is lost or used twice, and the links of prev and next mirror    *)
(* each other from head to tail, whatever the order of gets, puts,         *)
(* evictions and invalidations.                                            *)
THEOREM LruCorrect == Spec => []LruListWellFormed
BY LruInductive, LruFacts, PTL

(* The refinement mapping reads the queue off the links, from the tail     *)
(* backwards; it finds the queue that the cache is ordered by.             *)
LruHeld == [k \in Keys |-> IF lru.map[k] = None THEN None ELSE lru.nodes[lru.map[k]].value]
LruQueue == [n \in 1..Cardinality(Held(lru.map)) |-> KeyAt(Back[n])]

LEMMA BackWalks ==
  ASSUME NEW q, Ordered(lru, q), NEW n \in 1..Len(q)
  PROVE  Back[n] = lru.map[q[n]]
<1> DEFINE C == Capacity
           o == Slots(lru.map, q)
           G == [i \in 1..C |-> IF i <= Len(o) THEN o[i] ELSE None]
           Rec(f) == [i \in 1..C |-> IF i = 1 THEN lru.tail
                                     ELSE IF f[i - 1] = None THEN None ELSE lru.nodes[f[i - 1]].prev]
           F == CHOOSE f : f = Rec(f)
<1>1. C \in Nat /\ 1 <= C
  BY CapacityAssumption
<1>2. Back = F
  BY DEF Back
<1>3. Len(q) \in Nat /\ Len(o) = Len(q) /\ \A i \in 1..Len(q) : o[i] = lru.map[q[i]]
  BY OrderedPlaces
<1>4. Len(q) <= C
  BY QueueFits
<1>5. Chain(lru, o)
  BY DEF Ordered
<1> HIDE DEF C, o
<1>6. /\ lru.tail = IF Len(o) = 0 THEN None ELSE o[1]
      /\ \A i \in 1..Len(o) : o[i] # None /\ lru.nodes[o[i]].prev = IF i = Len(o) THEN None ELSE o[i + 1]
  <2>1. \A i \in 1..Len(o) : o[i] # None
    BY <1>5, ChainPlaces
  <2> QED BY <1>5, <2>1 DEF Chain
<1>7. \A i \in 1..C : G[i] = IF i <= Len(o) THEN o[i] ELSE None
  OBVIOUS
<1>8. G = [i \in 1..C |-> G[i]]
  OBVIOUS
<1> HIDE DEF G
<1>9. ASSUME NEW i \in 1..C
      PROVE  G[i] = IF i = 1 THEN lru.tail
                    ELSE IF G[i - 1] = None THEN None ELSE lru.nodes[G[i - 1]].prev
  <2>1. CASE i = 1
    <3>1. G[1] = IF 1 <= Len(o) THEN o[1] ELSE None
      BY <1>1, <1>7
    <3> QED BY <1>3, <1>6, <2>1, <3>1
  <2>2. CASE i # 1
    <3>1. i - 1 \in 1..C /\ i \in Nat /\ (i - 1) + 1 = i
      BY <1>1, <2>2
    <3>2. G[i - 1] = IF i - 1 <= Len(o) THEN o[i - 1] ELSE None
      BY <1>7, <3>1
    <3>3. CASE i - 1 <= Len(o)
      <4>1. i - 1 \in 1..Len(o)
        BY <1>1, <1>3, <3>1, <3>3
      <4>2. G[i - 1] = o[i - 1] /\ o[i - 1] # None /\ lru.nodes[o[i - 1]].prev = IF i - 1 = Len(o) THEN None ELSE o[i]
        BY <1>6, <3>1, <3>2, <3>3, <4>1
      <4>3. i - 1 = Len(o) <=> ~(i <= Len(o))
        BY <1>3, <3>1, <3>3
      <4> QED BY <1>7, <2>2, <4>2, <4>3
    <3>4. CASE ~(i - 1 <= Len(o))
      <4>1. ~(i <= Len(o))
        BY <1>3, <3>1, <3>4
      <4> QED BY <1>7, <2>2, <3>2, <3>4, <4>1
    <3> QED BY <3>3, <3>4
  <2> QED BY <2>1, <2>2
<1>10. G = Rec(G)
  BY <1>8, <1>9
<1>11. F = Rec(F)
  BY <1>10
<1> HIDE DEF F
<1>12. ASSUME NEW i \in 1..C
       PROVE  F[i] = IF i = 1 THEN lru.tail
                     ELSE IF F[i - 1] = None THEN None ELSE lru.nodes[F[i - 1]].prev
  BY <1>11
<1>13. \A i \in 1..C : F[i] = G[i]
  <2> DEFINE Bad == {i \in 1..C : F[i] # G[i]}
  <2> SUFFICES ASSUME Bad # {} PROVE FALSE
    OBVIOUS
  <2>1. Bad \in SUBSET Nat
    BY <1>1
  <2>2. \E i \in Bad : \A j \in Bad : i <= j
    <3> HIDE DEF Bad
    <3> QED BY <2>1, LeastExists
  <2>3. PICK i \in Bad : \A j \in Bad : i <= j
    BY <2>2
  <2>4. i \in 1..C /\ i # 1 /\ F[i] # G[i]
    BY <1>9, <1>12
  <2>5. i - 1 \in 1..C /\ ~(i <= i - 1)
    BY <1>1, <2>4
  <2>6. F[i - 1] = G[i - 1]
    BY <2>3, <2>5
  <2> QED BY <1>9, <1>12, <2>4, <2>6
<1>14. n \in 1..C /\ n <= Len(o) /\ n \in 1..Len(q)
  BY <1>1, <1>3, <1>4
<1> QED BY <1>2, <1>3, <1>7, <1>13, <1>14

QueueUnique == \A q : Ordered(lru, q) => LruQueue = q

LEMMA QueueFound == QueueUnique
<1> SUFFICES ASSUME NEW q, Ordered(lru, q) PROVE LruQueue = q
  BY DEF QueueUnique
<1>1. Lists(q, Held(lru.map)) /\ q \in Seq(Held(lru.map))
  BY DEF Ordered, Lists
<1>2. Cardinality(Held(lru.map)) = Len(q) /\ Len(q) \in Nat
  BY <1>1, ListsCount, LenProperties
<1>3. ASSUME NEW n \in 1..Len(q)
      PROVE  KeyAt(Back[n]) = q[n]
  <2>1. PICK i : i = Back[n]
    OBVIOUS
  <2>2. i = lru.map[q[n]]
    BY <2>1, BackWalks
  <2>3. q[n] \in Held(lru.map)
    BY <1>1, ElementOfSeq
  <2>4. lru.map[q[n]] # None /\ lru.nodes[lru.map[q[n]]].key = q[n]
    BY <2>3 DEF Held, Ordered
  <2>5. KeyAt(i) = q[n]
    BY <2>2, <2>4 DEF KeyAt
  <2> QED BY <2>1, <2>5
<1>4. LruQueue = [n \in 1..Len(q) |-> KeyAt(Back[n])]
  BY <1>2 DEF LruQueue
<1>5. q = [n \in 1..Len(q) |-> q[n]]
  BY <1>1
<1> QED BY <1>3, <1>4, <1>5

(* A step of the cache is one of the queue.                                *)
LEMMA LruImplements ==
  ASSUME QueueStep(LruHeld, LruQueue, LruHeld', LruQueue')
  PROVE  AsQueue!Next
<1>1. PICK k \in Keys :
        \/ LruHeld[k] # None /\ LruHeld' = LruHeld /\ LruQueue' = Append(retain(LruQueue, k), k)
        \/ LruHeld' = [LruHeld EXCEPT ![k] = None] /\ LruQueue' = retain(LruQueue, k)
        \/ \E v \in Values :
             \/ /\ LruHeld[k] # None
                /\ LruHeld' = [LruHeld EXCEPT ![k] = v] /\ LruQueue' = Append(retain(LruQueue, k), k)
             \/ /\ LruHeld[k] = None /\ Len(LruQueue) < Capacity
                /\ LruHeld' = [LruHeld EXCEPT ![k] = v] /\ LruQueue' = Append(LruQueue, k)
             \/ /\ LruHeld[k] = None /\ Len(LruQueue) = Capacity
                /\ LruHeld' = [LruHeld EXCEPT ![k] = v, ![Head(LruQueue)] = None]
                /\ LruQueue' = Append(Tail(LruQueue), k)
  BY DEF QueueStep
<1>2. AsQueue!Without(k) = retain(LruQueue, k)
  BY DEF AsQueue!Without, AsQueue!retain, retain, LruQueue
<1>3. AsQueue!Used(k) = Append(retain(LruQueue, k), k)
  BY <1>2 DEF AsQueue!Used
<1>4. CASE LruHeld[k] # None /\ LruHeld' = LruHeld /\ LruQueue' = Append(retain(LruQueue, k), k)
  <2>1. AsQueue!Get(k)
    BY <1>3, <1>4 DEF AsQueue!Get, LruHeld, LruQueue
  <2> QED BY <2>1 DEF AsQueue!Next
<1>5. CASE LruHeld' = [LruHeld EXCEPT ![k] = None] /\ LruQueue' = retain(LruQueue, k)
  <2>1. AsQueue!Invalidate(k)
    BY <1>2, <1>5 DEF AsQueue!Invalidate, LruHeld, LruQueue
  <2> QED BY <2>1 DEF AsQueue!Next
<1>6. ASSUME NEW v \in Values, LruHeld[k] # None, LruHeld' = [LruHeld EXCEPT ![k] = v],
             LruQueue' = Append(retain(LruQueue, k), k)
      PROVE  AsQueue!Next
  <2>1. AsQueue!Overwrite(k, v)
    BY <1>3, <1>6 DEF AsQueue!Overwrite, LruHeld, LruQueue
  <2> QED BY <2>1 DEF AsQueue!Next
<1>7. ASSUME NEW v \in Values, LruHeld[k] = None, Len(LruQueue) < Capacity,
             LruHeld' = [LruHeld EXCEPT ![k] = v], LruQueue' = Append(LruQueue, k)
      PROVE  AsQueue!Next
  <2>1. AsQueue!Insert(k, v)
    BY <1>7 DEF AsQueue!Insert, LruHeld, LruQueue
  <2> QED BY <2>1 DEF AsQueue!Next
<1>8. ASSUME NEW v \in Values, LruHeld[k] = None, Len(LruQueue) = Capacity,
             LruHeld' = [LruHeld EXCEPT ![k] = v, ![Head(LruQueue)] = None],
             LruQueue' = Append(Tail(LruQueue), k)
      PROVE  AsQueue!Next
  <2>1. AsQueue!Replace(k, v)
    BY <1>8 DEF AsQueue!Replace, LruHeld, LruQueue
  <2> QED BY <2>1 DEF AsQueue!Next
<1> QED BY <1>1, <1>4, <1>5, <1>6, <1>7, <1>8

(* The linked vector is a queue ordered by last use: the capacity is kept, *)
(* only the key that was not used for longest is evicted and only to make  *)
(* room, and each key has the value last put.                              *)
THEOREM LruRefinement == Spec => ImplementsLru
<1>1. Init => AsQueue!Init
  <2> SUFFICES ASSUME LruInit PROVE AsQueue!Init
    BY DEF Init
  <2>1. lru.map = Absent
    BY DEF LruInit
  <2>2. Held(lru.map) = {}
    BY <2>1 DEF Held, Absent
  <2>3. Cardinality(Held(lru.map)) = 0
    BY <2>2, FS_EmptySet
  <2>4. LruQueue = <<>>
    BY <2>3 DEF LruQueue
  <2>5. LruHeld = [k \in Keys |-> None]
    BY <2>1 DEF LruHeld, Absent
  <2> QED BY <2>4, <2>5 DEF AsQueue!Init, AsQueue!Absent, LruHeld, LruQueue
<1>2. QueueUnique /\ QueueUnique'
  BY QueueFound, PTL
<1>3. LruInv /\ [Next]_vars =>
        [AsQueue!Next]_<<[k \in Keys |-> IF lru.map[k] = None THEN None ELSE lru.nodes[lru.map[k]].value],
                         [n \in 1..Cardinality(Held(lru.map)) |-> KeyAt(Back[n])]>>
  <2> SUFFICES ASSUME LruInv, [Next]_vars
               PROVE  AsQueue!Next \/ UNCHANGED <<LruHeld, LruQueue>>
    BY DEF LruHeld, LruQueue
  <2>1. CASE LruNext
    <3>1. PICK q \in Seq(Keys) : Ordered(lru, q)
      BY DEF LruInv
    <3>2. PICK r : Ordered(lru', r) /\ QueueStep(HeldOf(lru), q, HeldOf(lru'), r)
      BY <2>1, <3>1, LruStep
    <3>3. LruQueue = q /\ LruQueue' = r
      BY <1>2, <3>1, <3>2 DEF QueueUnique
    <3>4. LruHeld = HeldOf(lru) /\ LruHeld' = HeldOf(lru')
      BY DEF LruHeld, HeldOf
    <3>5. QueueStep(LruHeld, LruQueue, LruHeld', LruQueue')
      BY <3>2, <3>3, <3>4
    <3> QED BY <3>5, LruImplements
  <2>2. CASE UNCHANGED lru
    BY <2>2 DEF LruHeld, LruQueue, KeyAt, Back
  <2> QED BY <2>1, <2>2 DEF Next, vars
<1> QED BY <1>1, <1>3, LruInductive, PTL DEF Spec, ImplementsLru, AsQueue!Spec
=============================================================================
