------------------------------ MODULE Recursion ------------------------------
(***************************************************************************)
(* Induction on natural numbers, in a form that needs no operator as a     *)
(* parameter: a property is the set of the numbers that have it.  From     *)
(* this follow the existence of functions that are defined by recursion    *)
(* and what FlattenSeq of SequencesExt computes.                           *)
(***************************************************************************)
EXTENDS Integers, Sequences, SequencesExt, SequenceTheorems, WellFoundedInduction, TLAPS

\* Every set of natural numbers has a least element.
LEMMA LeastNumber ==
  ASSUME NEW T, T \subseteq Nat, T # {}
  PROVE  \E n \in T : \A m \in T : n <= m
<1>1. \E n \in T : \A m \in T : <<m, n>> \notin OpToRel(<, Nat)
  BY NatLessThanWellFounded, WFMin, Zenon
<1>2. PICK n \in T : \A m \in T : ~(m < n)
  BY <1>1 DEF OpToRel
<1> QED  BY <1>2

\* What holds of the first number of an interval, and of n + 1 if of n, holds of all.
LEMMA UpTo ==
  ASSUME NEW a \in Int, NEW b \in Int, NEW T, a <= b => a \in T,
         \A n \in a..b : n \in T /\ n < b => n + 1 \in T
  PROVE  \A n \in a..b : n \in T
<1> DEFINE U == {i \in Nat : a + i <= b /\ a + i \notin T}
<1> SUFFICES ASSUME U # {} PROVE FALSE
  <2> SUFFICES ASSUME NEW n \in a..b, n \notin T PROVE U # {}
    OBVIOUS
  <2>1. n - a \in U
    OBVIOUS
  <2> QED  BY <2>1
<1>1. PICK i \in U : \A j \in U : i <= j
  BY LeastNumber
<1>2. i # 0
  BY <1>1
<1>3. i - 1 \notin U
  BY <1>1
<1>4. a + (i - 1) \in T
  BY <1>1, <1>2, <1>3
<1>5. a + (i - 1) \in a..b /\ a + (i - 1) < b
  BY <1>1, <1>2
<1> QED  BY <1>1, <1>4, <1>5

\* The functions that are defined on a..b by recursion: v is where they begin, h takes
\* a step from n - 1 to n.
Recursions(a, b, V, v, h) ==
  {f \in [a..b -> V] : f = [n \in a..b |-> IF n = a THEN v ELSE h[<<n, f[n - 1]>>]]}

LEMMA Recursive ==
  ASSUME NEW a \in Int, NEW b \in Int, NEW V, NEW v \in V, NEW h,
         \A n \in a..b, w \in V : h[<<n, w>>] \in V
  PROVE  Recursions(a, b, V, v, h) # {}
<1> USE DEF Recursions
<1> DEFINE Solves(f, m) == f = [n \in a..m |-> IF n = a THEN v ELSE h[<<n, f[n - 1]>>]]
           T == {m \in Int : \E f \in [a..m -> V] : Solves(f, m)}
<1>0. CASE a > b
  <2> DEFINE f == [n \in a..b |-> v]
  <2>1. a..b = {}
    BY <1>0
  <2>2. f \in [a..b -> V] /\ f = [n \in a..b |-> IF n = a THEN v ELSE h[<<n, f[n - 1]>>]]
    BY <2>1
  <2> HIDE DEF f
  <2> QED  BY <2>2
<1>1. a \in T
  <2> DEFINE f == [n \in a..a |-> v]
  <2>1. f \in [a..a -> V] /\ Solves(f, a)
    OBVIOUS
  <2> QED  BY <2>1
<1>2. ASSUME NEW m \in a..b, m \in T, m < b PROVE m + 1 \in T
  <2>1. PICK f \in [a..m -> V] : Solves(f, m)
    BY <1>2
  <2> DEFINE g == [n \in a..(m + 1) |-> IF n <= m THEN f[n] ELSE h[<<m + 1, f[m]>>]]
  <2>2. m \in a..m /\ m + 1 \in a..b
    BY <1>2
  <2>3. h[<<m + 1, f[m]>>] \in V
    BY <2>2
  <2>4. g \in [a..(m + 1) -> V]
    BY <2>3
  <2>5. ASSUME NEW n \in a..(m + 1)
        PROVE  g[n] = IF n = a THEN v ELSE h[<<n, g[n - 1]>>]
    <3>1. CASE n <= m
      <4>1. n \in a..m /\ (n # a => n - 1 \in a..m)
        BY <3>1
      <4>2. f[n] = IF n = a THEN v ELSE h[<<n, f[n - 1]>>]
        BY <2>1, <4>1
      <4> QED  BY <3>1, <4>1, <4>2
    <3>2. CASE n = m + 1
      BY <2>2, <3>2
    <3> QED  BY <3>1, <3>2
  <2>6. Solves(g, m + 1)
    <3> HIDE DEF g
    <3> QED  BY <2>4, <2>5
  <2> HIDE DEF g, Solves
  <2> QED  BY <2>4, <2>6
<1>3. CASE a <= b
  <2>1. \A n \in a..b : n \in T
    <3> HIDE DEF T
    <3>1. \A n \in a..b : n \in T /\ n < b => n + 1 \in T
      BY <1>2
    <3> QED  BY <1>1, <3>1, UpTo, Zenon
  <2>2. b \in T
    <3> HIDE DEF T
    <3> QED  BY <1>3, <2>1
  <2> QED  BY <2>2
<1> QED  BY <1>0, <1>3

\* The set a fold is left with has a last element.
LEMMA MaxOf ==
  ASSUME NEW n \in Nat, NEW s \in SUBSET (1..n), s # {}
  PROVE  Max(s) \in s /\ \A i \in s : i <= Max(s)
<1> DEFINE U == {m \in Nat : \A i \in s : i <= m}
<1>1. n \in U
  OBVIOUS
<1>2. PICK m \in U : \A k \in U : m <= k
  BY <1>1, LeastNumber
<1>3. m \in s
  <2> SUFFICES ASSUME m \notin s PROVE FALSE
    OBVIOUS
  <2>1. m \in Nat /\ \A i \in s : i <= m /\ i # m /\ i \in Nat \ {0}
    BY <1>2
  <2>2. m - 1 \in Nat
    <3>1. PICK i \in s : TRUE
      OBVIOUS
    <3> QED  BY <2>1, <3>1
  <2>4. ASSUME NEW i \in s PROVE i <= m - 1
    BY <2>1
  <2>3. m - 1 \in U
    BY <2>2, <2>4
  <2> QED  BY <1>2, <2>1, <2>3
<1>4. \E i \in s : \A j \in s : i >= j
  BY <1>2, <1>3
<1>5. Max(s) \in s /\ \A j \in s : Max(s) >= j
  BY <1>4 DEF Max
<1> QED  BY <1>5

\* The functions with which FoldLeft is defined, by recursion on sets of indices.
Foldings(n, V, v, h) ==
  {f \in [SUBSET (1..n) -> V] :
     f = [s \in SUBSET (1..n) |-> IF s = {} THEN v ELSE h[<<Max(s), f[s \ {Max(s)}]>>]]}

LEMMA FoldExists ==
  ASSUME NEW n \in Nat, NEW V, NEW v \in V, NEW h,
         \A i \in 1..n, w \in V : h[<<i, w>>] \in V
  PROVE  Foldings(n, V, v, h) # {}
<1> DEFINE Is(f, s) == f[s] = IF s = {} THEN v ELSE h[<<Max(s), f[s \ {Max(s)}]>>]
           Solves(f, m) == \A s \in SUBSET (1..m) : Is(f, s)
           T == {m \in Int : \E f \in [SUBSET (1..m) -> V] : Solves(f, m)}
<1>1. 0 \in T
  <2> DEFINE f == [s \in SUBSET (1..0) |-> v]
  <2>1. 1..0 = {}
    OBVIOUS
  <2>2. f \in [SUBSET (1..0) -> V]
    OBVIOUS
  <2>3. Solves(f, 0)
    BY <2>1
  <2> HIDE DEF f, Solves
  <2> QED  BY <2>2, <2>3
<1>2. ASSUME NEW m \in 0..n, m \in T, m < n PROVE m + 1 \in T
  <2> DEFINE P == SUBSET (1..m)
             Q == SUBSET (1..(m + 1))
  <2>1. PICK f \in [P -> V] : Solves(f, m)
    BY <1>2
  <2> DEFINE g == [s \in Q |-> IF m + 1 \in s THEN h[<<m + 1, f[s \ {m + 1}]>>] ELSE f[s]]
  <2>2. ASSUME NEW s \in Q PROVE s \ {m + 1} \in P /\ (m + 1 \notin s => s \in P)
    OBVIOUS
  <2>3. m + 1 \in 1..n /\ m + 1 \in Nat
    BY <1>2
  <2>4. g \in [Q -> V]
    <3>1. ASSUME NEW s \in Q PROVE (IF m + 1 \in s THEN h[<<m + 1, f[s \ {m + 1}]>>] ELSE f[s]) \in V
      <4>1. f[s \ {m + 1}] \in V
        BY <2>2
      <4> QED  BY <2>2, <2>3, <4>1
    <3> QED  BY <3>1
  <2>5. ASSUME NEW s \in Q PROVE Is(g, s)
    <3>1. CASE m + 1 \in s
      <4>1. Max(s) \in 1..(m + 1) /\ m + 1 <= Max(s)
        <5>1. s # {}
          BY <3>1
        <5>2. Max(s) \in s /\ \A i \in s : i <= Max(s)
          BY <2>3, <5>1, MaxOf
        <5> QED  BY <3>1, <5>2
      <4>2. Max(s) = m + 1
        BY <2>3, <4>1
      <4>3. s \ {m + 1} \in Q /\ m + 1 \notin s \ {m + 1} /\ s # {}
        BY <3>1
      <4>4. g[s \ {m + 1}] = f[s \ {m + 1}] /\ g[s] = h[<<m + 1, f[s \ {m + 1}]>>]
        BY <3>1, <4>3
      <4> HIDE DEF g
      <4> QED  BY <3>1, <4>2, <4>4
    <3>2. CASE m + 1 \notin s
      <4>1. s \in P
        BY <2>2, <3>2
      <4>2. s # {} => Max(s) \in s
        <5>1. m \in Nat
          OBVIOUS
        <5> QED  BY <4>1, <5>1, MaxOf
      <4>3. s \ {Max(s)} \in Q /\ m + 1 \notin s \ {Max(s)}
        BY <3>2
      <4>4. g[s] = f[s] /\ g[s \ {Max(s)}] = f[s \ {Max(s)}]
        BY <3>2, <4>3
      <4>5. f[s] = IF s = {} THEN v ELSE h[<<Max(s), f[s \ {Max(s)}]>>]
        BY <2>1, <4>1
      <4> HIDE DEF g
      <4> QED  BY <4>4, <4>5
    <3> QED  BY <3>1, <3>2
  <2>6. Solves(g, m + 1)
    <3> HIDE DEF g, Is
    <3> QED  BY <2>5
  <2> HIDE DEF g, Solves
  <2> QED  BY <2>3, <2>4, <2>6
<1>3. n \in T
  <2> HIDE DEF T
  <2>0. 0 <= n /\ n \in 0..n
    OBVIOUS
  <2>1. \A m \in 0..n : m \in T /\ m < n => m + 1 \in T
    BY <1>2
  <2>2. \A m \in 0..n : m \in T
    BY <1>1, <2>1, UpTo
  <2> QED  BY <2>0, <2>2
<1>4. PICK f \in [SUBSET (1..n) -> V] : Solves(f, n)
  BY <1>3
<1> QED  BY <1>4 DEF Foldings

\* FlattenSeq adds one sequence after the other.
LEMMA FlattenSteps ==
  ASSUME NEW E, NEW ss \in Seq(Seq(E))
  PROVE  \E f \in [0..Len(ss) -> Seq(E)] :
           /\ f[0] = << >>
           /\ \A n \in 1..Len(ss) : f[n] = f[n - 1] \o ss[n]
           /\ FlattenSeq(ss) = f[Len(ss)]
<1> DEFINE N == Len(ss)
           V == Seq(E)
           Add(w, n) == w \o ss[n]
           h == [x \in (1..N) \X V |-> Add(x[2], x[1])]
           body(f) == [i \in 1..N |-> IF i = 1 THEN ss[i] ELSE Add(f[i - 1], i)]
           flatten == CHOOSE f : f = body(f)
<1>1. N \in Nat /\ << >> \in V /\ \A n \in 1..N : ss[n] \in V
  OBVIOUS
<1>4. \A n \in 1..N, w \in V : Add(w, n) \in V
  <2> SUFFICES ASSUME NEW n \in 1..N, NEW w \in V PROVE w \o ss[n] \in V
    OBVIOUS
  <2>1. ss[n] \in Seq(E) /\ w \in Seq(E)
    BY <1>1
  <2> QED  BY <2>1, ConcatProperties
<1>5. N # 0 => ss[1] \in V /\ << >> \o ss[1] = ss[1]
  BY <1>1
<1>6. \A w, n : Add(w, n) = w \o ss[n]
  OBVIOUS
<1>2. CASE N = 0
  <2>1. ss = << >>
    BY <1>2
  <2>2. FlattenSeq(ss) = << >>
    BY <1>2, <2>1, Zenon DEF FlattenSeq
  <2> DEFINE f == [n \in 0..0 |-> << >>]
  <2>3. f \in [0..Len(ss) -> Seq(E)] /\ f[0] = << >> /\ f[Len(ss)] = << >>
    BY <1>2
  <2>4. 1..Len(ss) = {}
    BY <1>2
  <2> HIDE DEF f
  <2> QED  BY <2>2, <2>3, <2>4
<1>3. CASE N # 0
  <2>0. FlattenSeq(ss) = flatten[N]
    BY <1>3, Zenon DEF FlattenSeq
  <2> HIDE DEF Add
  <2>1. \A n \in 1..N, w \in V : h[<<n, w>>] \in V /\ h[<<n, w>>] = Add(w, n)
    BY <1>4
  <2>2. PICK f \in [1..N -> V] : f = [n \in 1..N |-> IF n = 1 THEN ss[1] ELSE h[<<n, f[n - 1]>>]]
    <3>1. Recursions(1, N, V, ss[1], h) # {}
      <4>1. \A n \in 1..N, w \in V : h[<<n, w>>] \in V
        BY <2>1
      <4>2. 1 \in Int /\ N \in Int /\ ss[1] \in V
        BY <1>1, <1>3
      <4> HIDE DEF h, N, V
      <4> QED  BY <4>1, <4>2, Recursive
    <3> QED  BY <3>1 DEF Recursions
  <2>3. f = body(f)
    <3>1. ASSUME NEW n \in 1..N, n # 1 PROVE h[<<n, f[n - 1]>>] = Add(f[n - 1], n)
      <4>1. f[n - 1] \in V
        <5>1. n - 1 \in 1..N
          BY <1>1, <3>1
        <5> HIDE DEF V
        <5> QED  BY <5>1
      <4> HIDE DEF h, V
      <4> QED  BY <2>1, <4>1
    <3> HIDE DEF h
    <3> QED  BY <2>2, <3>1
  <2>4. flatten = body(flatten)
    <3> HIDE DEF body
    <3> QED  BY <2>3
  <2> HIDE DEF flatten
  <2> DEFINE g == [n \in 0..N |-> IF n = 0 THEN << >> ELSE flatten[n]]
             T == {n \in Int : g[n] \in V}
  <2>6. /\ g[0] = << >> /\ g = [n \in 0..N |-> g[n]] /\ g[N] = flatten[N]
        /\ \A n \in 1..N : g[n] = flatten[n]
    BY <1>1, <1>3
  <2>7. ASSUME NEW n \in 1..N PROVE g[n] = Add(g[n - 1], n)
    <3>1. CASE n = 1
      <4>1. flatten[1] = ss[1]
        BY <1>1, <1>3, <2>4
      <4>2. g[1] = ss[1] /\ g[0] = << >> /\ n - 1 = 0
        BY <2>6, <3>1, <4>1
      <4> HIDE DEF g
      <4> QED  BY <1>3, <1>5, <1>6, <3>1, <4>2, Zenon
    <3>2. CASE n # 1
      <4>1. flatten[n] = Add(flatten[n - 1], n) /\ n - 1 \in 1..N
        <5>1. flatten[n] = Add(flatten[n - 1], n)
          <6> HIDE DEF N
          <6> QED  BY <2>4, <3>2
        <5> QED  BY <1>1, <3>2, <5>1
      <4> HIDE DEF g
      <4> QED  BY <2>6, <4>1
    <3> QED  BY <3>1, <3>2
  <2> HIDE DEF g
  <2>8. \A n \in 0..N : g[n] \in V
    <3> HIDE DEF V, N
    <3>1. 0 \in T /\ 0 \in Int /\ N \in Int
      BY <1>1, <2>6
    <3>2. \A n \in 0..N : n \in T /\ n < N => n + 1 \in T
      <4> SUFFICES ASSUME NEW n \in 0..N, n \in T, n < N PROVE n + 1 \in T
        OBVIOUS
      <4>1. n + 1 \in 1..N /\ (n + 1) - 1 = n /\ g[n] \in V
        BY <1>1
      <4>2. g[n + 1] = Add(g[n], n + 1)
        BY <2>7, <4>1
      <4>3. g[n + 1] \in V
        BY <1>4, <4>1, <4>2
      <4> QED  BY <4>1, <4>3
    <3> HIDE DEF T
    <3>3. \A n \in 0..N : n \in T
      BY <3>1, <3>2, UpTo, Zenon
    <3> USE DEF T
    <3> QED  BY <3>3
  <2>9. g \in [0..N -> V]
    BY <2>6, <2>8, Zenon
  <2> QED  BY <1>6, <2>0, <2>6, <2>7, <2>9
<1> QED  BY <1>2, <1>3

\* One sequence more.
LEMMA FlattenAppend ==
  ASSUME NEW E, NEW ss \in Seq(Seq(E)), NEW s \in Seq(E)
  PROVE  /\ FlattenSeq(ss) \in Seq(E)
         /\ FlattenSeq(Append(ss, s)) = FlattenSeq(ss) \o s
<1> DEFINE N == Len(ss)
           tt == Append(ss, s)
<1>1. N \in Nat /\ tt \in Seq(Seq(E)) /\ Len(tt) = N + 1 /\ tt[N + 1] = s
      /\ \A n \in 1..N : tt[n] = ss[n]
  OBVIOUS
<1>2. PICK f \in [0..Len(ss) -> Seq(E)] :
        /\ f[0] = << >>
        /\ \A n \in 1..Len(ss) : f[n] = f[n - 1] \o ss[n]
        /\ FlattenSeq(ss) = f[Len(ss)]
  BY FlattenSteps
<1>3. PICK g \in [0..Len(tt) -> Seq(E)] :
        /\ g[0] = << >>
        /\ \A n \in 1..Len(tt) : g[n] = g[n - 1] \o tt[n]
        /\ FlattenSeq(tt) = g[Len(tt)]
  <2> HIDE DEF tt
  <2> QED  BY <1>1, FlattenSteps
<1> DEFINE T == {n \in Int : f[n] = g[n]}
<1>4. 0 \in T /\ 0 \in Int /\ N \in Int /\ N \in 0..N
  BY <1>1, <1>2, <1>3
<1>5. \A n \in 0..N : n \in T /\ n < N => n + 1 \in T
  <2> SUFFICES ASSUME NEW n \in 0..N, n \in T, n < N PROVE n + 1 \in T
    OBVIOUS
  <2>1. n + 1 \in 1..N /\ n + 1 \in 1..Len(tt) /\ (n + 1) - 1 = n
    BY <1>1
  <2>2. f[n + 1] = f[n] \o ss[n + 1]
    BY <1>2, <2>1
  <2>3. g[n + 1] = g[n] \o ss[n + 1]
    <3> HIDE DEF tt
    <3> QED  BY <1>1, <1>3, <2>1
  <2>4. f[n + 1] = g[n + 1]
    <3> HIDE DEF tt
    <3> QED  BY <2>2, <2>3
  <2> QED  BY <2>1, <2>4
<1>6. N \in T
  <2> HIDE DEF T
  <2>1. \A n \in 0..N : n \in T
    BY <1>4, <1>5, UpTo, Zenon
  <2> QED  BY <1>4, <2>1
<1>7. N + 1 \in 1..Len(tt) /\ (N + 1) - 1 = N
  BY <1>1
<1>8. FlattenSeq(tt) = g[N] \o s
  <2> HIDE DEF tt
  <2> QED  BY <1>1, <1>3, <1>7
<1>9. f[N] = g[N] /\ FlattenSeq(ss) = f[N] /\ f[N] \in Seq(E)
  BY <1>1, <1>2, <1>6
<1> QED  BY <1>8, <1>9, Zenon

\* What holds of << >>, and of a longer sequence if of the shorter one, holds of all.
LEMMA ElementByElement ==
  ASSUME NEW E, NEW T, << >> \in T, \A s \in Seq(E), e \in E : s \in T => Append(s, e) \in T
  PROVE  Seq(E) \subseteq T
<1> DEFINE U == {n \in Int : \A s \in Seq(E) : Len(s) = n => s \in T}
<1>1. 0 \in U
  <2>1. \A s \in Seq(E) : Len(s) = 0 => s = << >>
    OBVIOUS
  <2> QED  BY <2>1
<1>2. ASSUME NEW n \in Nat, n \in U PROVE n + 1 \in U
  <2> SUFFICES ASSUME NEW s \in Seq(E), Len(s) = n + 1 PROVE s \in T
    OBVIOUS
  <2> DEFINE t == SubSeq(s, 1, n)
             e == s[n + 1]
  <2>1. t \in Seq(E) /\ Len(t) = n /\ e \in E /\ Append(t, e) = s
    OBVIOUS
  <2> HIDE DEF t, e
  <2>2. t \in T
    BY <1>2, <2>1
  <2> QED  BY <2>1, <2>2
<1> SUFFICES ASSUME NEW s \in Seq(E) PROVE s \in T
  OBVIOUS
<1>3. 0 \in Int /\ Len(s) \in Int /\ Len(s) \in 0..Len(s)
  OBVIOUS
<1>4. Len(s) \in U
  <2> HIDE DEF U
  <2>1. \A n \in 0..Len(s) : n \in U /\ n < Len(s) => n + 1 \in U
    BY <1>2
  <2>2. \A n \in 0..Len(s) : n \in U
    BY <1>1, <1>3, <2>1, UpTo, Zenon
  <2> QED  BY <1>3, <2>2
<1> QED  BY <1>4

\* What becomes of a sequence whose elements are each replaced by a sequence.
Mapped(h, x) == FlattenSeq([k \in DOMAIN x |-> h[x[k]]])

LEMMA MappedAppend ==
  ASSUME NEW E, NEW F, NEW h \in [E -> Seq(F)], NEW y \in Seq(E), NEW e \in E
  PROVE  Mapped(h, Append(y, e)) = Mapped(h, y) \o h[e]
<1> DEFINE images(z) == [k \in DOMAIN z |-> h[z[k]]]
<1>1. images(y) \in Seq(Seq(F)) /\ Len(images(y)) = Len(y) /\ h[e] \in Seq(F)
  <2>1. DOMAIN y = 1..Len(y) /\ Len(y) \in Nat /\ \A k \in DOMAIN y : h[y[k]] \in Seq(F)
    OBVIOUS
  <2>2. images(y) \in [1..Len(y) -> Seq(F)]
    BY <2>1
  <2> QED  BY <2>1, <2>2
<1>2. images(Append(y, e)) = Append(images(y), h[e])
  <2>1. DOMAIN Append(y, e) = 1..(Len(y) + 1) /\ DOMAIN y = 1..Len(y) /\ Len(y) \in Nat
        /\ \A k \in 1..(Len(y) + 1) : Append(y, e)[k] = IF k = Len(y) + 1 THEN e ELSE y[k]
    <3>1. Append(y, e) \in Seq(E) /\ Len(Append(y, e)) = Len(y) + 1
      OBVIOUS
    <3> QED  BY <3>1, AppendProperties
  <2>2. \A k \in 1..(Len(y) + 1) :
          Append(images(y), h[e])[k] = IF k = Len(y) + 1 THEN h[e] ELSE h[y[k]]
    BY <1>1, <2>1
  <2>3. Append(images(y), h[e]) = [k \in 1..(Len(y) + 1) |-> Append(images(y), h[e])[k]]
    <3> DEFINE i == images(y)
    <3> HIDE DEF i
    <3>1. i \in Seq(Seq(F)) /\ Len(i) = Len(y)
      BY <1>1 DEF i
    <3>2. Append(i, h[e]) = [k \in 1..(Len(y) + 1) |-> Append(i, h[e])[k]]
      BY <1>1, <3>1
    <3> QED  BY <3>2 DEF i
  <2> QED  BY <2>1, <2>2, <2>3
<1> HIDE DEF images
<1>3. FlattenSeq(Append(images(y), h[e])) = FlattenSeq(images(y)) \o h[e]
  BY <1>1, FlattenAppend
<1> QED  BY <1>2, <1>3 DEF Mapped, images

LEMMA MappedNone == \A h : Mapped(h, << >>) = << >>
<1> SUFFICES ASSUME NEW h PROVE Mapped(h, << >>) = << >>
  OBVIOUS
<1>1. [k \in DOMAIN << >> |-> h[<< >>[k]]] = << >>
  OBVIOUS
<1> QED  BY <1>1, Zenon DEF Mapped, FlattenSeq

LEMMA MappedType ==
  ASSUME NEW E, NEW F, NEW h \in [E -> Seq(F)], NEW x \in Seq(E)
  PROVE  Mapped(h, x) \in Seq(F)
<1> DEFINE images == [k \in DOMAIN x |-> h[x[k]]]
<1>1. images \in Seq(Seq(F))
  <2>1. DOMAIN x = 1..Len(x) /\ Len(x) \in Nat /\ \A k \in DOMAIN x : h[x[k]] \in Seq(F)
    OBVIOUS
  <2>2. images \in [1..Len(x) -> Seq(F)]
    BY <2>1
  <2> QED  BY <2>1, <2>2
<1>2. << >> \in Seq(F)
  OBVIOUS
<1> HIDE DEF images
<1>3. FlattenSeq(images) \in Seq(F)
  BY <1>1, <1>2, FlattenAppend
<1> QED  BY <1>3 DEF Mapped, images

LEMMA MappedOne ==
  ASSUME NEW E, NEW F, NEW h \in [E -> Seq(F)], NEW e \in E
  PROVE  Mapped(h, <<e>>) = h[e]
<1>1. << >> \in Seq(E) /\ Append(<< >>, e) = <<e>> /\ h[e] \in Seq(F)
  OBVIOUS
<1>2. Mapped(h, Append(<< >>, e)) = Mapped(h, << >>) \o h[e]
  BY <1>1, MappedAppend
<1>3. << >> \o h[e] = h[e]
  BY <1>1
<1> QED  BY <1>1, <1>2, <1>3, MappedNone

LEMMA MappedConcat ==
  ASSUME NEW E, NEW F, NEW h \in [E -> Seq(F)], NEW x \in Seq(E), NEW y \in Seq(E)
  PROVE  Mapped(h, x \o y) = Mapped(h, x) \o Mapped(h, y)
<1> DEFINE T == {z \in Seq(E) : Mapped(h, x \o z) = Mapped(h, x) \o Mapped(h, z)}
<1>1. \A z \in Seq(E) : Mapped(h, z) \in Seq(F)
  BY MappedType
<1>2. << >> \in T
  <2>1. Mapped(h, << >>) = << >>
    BY MappedNone
  <2>3. x \o << >> = x /\ << >> \in Seq(E)
    OBVIOUS
  <2>2. Mapped(h, x) \o << >> = Mapped(h, x)
    BY <1>1
  <2> QED  BY <2>1, <2>2, <2>3
<1>3. \A z \in Seq(E), e \in E : z \in T => Append(z, e) \in T
  <2> SUFFICES ASSUME NEW z \in Seq(E), NEW e \in E, z \in T PROVE Append(z, e) \in T
    OBVIOUS
  <2>1. Append(z, e) \in Seq(E) /\ x \o z \in Seq(E) /\ h[e] \in Seq(F)
    OBVIOUS
  <2>2. x \o Append(z, e) = Append(x \o z, e)
    OBVIOUS
  <2>3. Mapped(h, x \o Append(z, e)) = (Mapped(h, x) \o Mapped(h, z)) \o h[e]
    <3>1. Mapped(h, Append(x \o z, e)) = Mapped(h, x \o z) \o h[e]
      BY <2>1, MappedAppend
    <3> QED  BY <2>2, <3>1
  <2>4. Mapped(h, Append(z, e)) = Mapped(h, z) \o h[e]
    BY MappedAppend
  <2>5. (Mapped(h, x) \o Mapped(h, z)) \o h[e] = Mapped(h, x) \o (Mapped(h, z) \o h[e])
    BY <1>1, <2>1, ConcatAssociative
  <2> QED  BY <2>1, <2>3, <2>4, <2>5
<1>4. Seq(E) \subseteq T
  <2> HIDE DEF T
  <2> QED  BY <1>2, <1>3, ElementByElement, Zenon
<1> QED  BY <1>4

\* The same, in a form that is easy to cite.
Images(E, F) == [E -> Seq(F)]
Joined(x, y) == x \o y

LEMMA MappedJoined ==
  ASSUME NEW E, NEW F, NEW h \in Images(E, F), NEW x \in Seq(E), NEW y \in Seq(E)
  PROVE  Mapped(h, Joined(x, y)) = Joined(Mapped(h, x), Mapped(h, y))
BY MappedConcat DEF Images, Joined

\* Each element is replaced by itself.
LEMMA MappedToItself ==
  ASSUME NEW E, NEW h, \A e \in E : h[e] = <<e>>, NEW x \in Seq(E)
  PROVE  Mapped(h, x) = x
<1> DEFINE g == [e \in E |-> <<e>>]
           T == {z \in Seq(E) : Mapped(g, z) = z}
<1>1. g \in [E -> Seq(E)]
  OBVIOUS
<1>2. << >> \in T
  <2> QED  BY MappedNone
<1>3. \A z \in Seq(E), e \in E : z \in T => Append(z, e) \in T
  <2> SUFFICES ASSUME NEW z \in Seq(E), NEW e \in E, z \in T PROVE Append(z, e) \in T
    OBVIOUS
  <2>1. g[e] = <<e>> /\ z \o <<e>> = Append(z, e)
    OBVIOUS
  <2> HIDE DEF g
  <2>2. Mapped(g, Append(z, e)) = Mapped(g, z) \o g[e]
    BY <1>1, MappedAppend
  <2> QED  BY <2>1, <2>2
<1>4. Seq(E) \subseteq T
  <2> HIDE DEF T
  <2> QED  BY <1>2, <1>3, ElementByElement, Zenon
<1>5. Mapped(h, x) = Mapped(g, x)
  <2>1. \A k \in DOMAIN x : h[x[k]] = g[x[k]]
    OBVIOUS
  <2> HIDE DEF g
  <2>2. [k \in DOMAIN x |-> h[x[k]]] = [k \in DOMAIN x |-> g[x[k]]]
    BY <2>1
  <2> QED  BY <2>2 DEF Mapped
<1> QED  BY <1>4, <1>5

LEMMA MappedPointwise ==
  ASSUME NEW x, NEW y, DOMAIN x = DOMAIN y, NEW g, NEW h, \A k \in DOMAIN x : g[x[k]] = h[y[k]]
  PROVE  Mapped(g, x) = Mapped(h, y)
<1>1. [k \in DOMAIN x |-> g[x[k]]] = [k \in DOMAIN y |-> h[y[k]]]
  OBVIOUS
<1> QED  BY <1>1, Zenon DEF Mapped

\* What is left out is gone.
LEMMA MappedToNothing ==
  ASSUME NEW E, NEW h, \A e \in E : h[e] = << >>, NEW x \in Seq(E)
  PROVE  Mapped(h, x) = << >>
<1> DEFINE g == [e \in E |-> << >>]
           T == {z \in Seq(E) : Mapped(g, z) = << >>}
<1>1. g \in [E -> Seq({})]
  OBVIOUS
<1>2. << >> \in T
  BY MappedNone
<1>3. \A z \in Seq(E), e \in E : z \in T => Append(z, e) \in T
  <2> SUFFICES ASSUME NEW z \in Seq(E), NEW e \in E, z \in T PROVE Append(z, e) \in T
    OBVIOUS
  <2>1. g[e] = << >> /\ << >> \o << >> = << >>
    OBVIOUS
  <2> HIDE DEF g
  <2>2. Mapped(g, Append(z, e)) = Mapped(g, z) \o g[e]
    BY <1>1, MappedAppend
  <2> QED  BY <2>1, <2>2
<1>4. Seq(E) \subseteq T
  <2> HIDE DEF T
  <2> QED  BY <1>2, <1>3, ElementByElement, Zenon
<1>5. \A k \in DOMAIN x : h[x[k]] = g[x[k]]
  OBVIOUS
<1> HIDE DEF g
<1>6. Mapped(h, x) = Mapped(g, x)
  BY <1>5, MappedPointwise
<1> QED  BY <1>4, <1>6

\* To replace the elements twice is to replace them once by what comes of it.
Through(E, g, h) == [e \in E |-> Mapped(h, g[e])]

LEMMA MappedTwice ==
  ASSUME NEW E, NEW F, NEW G, NEW g \in Images(E, F), NEW h \in Images(F, G), NEW x \in Seq(E)
  PROVE  Mapped(h, Mapped(g, x)) = Mapped(Through(E, g, h), x)
<1> USE DEF Images
<1> DEFINE t == Through(E, g, h)
           T == {z \in Seq(E) : Mapped(h, Mapped(g, z)) = Mapped(t, z)}
<1>1. t \in [E -> Seq(G)] /\ \A e \in E : t[e] = Mapped(h, g[e]) /\ g[e] \in Seq(F)
  BY MappedType DEF Through
<1> HIDE DEF t
<1>2. << >> \in T
  BY MappedNone
<1>3. \A z \in Seq(E), e \in E : z \in T => Append(z, e) \in T
  <2> SUFFICES ASSUME NEW z \in Seq(E), NEW e \in E, z \in T PROVE Append(z, e) \in T
    OBVIOUS
  <2>1. Mapped(g, Append(z, e)) = Mapped(g, z) \o g[e] /\ Mapped(g, z) \in Seq(F)
    BY MappedAppend, MappedType
  <2>2. Mapped(h, Mapped(g, z) \o g[e]) = Mapped(h, Mapped(g, z)) \o Mapped(h, g[e])
    <3>1. h \in Images(F, G) /\ Mapped(g, z) \in Seq(F) /\ g[e] \in Seq(F)
      BY <1>1, <2>1
    <3> HIDE DEF Images
    <3>2. Mapped(h, Joined(Mapped(g, z), g[e])) = Joined(Mapped(h, Mapped(g, z)), Mapped(h, g[e]))
      BY <3>1, MappedJoined
    <3> QED  BY <3>2 DEF Joined
  <2>3. Mapped(t, Append(z, e)) = Mapped(t, z) \o t[e]
    BY <1>1, MappedAppend
  <2>4. Mapped(h, Mapped(g, z)) = Mapped(t, z) /\ t[e] = Mapped(h, g[e])
    BY <1>1
  <2>5. Mapped(h, Mapped(g, Append(z, e))) = Mapped(t, Append(z, e))
    BY <2>1, <2>2, <2>3, <2>4, Zenon
  <2>6. Append(z, e) \in Seq(E)
    OBVIOUS
  <2> QED  BY <2>5, <2>6
<1>4. Seq(E) \subseteq T
  <2> HIDE DEF T
  <2> QED  BY <1>2, <1>3, ElementByElement, Zenon
<1> QED  BY <1>4 DEF t
=============================================================================
