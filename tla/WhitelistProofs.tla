--------------------------- MODULE WhitelistProofs ---------------------------
(***************************************************************************)
(* However a path is written, with whatever dots and slashes: a path that  *)
(* the whitelist allows leads to one of its entries or below one.          *)
(***************************************************************************)
EXTENDS Whitelist, Recursion, SequenceTheorems

\* One element of the path is skipped, taken, or takes back the one before.
LEMMA ElementCases ==
  ASSUME NEW w, NEW e
  PROVE  /\ e \in {"", "."} => CleanElement(w, e) = w
         /\ e \notin {"", ".", ".."} => CleanElement(w, e) = Append(w, e)
         /\ e = ".." => CleanElement(w, e) = IF w = << >> THEN w ELSE SubSeq(w, 1, Len(w) - 1)
<1>1. ".." \notin {"", "."}
  BY Zenon
<1> QED  BY <1>1, Zenon DEF CleanElement, Front

LEMMA ElementType ==
  ASSUME NEW E, NEW w \in Seq(E), NEW e \in E
  PROVE  CleanElement(w, e) \in Seq(E)
<1>1. CleanElement(w, e) \in {w, Append(w, e), SubSeq(w, 1, Len(w) - 1)}
  BY ElementCases, Zenon
<1>2. Append(w, e) \in Seq(E) /\ SubSeq(w, 1, Len(w) - 1) \in Seq(E)
  <2>1. \A k \in 1..(Len(w) - 1) : w[k] \in E
    OBVIOUS
  <2> QED  BY <2>1
<1> QED  BY <1>1, <1>2

\* path.Clean goes through the path element by element.
LEMMA CleanSteps ==
  ASSUME NEW E, NEW q \in Seq(E)
  PROVE  \E d \in [0..Len(q) -> Seq(E)] :
           /\ d[0] = << >>
           /\ \A n \in 1..Len(q) : d[n] = CleanElement(d[n - 1], q[n])
           /\ FoldLeft(CleanElement, << >>, q) = d[Len(q)]
<1> DEFINE N == Len(q)
           V == Seq(E)
           h == [x \in (1..N) \X V |-> CleanElement(x[2], q[x[1]])]
           body(f) == [s \in SUBSET (1..N) |->
                         IF s = {} THEN << >>
                         ELSE CleanElement(f[s \ {Max(s)}], q[Max(s)])]
           iter == CHOOSE f : f = body(f)
<1>1. N \in Nat /\ << >> \in V /\ DOMAIN q = 1..N
  OBVIOUS
<1>2. ASSUME NEW i \in 1..N, NEW w \in V PROVE CleanElement(w, q[i]) \in V
  BY ElementType
<1>3. \A i \in 1..N, w \in V : h[<<i, w>>] = CleanElement(w, q[i])
  OBVIOUS
<1>4. PICK f \in [SUBSET (1..N) -> V] :
        f = [s \in SUBSET (1..N) |-> IF s = {} THEN << >> ELSE h[<<Max(s), f[s \ {Max(s)}]>>]]
  <2>1. \A i \in 1..N, w \in V : h[<<i, w>>] \in V
    BY <1>2, <1>3
  <2>2. Foldings(N, V, << >>, h) # {}
    <3> HIDE DEF h, N, V
    <3> QED  BY <1>1, <2>1, FoldExists
  <2> QED  BY <2>2 DEF Foldings
<1>5. f = body(f)
  <2>1. ASSUME NEW s \in SUBSET (1..N), s # {}
        PROVE  h[<<Max(s), f[s \ {Max(s)}]>>] = CleanElement(f[s \ {Max(s)}], q[Max(s)])
    <3>1. Max(s) \in 1..N
      BY <1>1, <2>1, MaxOf
    <3>2. f[s \ {Max(s)}] \in V
      OBVIOUS
    <3> HIDE DEF h
    <3> QED  BY <1>3, <3>1, <3>2
  <2> HIDE DEF h
  <2> QED  BY <1>4, <2>1
<1>6. iter = body(iter)
  <2> HIDE DEF body
  <2> QED  BY <1>5
<1>7. FoldLeft(CleanElement, << >>, q) = iter[1..N]
  BY <1>1, Zenon DEF FoldLeft, MapThenFoldSet
<1> DEFINE d == [n \in 0..N |-> iter[1..n]]
<1> HIDE DEF iter
<1>8. d[0] = << >>
  <2>1. 1..0 = {} /\ {} \in SUBSET (1..N) /\ 0 \in 0..N
    OBVIOUS
  <2> QED  BY <1>6, <2>1
<1>9. ASSUME NEW n \in 1..N PROVE d[n] = CleanElement(d[n - 1], q[n])
  <2>1. 1..n \in SUBSET (1..N) /\ 1..n # {} /\ (1..n) \ {n} = 1..(n - 1)
    <3>1. n \in Nat /\ 1 <= n /\ n <= N
      BY <1>1
    <3> HIDE DEF N
    <3> QED  BY <1>1, <3>1
  <2>2. Max(1..n) = n
    <3>1. Max(1..n) \in 1..n /\ \A i \in 1..n : i <= Max(1..n)
      BY <1>1, <2>1, MaxOf
    <3> QED  BY <3>1
  <2>3. iter[1..n] = CleanElement(iter[(1..n) \ {n}], q[n])
    BY <1>6, <2>1, <2>2
  <2> QED  BY <2>1, <2>3
<1>12. d[N] = iter[1..N] /\ d = [n \in 0..N |-> d[n]]
  BY <1>1
<1> HIDE DEF d
<1>10. \A n \in 0..N : d[n] \in V
  <2> DEFINE T == {n \in Int : d[n] \in V}
  <2>1. 0 \in T
    <3>1. d[0] \in V
      BY <1>1, <1>8, Zenon
    <3> QED  BY <3>1
  <2>2. \A n \in 0..N : n \in T /\ n < N => n + 1 \in T
    <3> SUFFICES ASSUME NEW n \in 0..N, n \in T, n < N PROVE n + 1 \in T
      OBVIOUS
    <3>1. n + 1 \in 1..N /\ (n + 1) - 1 = n /\ d[n] \in V
      OBVIOUS
    <3>2. d[n + 1] = CleanElement(d[n], q[n + 1])
      BY <1>9, <3>1
    <3> QED  BY <1>2, <3>1, <3>2
  <2> HIDE DEF T
  <2>3. \A n \in 0..N : n \in T
    <3>1. 0 \in Int /\ N \in Int
      BY <1>1
    <3> QED  BY <2>1, <2>2, <3>1, UpTo, Zenon
  <2> USE DEF T
  <2> QED  BY <2>3
<1>11. d \in [0..N -> V]
  BY <1>10, <1>12, Zenon
<1> QED  BY <1>7, <1>8, <1>9, <1>11, <1>12

\* Leads goes the same way, from the second element on.
LEMMA LeadsSteps ==
  ASSUME NEW E, NEW p \in Seq(E), p # << >>
  PROVE  \E f \in [1..Len(p) -> Seq(E)] :
           /\ f[1] = << >>
           /\ \A n \in 2..Len(p) : f[n] = CleanElement(f[n - 1], p[n])
           /\ Leads(p) = f[Len(p)]
<1> DEFINE N == Len(p)
           V == Seq(E)
           Stride(w, e) == CASE e = ".." -> SubSeq(w, 1, Len(w) - 1)
                             [] e \in {"", "."} -> w
                             [] OTHER -> Append(w, e)
           h == [x \in (1..N) \X V |-> Stride(x[2], p[x[1]])]
           body(f) == [n \in 1..N |-> IF n = 1 THEN << >> ELSE Stride(f[n - 1], p[n])]
           At == CHOOSE f : f = body(f)
<1>1. N \in Nat /\ N >= 1 /\ << >> \in V
  OBVIOUS
<1>2. ASSUME NEW n \in 1..N, NEW w \in V
      PROVE  Stride(w, p[n]) = CleanElement(w, p[n]) /\ Stride(w, p[n]) \in V
  <2>1. SubSeq(w, 1, Len(w) - 1) = IF w = << >> THEN w ELSE SubSeq(w, 1, Len(w) - 1)
    BY DEF V
  <2>2. Stride(w, p[n]) = CleanElement(w, p[n])
    <3>1. /\ p[n] = ".." => Stride(w, p[n]) = SubSeq(w, 1, Len(w) - 1)
          /\ p[n] \in {"", "."} => Stride(w, p[n]) = w
          /\ p[n] \notin {"", ".", ".."} => Stride(w, p[n]) = Append(w, p[n])
      BY Zenon
    <3> HIDE DEF Stride
    <3> QED  BY <2>1, <3>1, ElementCases, Zenon
  <2>3. CleanElement(w, p[n]) \in V
    <3>1. p[n] \in E
      OBVIOUS
    <3> QED  BY <3>1, ElementType
  <2> HIDE DEF Stride
  <2> QED  BY <2>2, <2>3, Zenon
<1> HIDE DEF Stride
<1>3. h \in [(1..N) \X V -> V] /\ \A n \in 1..N, w \in V : h[<<n, w>>] = Stride(w, p[n])
  BY <1>2
<1>4. PICK f \in [1..N -> V] : f = [n \in 1..N |-> IF n = 1 THEN << >> ELSE h[<<n, f[n - 1]>>]]
  <2>1. Recursions(1, N, V, << >>, h) # {}
    <3>1. \A n \in 1..N, w \in V : h[<<n, w>>] \in V
      BY <1>2, <1>3
    <3>2. 1 \in Int /\ N \in Int
      BY <1>1
    <3> HIDE DEF h, N, V
    <3> QED  BY <1>1, <3>1, <3>2, Recursive
  <2> QED  BY <2>1 DEF Recursions
<1>5. f = body(f)
  <2>1. ASSUME NEW n \in 1..N, n # 1 PROVE h[<<n, f[n - 1]>>] = Stride(f[n - 1], p[n])
    <3>1. n - 1 \in 1..N
      BY <1>1, <2>1
    <3>2. f[n - 1] \in V
      BY <3>1
    <3> HIDE DEF h, V
    <3> QED  BY <1>3, <3>2
  <2> HIDE DEF h
  <2> QED  BY <1>4, <2>1
<1>6. At = body(At)
  <2> HIDE DEF body
  <2> QED  BY <1>5
<1>7. Leads(p) = At[N]
  BY Zenon DEF Leads, Stride
<1> HIDE DEF At
<1>8. At[1] = << >> /\ \A n \in 2..N : At[n] = Stride(At[n - 1], p[n])
  BY <1>1, <1>6
<1>9. At \in [1..N -> V] /\ \A n \in 2..N : At[n] = CleanElement(At[n - 1], p[n])
  <2> DEFINE T == {n \in Int : At[n] \in V}
  <2>1. 1 \in T
    <3>1. At[1] \in V
      BY <1>1, <1>8, Zenon
    <3> QED  BY <3>1
  <2>2. \A n \in 1..N : n \in T /\ n < N => n + 1 \in T
    <3> SUFFICES ASSUME NEW n \in 1..N, n \in T, n < N PROVE n + 1 \in T
      OBVIOUS
    <3>1. n + 1 \in 2..N /\ n + 1 \in 1..N /\ (n + 1) - 1 = n /\ At[n] \in V
      BY <1>1
    <3>2. At[n + 1] = Stride(At[n], p[n + 1])
      BY <1>8, <3>1
    <3>3. At[n + 1] \in V
      <4> HIDE DEF V
      <4> QED  BY <1>2, <3>1, <3>2
    <3> QED  BY <3>1, <3>3
  <2>3. \A n \in 1..N : At[n] \in V
    <3>1. 1 \in Int /\ N \in Int
      BY <1>1
    <3> HIDE DEF T
    <3>2. \A n \in 1..N : n \in T
      BY <2>1, <2>2, <3>1, UpTo, Zenon
    <3> USE DEF T
    <3> QED  BY <3>2
  <2>4. \A n \in 2..N : n \in 1..N /\ n - 1 \in 1..N
    BY <1>1
  <2> QED  BY <1>2, <1>6, <1>8, <2>3, <2>4
<1> QED  BY <1>7, <1>8, <1>9

\* A path leads to what is left of it by path.Clean.
LEMMA CleanLeads ==
  ASSUME NEW E, NEW p \in Seq(E), p # << >>
  PROVE  Leads(p) = FoldLeft(CleanElement, << >>, Tail(p)) /\ Leads(p) \in Seq(E)
<1> DEFINE q == Tail(p)
           N == Len(p)
<1>1. /\ N \in Nat /\ N >= 1 /\ q \in Seq(E) /\ Len(q) = N - 1
      /\ \A n \in 1..(N - 1) : q[n] = p[n + 1]
  OBVIOUS
<1>2. PICK d \in [0..Len(q) -> Seq(E)] :
        /\ d[0] = << >>
        /\ \A n \in 1..Len(q) : d[n] = CleanElement(d[n - 1], q[n])
        /\ FoldLeft(CleanElement, << >>, q) = d[Len(q)]
  <2> HIDE DEF q
  <2> QED  BY <1>1, CleanSteps
<1>3. PICK f \in [1..N -> Seq(E)] :
        /\ f[1] = << >>
        /\ \A n \in 2..N : f[n] = CleanElement(f[n - 1], p[n])
        /\ Leads(p) = f[N]
  BY LeadsSteps
<1> DEFINE T == {n \in Int : f[n] = d[n - 1]}
<1>4. 1 \in T
  BY <1>2, <1>3
<1>5. \A n \in 1..N : n \in T /\ n < N => n + 1 \in T
  <2> SUFFICES ASSUME NEW n \in 1..N, n \in T, n < N PROVE n + 1 \in T
    OBVIOUS
  <2>1. n \in 1..(N - 1) /\ n + 1 \in 2..N /\ (n + 1) - 1 = n
    BY <1>1
  <2>2. f[n + 1] = CleanElement(f[n], p[n + 1]) /\ d[n] = CleanElement(d[n - 1], q[n])
    BY <1>2, <1>3, <2>1
  <2>3. f[n] = d[n - 1] /\ q[n] = p[n + 1]
    BY <1>1, <2>1
  <2> QED  BY <2>1, <2>2, <2>3
<1>6. N \in T
  <2> HIDE DEF T
  <2>1. 1 \in Int /\ N \in Int /\ N \in 1..N
    BY <1>1
  <2>2. \A n \in 1..N : n \in T
    BY <1>4, <1>5, <2>1, UpTo, Zenon
  <2> QED  BY <2>1, <2>2
<1>7. Leads(p) \in Seq(E)
  BY <1>1, <1>3
<1> QED  BY <1>2, <1>3, <1>6, <1>7

Dots == {"", ".", ".."}

\* Nothing that path.Clean leaves is empty or a dot.
LEMMA CleanIsPlain ==
  ASSUME NEW E, NEW q \in Seq(E)
  PROVE  FoldLeft(CleanElement, << >>, q) \in Seq(E \ Dots)
<1> DEFINE N == Len(q)
<1>1. PICK d \in [0..N -> Seq(E)] :
        /\ d[0] = << >>
        /\ \A n \in 1..N : d[n] = CleanElement(d[n - 1], q[n])
        /\ FoldLeft(CleanElement, << >>, q) = d[N]
  BY CleanSteps
<1>2. ASSUME NEW w \in Seq(E \ Dots), NEW e \in E PROVE CleanElement(w, e) \in Seq(E \ Dots)
  <2>1. CASE e \in E \ Dots
    BY <2>1, ElementType
  <2>2. CASE e \in Dots
    <3>1. CleanElement(w, e) \in {w, SubSeq(w, 1, Len(w) - 1)}
      BY <2>2, ElementCases, Zenon DEF Dots
    <3>2. SubSeq(w, 1, Len(w) - 1) \in Seq(E \ Dots)
      <4>1. \A k \in 1..(Len(w) - 1) : w[k] \in E \ Dots
        OBVIOUS
      <4> QED  BY <4>1
    <3> QED  BY <3>1, <3>2
  <2> QED  BY <2>1, <2>2
<1> DEFINE T == {n \in Int : d[n] \in Seq(E \ Dots)}
<1>3. 0 \in T
  BY <1>1
<1>4. \A n \in 0..N : n \in T /\ n < N => n + 1 \in T
  <2> SUFFICES ASSUME NEW n \in 0..N, n \in T, n < N PROVE n + 1 \in T
    OBVIOUS
  <2>1. n + 1 \in 1..N /\ (n + 1) - 1 = n /\ q[n + 1] \in E /\ d[n] \in Seq(E \ Dots)
    OBVIOUS
  <2>2. d[n + 1] = CleanElement(d[n], q[n + 1])
    BY <1>1, <2>1
  <2>3. d[n + 1] \in Seq(E \ Dots)
    BY <1>2, <2>1, <2>2, Zenon
  <2> QED  BY <2>1, <2>3
<1>5. N \in T
  <2> HIDE DEF T
  <2>1. 0 \in Int /\ N \in Int /\ N \in 0..N
    OBVIOUS
  <2>2. \A n \in 0..N : n \in T
    BY <1>3, <1>4, <2>1, UpTo, Zenon
  <2> QED  BY <2>1, <2>2
<1> QED  BY <1>1, <1>5

\* A path without dots leads where it says.
LEMMA PlainLeads ==
  ASSUME NEW E, NEW e \in Seq(E), e # << >>, Tail(e) \in Seq(E \ Dots)
  PROVE  Leads(e) = Tail(e)
<1> DEFINE q == Tail(e)
           N == Len(q)
<1>1. q \in Seq(E) /\ N \in Nat
  OBVIOUS
<1>2. PICK d \in [0..N -> Seq(E)] :
        /\ d[0] = << >>
        /\ \A n \in 1..N : d[n] = CleanElement(d[n - 1], q[n])
        /\ FoldLeft(CleanElement, << >>, q) = d[N]
  <2> HIDE DEF q
  <2> QED  BY <1>1, CleanSteps
<1> DEFINE T == {n \in Int : d[n] = SubSeq(q, 1, n)}
<1>3. 0 \in T
  BY <1>2
<1>4. \A n \in 0..N : n \in T /\ n < N => n + 1 \in T
  <2> SUFFICES ASSUME NEW n \in 0..N, n \in T, n < N PROVE n + 1 \in T
    OBVIOUS
  <2>1. n + 1 \in Int /\ n + 1 \in 1..N /\ (n + 1) - 1 = n /\ q[n + 1] \notin Dots /\ d[n] = SubSeq(q, 1, n)
    OBVIOUS
  <2>2. d[n + 1] = Append(d[n], q[n + 1])
    <3>1. d[n + 1] = CleanElement(d[n], q[n + 1])
      BY <1>2, <2>1
    <3> QED  BY <2>1, <3>1, ElementCases, Zenon DEF Dots
  <2>3. Append(SubSeq(q, 1, n), q[n + 1]) = SubSeq(q, 1, n + 1)
    BY <1>1
  <2>4. n + 1 \in Int /\ d[n + 1] = SubSeq(q, 1, n + 1)
    BY <2>1, <2>2, <2>3, Zenon
  <2> QED  BY <2>4, Zenon
<1>5. N \in T
  <2> HIDE DEF T
  <2>1. 0 \in Int /\ N \in Int /\ N \in 0..N
    OBVIOUS
  <2>2. \A n \in 0..N : n \in T
    BY <1>3, <1>4, <2>1, UpTo, Zenon
  <2> QED  BY <2>1, <2>2
<1>6. SubSeq(q, 1, N) = q
  BY <1>1
<1> QED  BY <1>2, <1>5, <1>6, CleanLeads

\* One element more is one step more.
LEMMA LeadsNext ==
  ASSUME NEW E, NEW p \in Seq(E), p # << >>, NEW e \in E
  PROVE  Leads(Append(p, e)) = CleanElement(Leads(p), e)
<1> DEFINE q == Append(p, e)
           N == Len(p)
<1>1. /\ N \in Nat /\ N >= 1 /\ q \in Seq(E) /\ q # << >> /\ Len(q) = N + 1
      /\ \A n \in 1..N : q[n] = p[n]
      /\ q[N + 1] = e
  OBVIOUS
<1>2. PICK f \in [1..N -> Seq(E)] :
        /\ f[1] = << >>
        /\ \A n \in 2..N : f[n] = CleanElement(f[n - 1], p[n])
        /\ Leads(p) = f[N]
  BY LeadsSteps
<1>3. PICK g \in [1..Len(q) -> Seq(E)] :
        /\ g[1] = << >>
        /\ \A n \in 2..Len(q) : g[n] = CleanElement(g[n - 1], q[n])
        /\ Leads(q) = g[Len(q)]
  <2> HIDE DEF q
  <2> QED  BY <1>1, LeadsSteps
<1> HIDE DEF q
<1> DEFINE T == {n \in Int : f[n] = g[n]}
<1>4. 1 \in T
  BY <1>2, <1>3
<1>5. \A n \in 1..N : n \in T /\ n < N => n + 1 \in T
  <2> SUFFICES ASSUME NEW n \in 1..N, n \in T, n < N PROVE n + 1 \in T
    OBVIOUS
  <2>1. n + 1 \in 2..N /\ n + 1 \in 2..Len(q) /\ n + 1 \in 1..N /\ (n + 1) - 1 = n
    BY <1>1
  <2>2. f[n + 1] = CleanElement(f[n], p[n + 1]) /\ g[n + 1] = CleanElement(g[n], q[n + 1])
    BY <1>2, <1>3, <2>1
  <2> QED  BY <1>1, <2>1, <2>2
<1>6. N \in T
  <2> HIDE DEF T
  <2>1. 1 \in Int /\ N \in Int /\ N \in 1..N
    BY <1>1
  <2>2. \A n \in 1..N : n \in T
    BY <1>4, <1>5, <2>1, UpTo, Zenon
  <2> QED  BY <2>1, <2>2
<1>7. g[N + 1] = CleanElement(g[N], e)
  <2>1. N + 1 \in 2..Len(q) /\ (N + 1) - 1 = N
    BY <1>1
  <2> QED  BY <1>1, <1>3, <2>1
<1> QED  BY <1>1, <1>2, <1>3, <1>6, <1>7 DEF q

\* A path that does not climb does not climb on its way, nor at its last element.
LEMMA ClimbsNext ==
  ASSUME NEW E, NEW p \in Seq(E), p # << >>, NEW e \in E, ~Climbs(Append(p, e))
  PROVE  ~Climbs(p) /\ (e = ".." => Leads(p) # << >>)
<1> DEFINE q == Append(p, e)
           N == Len(p)
<1>1. /\ N \in Nat /\ N >= 1 /\ Len(q) = N + 1 /\ q[N + 1] = e
      /\ \A n \in 2..N : n \in 2..Len(q) /\ q[n] = p[n] /\ SubSeq(q, 1, n - 1) = SubSeq(p, 1, n - 1)
      /\ SubSeq(q, 1, (N + 1) - 1) = p /\ N + 1 \in 2..Len(q)
  OBVIOUS
<1> HIDE DEF q
<1>2. \A n \in 2..Len(q) : ~(q[n] = ".." /\ Leads(SubSeq(q, 1, n - 1)) = << >>)
  BY DEF Climbs, q
<1>3. ~Climbs(p)
  BY <1>1, <1>2 DEF Climbs
<1>4. e = ".." => Leads(p) # << >>
  BY <1>1, <1>2
<1> QED  BY <1>3, <1>4

\* An element after two walks does not go back out of the second into the first.
StaysBehind(v, w, e) == v = << >> \/ w # << >> \/ e # ".."

\* What one element then does at their end it does at the end of the second.
LEMMA ElementAfter ==
  ASSUME NEW E, NEW v \in Seq(E), NEW w \in Seq(E), NEW e \in E, StaysBehind(v, w, e)
  PROVE  CleanElement(v \o w, e) = v \o CleanElement(w, e)
<1>1. CASE e \in {"", "."}
  BY <1>1, ElementCases, Zenon
<1>2. CASE e \notin {"", ".", ".."}
  <2>1. Append(v \o w, e) = v \o Append(w, e)
    OBVIOUS
  <2> QED  BY <1>2, <2>1, ElementCases, Zenon
<1>3. CASE e = ".."
  <2>1. CASE v = << >>
    <3>1. v \o w = w /\ CleanElement(w, e) \in Seq(E)
      BY <2>1, ElementType
    <3>2. v \o CleanElement(w, e) = CleanElement(w, e)
      BY <2>1, <3>1
    <3> QED  BY <3>1, <3>2, Zenon
  <2>2. CASE w # << >>
    <3>1. v \o w # << >> /\ SubSeq(v \o w, 1, Len(v \o w) - 1) = v \o SubSeq(w, 1, Len(w) - 1)
      BY <2>2
    <3> QED  BY <1>3, <2>2, <3>1, ElementCases, Zenon
  <2> QED  BY <1>3, <2>1, <2>2 DEF StaysBehind
<1> QED  BY <1>1, <1>2, <1>3

\* After a target's own path, the path leads where it does from the root, unless it climbs.
THEOREM JoinedLeads ==
  ASSUME NEW E, NEW b \in Seq(E), NEW p \in Seq(E), b # << >>, p # << >>,
         Leads(b) = << >> \/ ~Climbs(p)
  PROVE  Leads(JoinPath(b, p)) = Leads(b) \o Leads(p)
<1> DEFINE c == IF Len(b) > 1 /\ Last(b) = "" THEN Front(b) ELSE b
           x == <<Head(p)>>
           t == Tail(p)
<1>1. x \in Seq(E) /\ x # << >> /\ t \in Seq(E) /\ p = x \o t
  OBVIOUS
<1>2. c \in Seq(E) /\ c # << >> /\ Leads(c) = Leads(b)
  <2>1. CASE Len(b) > 1 /\ Last(b) = ""
    <3>1. /\ Front(b) \in Seq(E) /\ Front(b) # << >> /\ Last(b) \in E
          /\ b = Append(Front(b), Last(b))
      <4>1. PICK n \in Nat : n >= 1 /\ Len(b) = n + 1
        <5>1. Len(b) \in Nat
          OBVIOUS
        <5>2. Len(b) > 1
          BY <2>1, Zenon
        <5>3. Len(b) - 1 \in Nat /\ Len(b) - 1 >= 1 /\ Len(b) = (Len(b) - 1) + 1
          BY <5>1, <5>2
        <5> QED  BY <5>3
      <4>2. Front(b) = SubSeq(b, 1, n) /\ Last(b) = b[n + 1]
        BY <4>1 DEF Front, Last
      <4>3. /\ SubSeq(b, 1, n) \in Seq(E) /\ SubSeq(b, 1, n) # << >> /\ b[n + 1] \in E
            /\ b = Append(SubSeq(b, 1, n), b[n + 1])
        BY <4>1
      <4> QED  BY <4>2, <4>3, Zenon
    <3>2. Leads(b) = CleanElement(Leads(Front(b)), Last(b))
      BY <3>1, LeadsNext
    <3>3. Leads(b) = Leads(Front(b))
      BY <2>1, <3>2, ElementCases, Zenon
    <3> QED  BY <2>1, <3>1, <3>3
  <2> QED  BY <2>1
<1>3. Leads(c) \in Seq(E)
  BY <1>2, CleanLeads
<1> HIDE DEF c, x, t
<1> DEFINE T == {u \in Seq(E) : Leads(c) = << >> \/ ~Climbs(x \o u)
                                => Leads(c \o u) = Leads(c) \o Leads(x \o u)}
<1>4. << >> \in T
  <2>1. c \o << >> = c /\ x \o << >> = x /\ Len(x) = 1
    BY <1>1, <1>2 DEF x
  <2>2. Leads(x) = << >>
    BY <1>1, <2>1, LeadsSteps
  <2>3. Leads(c) \o << >> = Leads(c) /\ << >> \in Seq(E)
    BY <1>3
  <2>4. Leads(c \o << >>) = Leads(c) \o Leads(x \o << >>)
    BY <2>1, <2>2, <2>3, Zenon
  <2> QED  BY <2>3, <2>4, Zenon
<1>5. ASSUME NEW u \in Seq(E), NEW e \in E, u \in T PROVE Append(u, e) \in T
  <2> SUFFICES ASSUME Leads(c) = << >> \/ ~Climbs(x \o Append(u, e))
               PROVE  Leads(c \o Append(u, e)) = Leads(c) \o Leads(x \o Append(u, e))
    OBVIOUS
  <2>1. /\ x \o u \in Seq(E) /\ x \o u # << >> /\ x \o Append(u, e) = Append(x \o u, e)
        /\ c \o u \in Seq(E) /\ c \o u # << >> /\ c \o Append(u, e) = Append(c \o u, e)
    BY <1>1, <1>2
  <2>2. Leads(c) = << >> \/ (~Climbs(x \o u) /\ (e = ".." => Leads(x \o u) # << >>))
    BY <2>1, ClimbsNext
  <2>3. Leads(c \o u) = Leads(c) \o Leads(x \o u)
    BY <1>5, <2>2
  <2>4. Leads(x \o u) \in Seq(E)
    BY <2>1, CleanLeads
  <2>5. CleanElement(Leads(c) \o Leads(x \o u), e) = Leads(c) \o CleanElement(Leads(x \o u), e)
    <3>1. StaysBehind(Leads(c), Leads(x \o u), e)
      BY <2>2, Zenon DEF StaysBehind
    <3> QED  BY <1>3, <2>4, <3>1, ElementAfter
  <2>6. /\ Leads(Append(c \o u, e)) = CleanElement(Leads(c \o u), e)
        /\ Leads(Append(x \o u, e)) = CleanElement(Leads(x \o u), e)
    BY <2>1, LeadsNext
  <2> QED  BY <2>1, <2>3, <2>5, <2>6
<1>6. Seq(E) \subseteq T
  <2> HIDE DEF T
  <2> QED  BY <1>4, <1>5, ElementByElement
<1>7. Leads(c \o t) = Leads(c) \o Leads(p)
  BY <1>1, <1>2, <1>6
<1> QED  BY <1>2, <1>7 DEF JoinPath, c, t

\* What begins with a path begins with it after any other, too.
LEMMA PrefixAfter ==
  ASSUME NEW E, NEW v \in Seq(E), NEW s \in Seq(E), NEW t \in Seq(E), IsPrefix(s, t)
  PROVE  IsPrefix(v \o s, v \o t)
<1>1. Len(s) <= Len(t) /\ \A n \in 1..Len(s) : s[n] = t[n]
  <2>1. Len(s) <= Len(t) /\ SubSeq(s, 1, Len(s)) = SubSeq(t, 1, Len(s))
    BY DEF IsPrefix
  <2> QED  BY <2>1
<1>2. Len(v \o s) <= Len(v \o t) /\ \A n \in 1..Len(v \o s) : (v \o s)[n] = (v \o t)[n]
  BY <1>1
<1>3. SubSeq(v \o s, 1, Len(v \o s)) = SubSeq(v \o t, 1, Len(v \o s))
  BY <1>2
<1> QED  BY <1>2, <1>3 DEF IsPrefix

\* An entry that the cleaned path begins with leads to where the path as it was written
\* comes by, whatever its dots and slashes (whitelist.go:27).
THEOREM PrefixLeads ==
  ASSUME NEW E, NEW e \in Seq(E), NEW p \in Seq(E), e # << >>, p # << >>,
         IsPrefix(e, Clean(p))
  PROVE  IsPrefix(Leads(e), Leads(p))
<1> DEFINE done == FoldLeft(CleanElement, << >>, Tail(p))
           root == ""
           rest == IF done = << >> THEN <<root>> ELSE done
<1>1. Leads(p) = done /\ done \in Seq(E \ Dots) /\ done \in Seq(E)
  <2>1. Tail(p) \in Seq(E)
    OBVIOUS
  <2> QED  BY <2>1, CleanLeads, CleanIsPlain
<1>2. Clean(p) = <<root>> \o rest
  BY Zenon DEF Clean
<1>3. root \in Dots
  BY Zenon DEF Dots
<1> HIDE DEF done, root
<1>4. /\ Len(e) \in Nat /\ 1 <= Len(e) /\ Len(e) <= 1 + Len(rest)
      /\ \A k \in 2..Len(e) : e[k] = rest[k - 1]
  <2> DEFINE S == E \cup {root}
  <2>1. rest \in Seq(S) /\ <<root>> \in Seq(S) /\ e \in Seq(S)
    <3>1. E \subseteq S /\ root \in S
      OBVIOUS
    <3>2. done \in Seq(S) /\ e \in Seq(S)
      BY <1>1, <3>1, SeqMonotonic
    <3> HIDE DEF S
    <3> QED  BY <3>1, <3>2
  <2> HIDE DEF rest, S
  <2>2. Len(e) <= Len(<<root>> \o rest) /\ SubSeq(e, 1, Len(e)) = SubSeq(<<root>> \o rest, 1, Len(e))
    BY <1>2 DEF IsPrefix
  <2>3. \A k \in 1..Len(e) : e[k] = (<<root>> \o rest)[k]
    BY <2>1, <2>2
  <2> QED  BY <2>1, <2>2, <2>3
<1>5. CASE done = << >>
  <2>1. PICK f \in [1..Len(e) -> Seq(E)] :
          /\ f[1] = << >>
          /\ \A n \in 2..Len(e) : f[n] = CleanElement(f[n - 1], e[n])
          /\ Leads(e) = f[Len(e)]
    BY LeadsSteps
  <2>2. Len(rest) = 1 /\ rest[1] = root
    BY <1>5
  <2> HIDE DEF rest
  <2>3. Leads(e) = << >>
    <3>1. CASE Len(e) = 1
      BY <2>1, <3>1
    <3>2. CASE Len(e) = 2
      <4>1. f[2] = CleanElement(f[1], e[2]) /\ e[2] = root
        BY <1>4, <2>1, <2>2, <3>2
      <4>2. f[2] = f[1]
        BY <4>1, ElementCases, Zenon DEF root
      <4> QED  BY <2>1, <3>2, <4>2
    <3>3. Len(e) <= 2
      BY <1>4, <2>2
    <3>4. Len(e) = 1 \/ Len(e) = 2
      <4>1. Len(e) \in Nat /\ 1 <= Len(e)
        BY <1>4
      <4> DEFINE n == Len(e)
      <4> HIDE DEF n
      <4>2. n \in Nat /\ 1 <= n /\ n <= 2
        BY <3>3, <4>1 DEF n
      <4>3. n = 1 \/ n = 2
        BY <4>2
      <4> QED  BY <4>3 DEF n
    <3> QED  BY <3>1, <3>2, <3>4
  <2> QED  BY <1>1, <1>5, <2>3 DEF IsPrefix
<1>6. CASE done # << >>
  <2>1. rest = done
    BY <1>6
  <2> HIDE DEF rest
  <2>2. Tail(e) = SubSeq(done, 1, Len(e) - 1)
    BY <1>1, <1>4, <2>1
  <2>3. Tail(e) \in Seq(E \ Dots)
    <3>1. 1 \in Int /\ Len(e) - 1 \in Int /\ \A k \in 1..(Len(e) - 1) : done[k] \in E \ Dots
      BY <1>1, <1>4, <2>1
    <3>2. SubSeq(done, 1, Len(e) - 1) \in Seq(E \ Dots)
      BY <3>1, SubSeqProperties, Zenon
    <3> QED  BY <2>2, <3>2, Zenon
  <2>4. Leads(e) = SubSeq(done, 1, Len(e) - 1)
    BY <2>2, <2>3, PlainLeads
  <2> QED  BY <1>1, <1>4, <2>1, <2>4 DEF IsPrefix
<1> QED  BY <1>5, <1>6
=============================================================================
