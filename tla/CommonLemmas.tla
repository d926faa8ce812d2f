---------------------------- MODULE CommonLemmas ----------------------------
(***************************************************************************)
(* Induction over the numbers, and recursive functions on them.  The       *)
(* library states both for predicates and definitions given as operators;  *)
(* here they are stated for sets and functions, from the well-foundedness  *)
(* of the finite subsets.  And lemmas about sequences put together from    *)
(* sequences.                                                              *)
(***************************************************************************)
EXTENDS SequencesExt, Integers, FiniteSetTheorems, SequenceTheorems,
        WellFoundedInduction, TLAPS

\* A set of numbers has a least one.
LEMMA LeastNumber ==
    ASSUME NEW T \in SUBSET Nat, T # {}
    PROVE  \E n \in T : \A m \in T : n <= m
<1> DEFINE F == {1..n : n \in T}
           R == StrictSubsetOrdering(Nat)
<1>1. IsWellFoundedOn(R, FiniteSubsetsOf(Nat))
  BY FS_StrictSubsetOrderingWellFounded
<1>2. F \subseteq FiniteSubsetsOf(Nat) /\ F # {}
  <2>1. ASSUME NEW n \in Nat PROVE IsFiniteSet(1..n)
    <3>1. 1 \in Int /\ n \in Int
      OBVIOUS
    <3> QED
      BY <3>1, FS_Interval, Zenon
  <2>2. \A n \in Nat : 1..n \in SUBSET Nat
    OBVIOUS
  <2> QED
    BY <2>1, <2>2 DEF FiniteSubsetsOf
<1>3. \E x \in F : \A y \in F : ~(<<y, x>> \in R)
  <2> HIDE DEF F, R
  <2> QED
    BY <1>1, <1>2, WFMin, Zenon
<1>4. PICK n \in T : \A m \in T : ~(<<1..m, 1..n>> \in R)
  BY <1>3
<1>5. ASSUME NEW m \in T, m < n PROVE FALSE
  <2>1. 1..m \subseteq 1..n /\ 1..m # 1..n
    <3>1. n \in 1..n /\ n \notin 1..m
      BY <1>5
    <3> QED
      BY <1>5, <3>1
  <2>2. 1..m \in SUBSET Nat /\ 1..n \in SUBSET Nat
    OBVIOUS
  <2> QED
    BY <1>4, <2>1, <2>2, Zenon DEF StrictSubsetOrdering
<1> QED
  BY <1>5

\* And, of those below a bound, a greatest one.
LEMMA GreatestNumber ==
    ASSUME NEW N \in Nat, NEW T \in SUBSET (0..N), T # {}
    PROVE  \E n \in T : \A m \in T : m <= n
<1> DEFINE D == {N - n : n \in T}
<1>1. D \in SUBSET Nat /\ D # {}
  <2>1. \A n \in T : n \in 0..N
    OBVIOUS
  <2>2. \A n \in 0..N : N - n \in Nat
    OBVIOUS
  <2> QED
    BY <2>1, <2>2
<1>2. PICK d \in D : \A e \in D : d <= e
  BY <1>1, LeastNumber
<1>3. PICK n \in T : d = N - n
  BY <1>2
<1>4. \A m \in T : N - m \in D
  OBVIOUS
<1>5. \A m \in T : m <= n
  BY <1>2, <1>3, <1>4
<1> QED
  BY <1>5

LEMMA Induction ==
    ASSUME NEW S, 0 \in S, \A n \in Nat : n \in S => n + 1 \in S
    PROVE  \A n \in Nat : n \in S
<1> SUFFICES ASSUME NEW k \in Nat, k \notin S PROVE FALSE
  OBVIOUS
<1>1. PICK n \in Nat \ S : \A m \in Nat \ S : n <= m
  <2>1. Nat \ S \in SUBSET Nat /\ Nat \ S # {}
    OBVIOUS
  <2> QED
    BY <2>1, LeastNumber
<1>2. n # 0 /\ n - 1 \in Nat /\ n = (n - 1) + 1
  BY <1>1
<1>3. n - 1 \in S
  BY <1>1, <1>2
<1> QED
  BY <1>1, <1>2, <1>3

\* f is the function on 0..N that begins with x and goes on with G.
Iterated(f, X, x, G, N) ==
    /\ f \in [0..N -> X]
    /\ f[0] = x
    /\ \A n \in 1..N : f[n] = G[<<n, f[n - 1]>>]

\* There is such a function.
LEMMA Iterates ==
    ASSUME NEW X, NEW x \in X, NEW G \in [Nat \X X -> X], NEW N \in Nat
    PROVE  \E f : Iterated(f, X, x, G, N)
<1> DEFINE S == {n \in Nat : \E f \in [0..n -> X] :
                    f[0] = x /\ \A m \in 1..n : f[m] = G[<<m, f[m - 1]>>]}
<1>1. 0 \in S
  <2> DEFINE f == [n \in 0..0 |-> x]
  <2>1. f \in [0..0 -> X] /\ f[0] = x /\ \A m \in 1..0 : f[m] = G[<<m, f[m - 1]>>]
    OBVIOUS
  <2> QED
    BY <2>1
<1>2. ASSUME NEW n \in Nat, n \in S PROVE n + 1 \in S
  <2>1. PICK f \in [0..n -> X] :
           f[0] = x /\ \A m \in 1..n : f[m] = G[<<m, f[m - 1]>>]
    BY <1>2
  <2> DEFINE g == [m \in 0..(n + 1) |-> IF m = n + 1 THEN G[<<n + 1, f[n]>>] ELSE f[m]]
  <2>2. <<n + 1, f[n]>> \in Nat \X X
    BY <2>1
  <2>3. g \in [0..(n + 1) -> X]
    BY <2>1, <2>2
  <2>4. g[0] = x
    BY <2>1
  <2>5. ASSUME NEW m \in 1..(n + 1) PROVE g[m] = G[<<m, g[m - 1]>>]
    <3>1. CASE m = n + 1
      <4>1. g[n + 1] = G[<<n + 1, f[n]>>] /\ g[n] = f[n] /\ m - 1 = n
        BY <3>1
      <4> QED
        BY <3>1, <4>1
    <3>2. CASE m # n + 1
      <4>1. m \in 1..n /\ g[m] = f[m] /\ g[m - 1] = f[m - 1]
        BY <3>2
      <4> QED
        BY <4>1, <2>1
    <3> QED
      BY <3>1, <3>2
  <2> HIDE DEF g
  <2> QED
    BY <2>3, <2>4, <2>5
<1>3. \A n \in Nat : n \in S
  <2> HIDE DEF S
  <2> QED
    BY <1>1, <1>2, Induction
<1>4. PICK f \in [0..N -> X] : f[0] = x /\ \A m \in 1..N : f[m] = G[<<m, f[m - 1]>>]
  BY <1>3
<1> QED
  BY <1>4 DEF Iterated

-----------------------------------------------------------------------------
(* Sequences put together from sequences.                                  *)

LEMMA Concat ==
    ASSUME NEW S, NEW s \in Seq(S), NEW t \in Seq(S)
    PROVE  /\ s \o t \in Seq(S) /\ Len(s \o t) = Len(s) + Len(t)
           /\ Len(s) \in Nat /\ Len(t) \in Nat
           /\ \A i \in 1..Len(s) : (s \o t)[i] = s[i]
           /\ \A i \in 1..Len(t) : (s \o t)[Len(s) + i] = t[i]
<1>1. /\ s \o t \in Seq(S) /\ Len(s \o t) = Len(s) + Len(t)
      /\ \A i \in 1..(Len(s) + Len(t)) :
            (s \o t)[i] = IF i <= Len(s) THEN s[i] ELSE t[i - Len(s)]
  BY ConcatProperties
<1>2. Len(s) \in Nat /\ Len(t) \in Nat
  BY LenProperties
<1>3. ASSUME NEW i \in 1..Len(s) PROVE (s \o t)[i] = s[i]
  <2>1. i \in 1..(Len(s) + Len(t)) /\ i <= Len(s)
    BY <1>2
  <2> QED
    BY <1>1, <2>1
<1>4. ASSUME NEW i \in 1..Len(t) PROVE (s \o t)[Len(s) + i] = t[i]
  <2>1. PICK j : j = Len(s) + i
    OBVIOUS
  <2>2. j \in 1..(Len(s) + Len(t)) /\ ~(j <= Len(s)) /\ j - Len(s) = i
    BY <1>2, <2>1
  <2> QED
    BY <1>1, <2>1, <2>2
<1> QED
  BY <1>1, <1>2, <1>3, <1>4

LEMMA Concat4 ==
    ASSUME NEW S, NEW a \in Seq(S), NEW b \in Seq(S), NEW c \in Seq(S), NEW d \in Seq(S),
           NEW s, s = ((a \o b) \o c) \o d
    PROVE  /\ s \in Seq(S) /\ Len(s) = Len(a) + Len(b) + Len(c) + Len(d)
           /\ Len(a) \in Nat /\ Len(b) \in Nat /\ Len(c) \in Nat /\ Len(d) \in Nat
           /\ \A i \in 1..Len(a) : s[i] = a[i]
           /\ \A i \in 1..Len(b) : s[Len(a) + i] = b[i]
           /\ \A i \in 1..Len(c) : s[Len(a) + Len(b) + i] = c[i]
           /\ \A i \in 1..Len(d) : s[Len(a) + Len(b) + Len(c) + i] = d[i]
<1> DEFINE ab == a \o b
           abc == ab \o c
           u == abc \o d
<1>1. ab \in Seq(S)
  BY Concat
<1>2. /\ Len(ab) = Len(a) + Len(b) /\ Len(a) \in Nat /\ Len(b) \in Nat
      /\ \A i \in 1..Len(a) : ab[i] = a[i]
      /\ \A i \in 1..Len(b) : ab[Len(a) + i] = b[i]
  BY Concat
<1> HIDE DEF ab
<1>3. abc \in Seq(S)
  BY <1>1, Concat
<1>4. /\ Len(abc) = Len(ab) + Len(c) /\ Len(c) \in Nat
      /\ \A i \in 1..Len(ab) : abc[i] = ab[i]
      /\ \A i \in 1..Len(c) : abc[Len(ab) + i] = c[i]
  BY <1>1, Concat
<1> HIDE DEF abc
<1>5. u \in Seq(S)
  BY <1>3, Concat
<1>6. /\ Len(u) = Len(abc) + Len(d) /\ Len(d) \in Nat
      /\ \A i \in 1..Len(abc) : u[i] = abc[i]
      /\ \A i \in 1..Len(d) : u[Len(abc) + i] = d[i]
  BY <1>3, Concat
<1> HIDE DEF u
<1>7. s = u
  BY DEF u, abc, ab
<1>8. /\ Len(abc) = Len(a) + Len(b) + Len(c) /\ Len(ab) = Len(a) + Len(b)
      /\ Len(u) = Len(a) + Len(b) + Len(c) + Len(d)
      /\ \A i \in 1..Len(a) : i \in 1..Len(ab) /\ i \in 1..Len(abc)
      /\ \A i \in 1..Len(b) : Len(a) + i \in 1..Len(ab) /\ Len(a) + i \in 1..Len(abc)
      /\ \A i \in 1..Len(c) : Len(a) + Len(b) + i \in 1..Len(abc)
  BY <1>2, <1>4, <1>6
<1>9. \A i \in 1..Len(a) : u[i] = a[i]
  BY <1>2, <1>4, <1>6, <1>8
<1>10. \A i \in 1..Len(b) : u[Len(a) + i] = b[i]
  BY <1>2, <1>4, <1>6, <1>8
<1>11. \A i \in 1..Len(c) : u[Len(a) + Len(b) + i] = c[i]
  BY <1>4, <1>6, <1>8
<1>12. \A i \in 1..Len(d) : u[Len(a) + Len(b) + Len(c) + i] = d[i]
  BY <1>6, <1>8
<1> QED
  BY <1>2, <1>4, <1>5, <1>6, <1>7, <1>8, <1>9, <1>10, <1>11, <1>12

\* The sequences that ss becomes as its members are put together one by one.
Joins(g, ss, S) ==
    /\ g \in [0..Len(ss) -> Seq(S)]
    /\ g[0] = <<>>
    /\ \A i \in 1..Len(ss) : g[i] = g[i - 1] \o ss[i]

\* FlattenSeq returns the last of them.
LEMMA FlattenJoins ==
    ASSUME NEW S, NEW ss \in Seq(Seq(S))
    PROVE  \E g : Joins(g, ss, S) /\ FlattenSeq(ss) = g[Len(ss)]
<1> DEFINE N == Len(ss)
           X == Seq(S)
           Unrolls(g) == g = [i \in 1..N |-> IF i = 1 THEN ss[i] ELSE g[i - 1] \o ss[i]]
<1>1. N \in Nat /\ <<>> \in X /\ \A i \in 1..N : ss[i] \in X
  OBVIOUS
<1>2. PICK f : Joins(f, ss, S)
  <2> DEFINE G == [p \in Nat \X X |-> IF p[1] \in 1..N THEN p[2] \o ss[p[1]] ELSE p[2]]
  <2>1. \A n \in Nat, s \in X : (IF n \in 1..N THEN s \o ss[n] ELSE s) \in X
    BY <1>1, ConcatProperties
  <2>2. G \in [Nat \X X -> X]
    BY <2>1
  <2>3. ASSUME NEW n \in 1..N, NEW s \in X PROVE G[<<n, s>>] = s \o ss[n]
    <3>1. PICK p : p = <<n, s>>
      OBVIOUS
    <3>2. p \in Nat \X X /\ p[1] = n /\ p[2] = s
      BY <1>1, <3>1
    <3> QED
      BY <3>1, <3>2
  <2> HIDE DEF G
  <2>4. PICK f : Iterated(f, X, <<>>, G, N)
    BY <1>1, <2>2, Iterates
  <2>5. ASSUME NEW i \in 1..N PROVE f[i] = f[i - 1] \o ss[i]
    <3>1. i - 1 \in 0..N
      BY <1>1
    <3>2. f[i - 1] \in X /\ f[i] = G[<<i, f[i - 1]>>]
      BY <2>4, <3>1 DEF Iterated
    <3> QED
      BY <2>3, <3>2
  <2> QED
    BY <2>4, <2>5 DEF Iterated, Joins
<1>3. CASE N = 0
  <2>1. ss = <<>> /\ FlattenSeq(ss) = ss
    BY <1>3 DEF FlattenSeq
  <2> QED
    BY <1>2, <1>3, <2>1 DEF Joins
<1>4. CASE N # 0
  <2>1. \A i \in 1..N : f[i] = IF i = 1 THEN ss[i] ELSE f[i - 1] \o ss[i]
    <3>1. 1 \in 1..N /\ 1 - 1 = 0
      BY <1>1, <1>4
    <3>2. f[1] = f[1 - 1] \o ss[1] /\ f[0] = <<>>
      BY <1>2, <3>1 DEF Joins
    <3>3. f[1] = <<>> \o ss[1]
      BY <3>1, <3>2
    <3>4. f[1] = ss[1]
      BY <1>1, <3>1, <3>3, ConcatEmptySeq
    <3> QED
      BY <1>2, <3>4 DEF Joins
  <2> DEFINE h == [i \in 1..N |-> f[i]]
  <2>2. \A i \in 1..N : h[i] = IF i = 1 THEN ss[i] ELSE h[i - 1] \o ss[i]
    <3> SUFFICES ASSUME NEW i \in 1..N
                 PROVE  h[i] = IF i = 1 THEN ss[i] ELSE h[i - 1] \o ss[i]
      OBVIOUS
    <3>1. i # 1 => i - 1 \in 1..N
      BY <1>1
    <3>2. PICK j : j = i - 1
      OBVIOUS
    <3> QED
      BY <2>1, <3>1, <3>2
  <2>3. h = [i \in 1..N |-> h[i]]
    OBVIOUS
  <2> HIDE DEF h
  <2>4. Unrolls(h)
    BY <2>2, <2>3
  <2> DEFINE g == CHOOSE g : Unrolls(g)
  <2>5. Unrolls(g)
    BY <2>4
  <2>6. FlattenSeq(ss) = g[N]
    BY <1>4 DEF FlattenSeq
  <2> HIDE DEF g
  <2>7. \A i \in 1..N : g[i] = IF i = 1 THEN ss[i] ELSE g[i - 1] \o ss[i]
    BY <2>5
  <2> HIDE DEF Unrolls
  <2> DEFINE T == {n \in Nat : n \in 1..N => g[n] = f[n]}
  <2>8. 0 \in T
    OBVIOUS
  <2>9. ASSUME NEW n \in Nat, n \in T PROVE n + 1 \in T
    <3> SUFFICES ASSUME n + 1 \in 1..N PROVE g[n + 1] = f[n + 1]
      OBVIOUS
    <3>1. n # 0 => n \in 1..N
      BY <1>1
    <3>2. PICK m : m = n + 1
      OBVIOUS
    <3>3. m \in 1..N /\ m - 1 = n
      BY <3>2
    <3> QED
      BY <2>1, <2>7, <2>9, <3>1, <3>2, <3>3
  <2>10. N \in T
    <3> HIDE DEF T
    <3> QED
      BY <1>1, <2>8, <2>9, Induction
  <2>11. g[N] = f[N]
    BY <1>1, <1>4, <2>10
  <2> QED
    BY <1>2, <2>6, <2>11
<1> QED
  BY <1>3, <1>4

\* What is put together of sequences that begin with the same members.
LEMMA SameJoins ==
    ASSUME NEW S, NEW ss \in Seq(Seq(S)), NEW tt \in Seq(Seq(S)),
           NEW g, NEW h, Joins(g, ss, S), Joins(h, tt, S),
           NEW N \in 0..Len(ss), N <= Len(tt), \A i \in 1..N : ss[i] = tt[i]
    PROVE  g[N] = h[N]
<1>1. Len(ss) \in Nat /\ Len(tt) \in Nat
  OBVIOUS
<1> DEFINE T == {n \in Nat : n \in 0..N => g[n] = h[n]}
<1>2. 0 \in T
  BY DEF Joins
<1>3. ASSUME NEW n \in Nat, n \in T PROVE n + 1 \in T
  <2> SUFFICES ASSUME n + 1 \in 0..N PROVE g[n + 1] = h[n + 1]
    OBVIOUS
  <2>1. PICK m : m = n + 1
    OBVIOUS
  <2>2. m \in 1..N /\ m \in 1..Len(ss) /\ m \in 1..Len(tt) /\ m - 1 = n /\ n \in 0..N
    BY <1>1, <2>1
  <2>3. g[m] = g[m - 1] \o ss[m] /\ h[m] = h[m - 1] \o tt[m] /\ g[n] = h[n]
    BY <1>3, <2>2 DEF Joins
  <2> QED
    BY <2>1, <2>2, <2>3
<1>4. \A n \in Nat : n \in T
  <2> HIDE DEF T
  <2> QED
    BY <1>2, <1>3, Induction
<1> QED
  BY <1>1, <1>4

\* The first k members, put together.
Joined(ss, k) == FlattenSeq(SubSeq(ss, 1, k))

LEMMA JoinedSteps ==
    ASSUME NEW S, NEW ss \in Seq(Seq(S))
    PROVE  /\ Joined(ss, 0) = <<>> /\ Joined(ss, Len(ss)) = FlattenSeq(ss)
           /\ \A k \in 0..Len(ss) : Joined(ss, k) \in Seq(S)
           /\ \A k \in 1..Len(ss) : Joined(ss, k) = Joined(ss, k - 1) \o ss[k]
<1>1. PICK g : Joins(g, ss, S) /\ FlattenSeq(ss) = g[Len(ss)]
  BY FlattenJoins
<1>2. ASSUME NEW k \in 0..Len(ss) PROVE Joined(ss, k) = g[k]
  <2> DEFINE tt == SubSeq(ss, 1, k)
  <2>1. tt \in Seq(Seq(S)) /\ Len(tt) = k /\ \A i \in 1..k : tt[i] = ss[i]
    OBVIOUS
  <2> HIDE DEF tt
  <2>2. PICK h : Joins(h, tt, S) /\ FlattenSeq(tt) = h[Len(tt)]
    BY <2>1, FlattenJoins
  <2>3. k \in 0..Len(tt) /\ k <= Len(ss)
    BY <2>1
  <2>4. g[k] = h[k]
    BY <1>1, <2>1, <2>2, <2>3, SameJoins
  <2> QED
    BY <2>1, <2>2, <2>4 DEF Joined, tt
<1>3. Len(ss) \in Nat /\ SubSeq(ss, 1, Len(ss)) = ss
  BY SubSeqFull
<1>4. \A k \in 1..Len(ss) : k \in 0..Len(ss) /\ k - 1 \in 0..Len(ss)
  BY <1>3
<1>5. 0 \in 0..Len(ss) /\ Len(ss) \in 0..Len(ss)
  BY <1>3
<1>6. \A k \in 1..Len(ss) : Joined(ss, k) = Joined(ss, k - 1) \o ss[k]
  BY <1>1, <1>2, <1>4 DEF Joins
<1>7. \A k \in 0..Len(ss) : Joined(ss, k) \in Seq(S)
  BY <1>1, <1>2 DEF Joins
<1>8. Joined(ss, 0) = <<>> /\ Joined(ss, Len(ss)) = FlattenSeq(ss)
  BY <1>1, <1>2, <1>5 DEF Joins
<1> QED
  BY <1>6, <1>7, <1>8

LEMMA FlattenAppend ==
    ASSUME NEW S, NEW ss \in Seq(Seq(S)), NEW s \in Seq(S)
    PROVE  FlattenSeq(Append(ss, s)) = FlattenSeq(ss) \o s
<1> DEFINE tt == Append(ss, s)
           n == Len(ss)
<1>1. /\ n \in Nat /\ tt \in Seq(Seq(S)) /\ Len(tt) = n + 1
      /\ tt[n + 1] = s /\ SubSeq(tt, 1, n) = ss
  OBVIOUS
<1>2. PICK m : m = n + 1
  OBVIOUS
<1> HIDE DEF tt, n
<1>3. m \in 1..Len(tt) /\ m - 1 = n
  BY <1>1, <1>2
<1>4. Joined(tt, m) = Joined(tt, m - 1) \o tt[m] /\ Joined(tt, Len(tt)) = FlattenSeq(tt)
  BY <1>1, <1>3, JoinedSteps
<1> QED
  BY <1>1, <1>2, <1>3, <1>4 DEF Joined, tt, n

\* What is put together first stays in front.
LEMMA JoinedFront ==
    ASSUME NEW S, NEW ss \in Seq(Seq(S)),
           NEW k \in 0..Len(ss), NEW m \in k..Len(ss)
    PROVE  /\ Len(Joined(ss, k)) <= Len(Joined(ss, m))
           /\ \A j \in 1..Len(Joined(ss, k)) : Joined(ss, m)[j] = Joined(ss, k)[j]
<1> DEFINE n == Len(Joined(ss, k))
           Fits(i) == /\ n <= Len(Joined(ss, i))
                       /\ \A j \in 1..n : Joined(ss, i)[j] = Joined(ss, k)[j]
           T == {i \in Nat : k + i <= Len(ss) => Fits(k + i)}
<1>1. Len(ss) \in Nat /\ n \in Nat
  <2>1. Joined(ss, k) \in Seq(S)
    BY JoinedSteps
  <2> QED
    BY <2>1, LenProperties
<1>2. 0 \in T
  BY <1>1
<1>3. ASSUME NEW i \in Nat, i \in T PROVE i + 1 \in T
  <2> SUFFICES ASSUME k + (i + 1) <= Len(ss) PROVE Fits(k + (i + 1))
    OBVIOUS
  <2>1. PICK l : l = k + (i + 1)
    OBVIOUS
  <2>2. l \in 1..Len(ss) /\ l - 1 = k + i /\ l - 1 \in 0..Len(ss) /\ k + i <= Len(ss)
    BY <1>1, <2>1
  <2>3. /\ Joined(ss, l) = Joined(ss, l - 1) \o ss[l]
        /\ Joined(ss, l - 1) \in Seq(S) /\ ss[l] \in Seq(S)
    <3>1. ss[l] \in Seq(S)
      BY <2>2, ElementOfSeq
    <3> QED
      BY <2>2, <3>1, JoinedSteps
  <2>4. Fits(l - 1)
    BY <1>3, <2>2
  <2> DEFINE u == Joined(ss, l - 1)
  <2>5. /\ Len(u) \in Nat /\ Len(ss[l]) \in Nat /\ Len(u \o ss[l]) = Len(u) + Len(ss[l])
        /\ \A j \in 1..(Len(u) + Len(ss[l])) :
              (u \o ss[l])[j] = IF j <= Len(u) THEN u[j] ELSE ss[l][j - Len(u)]
    <3> HIDE DEF u
    <3>1. u \in Seq(S) /\ ss[l] \in Seq(S)
      BY <2>3 DEF u
    <3> QED
      BY <3>1, ConcatProperties, LenProperties
  <2>6. n <= Len(u) /\ \A j \in 1..n : u[j] = Joined(ss, k)[j]
    BY <2>4
  <2> HIDE DEF u, n
  <2>7. \A j \in 1..n : j \in 1..(Len(u) + Len(ss[l])) /\ j <= Len(u)
    BY <1>1, <2>5, <2>6
  <2>8. Joined(ss, l) = u \o ss[l]
    BY <2>3 DEF u
  <2>9. Fits(l)
    BY <1>1, <2>5, <2>6, <2>7, <2>8
  <2> QED
    BY <2>1, <2>9
<1>4. m - k \in T
  <2> HIDE DEF T
  <2>1. m - k \in Nat
    BY <1>1
  <2> QED
    BY <1>2, <1>3, <2>1, Induction
<1>5. k + (m - k) = m /\ m <= Len(ss)
  BY <1>1
<1> QED
  BY <1>4, <1>5

\* Where the members of ss are found in the flattened sequence.
LEMMA FlattenPlaces ==
    ASSUME NEW S, NEW ss \in Seq(Seq(S)), NEW k \in 1..Len(ss)
    PROVE  /\ FlattenSeq(ss) \in Seq(S) /\ Len(FlattenSeq(ss)) \in Nat
           /\ Len(Joined(ss, k - 1)) \in Nat /\ Len(ss[k]) \in Nat
           /\ Len(Joined(ss, k)) = Len(Joined(ss, k - 1)) + Len(ss[k])
           /\ Len(Joined(ss, k)) <= Len(FlattenSeq(ss))
           /\ \A j \in 1..Len(ss[k]) :
                 FlattenSeq(ss)[Len(Joined(ss, k - 1)) + j] = ss[k][j]
<1> DEFINE u == Joined(ss, k - 1)
           s == ss[k]
<1>1. k - 1 \in 0..Len(ss) /\ k \in 0..Len(ss) /\ Len(ss) \in k..Len(ss) /\ s \in Seq(S)
      /\ Len(ss) \in 0..Len(ss)
  OBVIOUS
<1>2. /\ Joined(ss, k) = u \o s /\ u \in Seq(S)
      /\ Joined(ss, Len(ss)) = FlattenSeq(ss) /\ FlattenSeq(ss) \in Seq(S)
  BY <1>1, JoinedSteps
<1>3. /\ Len(Joined(ss, k)) <= Len(FlattenSeq(ss))
      /\ \A j \in 1..Len(Joined(ss, k)) : FlattenSeq(ss)[j] = Joined(ss, k)[j]
  BY <1>1, <1>2, JoinedFront
<1> HIDE DEF u, s
<1>4. /\ Len(u) \in Nat /\ Len(s) \in Nat /\ Len(u \o s) = Len(u) + Len(s)
      /\ \A j \in 1..(Len(u) + Len(s)) : (u \o s)[j] = IF j <= Len(u) THEN u[j] ELSE s[j - Len(u)]
  BY <1>1, <1>2, ConcatProperties, LenProperties
<1>5. ASSUME NEW j \in 1..Len(s) PROVE FlattenSeq(ss)[Len(u) + j] = s[j]
  <2>1. PICK l : l = Len(u) + j
    OBVIOUS
  <2>2. l \in 1..(Len(u) + Len(s)) /\ ~(l <= Len(u)) /\ l - Len(u) = j
    BY <1>4, <2>1
  <2> QED
    BY <1>2, <1>3, <1>4, <2>1, <2>2
<1> QED
  BY <1>2, <1>3, <1>4, <1>5, LenProperties DEF u, s

-----------------------------------------------------------------------------
(* The last member of a list that is in a set.                             *)

\* v is the last member of list that is in T.
LastIn(list, T, v) ==
    v \in T /\ \E i \in 1..Len(list) :
        list[i] = v /\ \A j \in 1..Len(list) : list[j] \in T => j <= i

LEMMA LastOfConcat ==
    ASSUME NEW S, NEW a \in Seq(S), NEW b \in Seq(S), NEW T, NEW v,
           \/ LastIn(b, T, v)
           \/ LastIn(a, T, v) /\ \A j \in 1..Len(b) : b[j] \notin T
    PROVE  LastIn(a \o b, T, v)
<1>1. PICK s : s = a \o b
  OBVIOUS
<1>2. /\ Len(s) = Len(a) + Len(b) /\ Len(a) \in Nat /\ Len(b) \in Nat
      /\ \A i \in 1..Len(a) : s[i] = a[i]
      /\ \A i \in 1..Len(b) : s[Len(a) + i] = b[i]
  BY <1>1, Concat
<1>3. PICK m \in Nat, n \in Nat : m = Len(a) /\ n = Len(b)
  BY <1>2
<1>4. \A j \in 1..Len(s) : j \in 1..m \/ \E i \in 1..n : j = m + i
  <2>1. ASSUME NEW j \in 1..Len(s), j \notin 1..m PROVE \E i \in 1..n : j = m + i
    <3>1. j - m \in 1..n /\ j = m + (j - m)
      BY <1>2, <1>3, <2>1
    <3> QED
      BY <3>1
  <2> QED
    BY <2>1
<1>5. CASE LastIn(b, T, v)
  <2>1. PICK i \in 1..n : /\ b[i] = v /\ v \in T
                          /\ \A j \in 1..n : b[j] \in T => j <= i
    BY <1>3, <1>5 DEF LastIn
  <2>2. PICK k : k = m + i
    OBVIOUS
  <2>3. k \in 1..Len(s) /\ s[k] = v
    BY <1>2, <1>3, <2>1, <2>2
  <2>4. ASSUME NEW j \in 1..Len(s), s[j] \in T PROVE j <= k
    <3>1. CASE j \in 1..m
      BY <2>2, <3>1
    <3>2. CASE \E l \in 1..n : j = m + l
      <4>1. PICK l \in 1..n : j = m + l
        BY <3>2
      <4>2. b[l] \in T
        BY <1>2, <1>3, <2>4, <4>1
      <4> QED
        BY <2>1, <2>2, <4>1, <4>2
    <3> QED
      BY <1>4, <3>1, <3>2
  <2> QED
    BY <1>1, <2>1, <2>3, <2>4 DEF LastIn
<1>6. CASE LastIn(a, T, v) /\ \A j \in 1..Len(b) : b[j] \notin T
  <2>1. PICK i \in 1..m : /\ a[i] = v /\ v \in T
                          /\ \A j \in 1..m : a[j] \in T => j <= i
    BY <1>3, <1>6 DEF LastIn
  <2>2. i \in 1..Len(s) /\ s[i] = v
    BY <1>2, <1>3, <2>1
  <2>3. ASSUME NEW j \in 1..Len(s), s[j] \in T PROVE j <= i
    <3>1. CASE j \in 1..m
      BY <1>2, <1>3, <2>1, <2>3, <3>1
    <3>2. CASE \E l \in 1..n : j = m + l
      BY <1>2, <1>3, <1>6, <2>3, <3>2
    <3> QED
      BY <1>4, <3>1, <3>2
  <2> QED
    BY <1>1, <2>1, <2>2, <2>3 DEF LastIn
<1> QED
  BY <1>5, <1>6

LEMMA FlattenLast ==
    ASSUME NEW S, NEW ss \in Seq(Seq(S)), NEW k \in 1..Len(ss), NEW T, NEW v,
           LastIn(ss[k], T, v),
           \A m \in 1..Len(ss) : m > k => \A j \in 1..Len(ss[m]) : ss[m][j] \notin T
    PROVE  LastIn(FlattenSeq(ss), T, v)
<1> DEFINE K == {n \in Nat : k + n <= Len(ss) => LastIn(Joined(ss, k + n), T, v)}
<1>1. /\ Len(ss) \in Nat /\ \A m \in 1..Len(ss) : ss[m] \in Seq(S)
      /\ \A m \in 0..Len(ss) : Joined(ss, m) \in Seq(S)
      /\ \A m \in 1..Len(ss) : Joined(ss, m) = Joined(ss, m - 1) \o ss[m]
      /\ Joined(ss, Len(ss)) = FlattenSeq(ss)
  <2>1. Len(ss) \in Nat /\ \A m \in 1..Len(ss) : ss[m] \in Seq(S)
    OBVIOUS
  <2> QED
    BY <2>1, JoinedSteps
<1>2. 0 \in K
  <2>1. k - 1 \in 0..Len(ss)
    BY <1>1
  <2>2. LastIn(Joined(ss, k - 1) \o ss[k], T, v)
    BY <1>1, <2>1, LastOfConcat
  <2>3. Joined(ss, k) = Joined(ss, k - 1) \o ss[k]
    BY <1>1
  <2>4. LastIn(Joined(ss, k), T, v)
    BY <2>2, <2>3
  <2>5. k + 0 = k
    OBVIOUS
  <2> QED
    BY <2>4, <2>5
<1>3. ASSUME NEW n \in Nat, n \in K PROVE n + 1 \in K
  <2> SUFFICES ASSUME k + (n + 1) <= Len(ss) PROVE LastIn(Joined(ss, k + (n + 1)), T, v)
    OBVIOUS
  <2>1. PICK m : m = k + (n + 1)
    OBVIOUS
  <2>2. m \in 1..Len(ss) /\ m - 1 = k + n /\ m - 1 \in 0..Len(ss) /\ m > k
    BY <1>1, <2>1
  <2>3. LastIn(Joined(ss, m - 1), T, v)
    BY <1>1, <1>3, <2>2
  <2>4. LastIn(Joined(ss, m - 1) \o ss[m], T, v)
    <3>1. Joined(ss, m - 1) \in Seq(S) /\ ss[m] \in Seq(S)
      BY <1>1, <2>2
    <3> QED
      BY <2>2, <2>3, <3>1, LastOfConcat
  <2> QED
    BY <1>1, <2>1, <2>2, <2>4
<1>4. Len(ss) - k \in K /\ k + (Len(ss) - k) = Len(ss)
  <2>1. Len(ss) - k \in Nat /\ k + (Len(ss) - k) = Len(ss)
    BY <1>1
  <2> HIDE DEF K
  <2> QED
    BY <1>2, <1>3, <2>1, Induction
<1> QED
  BY <1>1, <1>4

\* The members of a flattened sequence are those of its members.
LEMMA MemberOfFlatten ==
    ASSUME NEW S, NEW ss \in Seq(Seq(S)), NEW i \in 1..Len(FlattenSeq(ss))
    PROVE  \E k \in 1..Len(ss) : \E j \in 1..Len(ss[k]) : FlattenSeq(ss)[i] = ss[k][j]
<1> DEFINE In(x) == \E k \in 1..Len(ss) : \E j \in 1..Len(ss[k]) : x = ss[k][j]
           K == {n \in Nat : n <= Len(ss) =>
                   \A q \in 1..Len(Joined(ss, n)) : In(Joined(ss, n)[q])}
<1>1. /\ Len(ss) \in Nat /\ \A m \in 1..Len(ss) : ss[m] \in Seq(S)
      /\ \A m \in 0..Len(ss) : Joined(ss, m) \in Seq(S)
      /\ \A m \in 1..Len(ss) : Joined(ss, m) = Joined(ss, m - 1) \o ss[m]
      /\ Joined(ss, Len(ss)) = FlattenSeq(ss) /\ Joined(ss, 0) = <<>>
  <2>1. Len(ss) \in Nat /\ \A m \in 1..Len(ss) : ss[m] \in Seq(S)
    OBVIOUS
  <2> QED
    BY <2>1, JoinedSteps
<1>2. 0 \in K
  BY <1>1
<1>3. ASSUME NEW n \in Nat, n \in K PROVE n + 1 \in K
  <2>1. PICK m : m = n + 1
    OBVIOUS
  <2> SUFFICES ASSUME m <= Len(ss), NEW q \in 1..Len(Joined(ss, m))
               PROVE  In(Joined(ss, m)[q])
    <3> HIDE DEF In
    <3> QED
      BY <2>1
  <2>2. m \in 1..Len(ss) /\ m - 1 = n /\ n \in 0..Len(ss) /\ n <= Len(ss)
    BY <1>1, <2>1
  <2>3. PICK a \in Seq(S), b \in Seq(S) : a = Joined(ss, n) /\ b = ss[m]
    BY <1>1, <2>2
  <2>4. \A p \in 1..Len(a) : In(a[p])
    BY <1>3, <2>2, <2>3
  <2>5. Joined(ss, m) = a \o b
    BY <1>1, <2>2, <2>3
  <2>6. /\ Len(a \o b) = Len(a) + Len(b) /\ Len(a) \in Nat /\ Len(b) \in Nat
        /\ \A p \in 1..Len(a) : (a \o b)[p] = a[p]
        /\ \A p \in 1..Len(b) : (a \o b)[Len(a) + p] = b[p]
    BY Concat
  <2>7. CASE q \in 1..Len(a)
    <3> HIDE DEF In
    <3> QED
      BY <2>4, <2>5, <2>6, <2>7
  <2>8. CASE q \notin 1..Len(a)
    <3>1. PICK x \in Nat, y \in Nat : x = Len(a) /\ y = Len(b)
      BY <2>6
    <3>2. q \in 1..(x + y) /\ q \notin 1..x
      BY <2>5, <2>6, <2>8, <3>1
    <3>3. q - x \in 1..y /\ q = x + (q - x)
      BY <3>2
    <3>4. PICK p \in 1..y : q = x + p
      BY <3>3
    <3>5. (a \o b)[q] = b[p]
      BY <2>6, <3>1, <3>4
    <3> QED
      BY <2>2, <2>3, <2>5, <3>1, <3>5
  <2> QED
    BY <2>7, <2>8
<1>4. Len(ss) \in K
  <2> HIDE DEF K
  <2> QED
    BY <1>1, <1>2, <1>3, Induction
<1>5. \A q \in 1..Len(Joined(ss, Len(ss))) : In(Joined(ss, Len(ss))[q])
  <2> HIDE DEF In
  <2> QED
    BY <1>1, <1>4
<1>6. In(FlattenSeq(ss)[i])
  <2> HIDE DEF In
  <2> QED
    BY <1>1, <1>5
<1> QED
  BY <1>6
=============================================================================
