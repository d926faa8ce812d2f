------------------------- MODULE LongestChainProofs -------------------------
(***************************************************************************)
(* Theorems about LongestChain: the loop of findLongestChain returns the   *)
(* last of the candidates with the longest chain, for every tree of blocks *)
(* and every order in which they were scanned.                             *)
(***************************************************************************)
EXTENDS LongestChain, CommonLemmas

-----------------------------------------------------------------------------
(* The blocks that follow a block.                                         *)

Scan == prevOf \in Trees /\ scanned \in Orders

Child(c, p) == c \in Blocks /\ prevOf[c] = p

LEMMA Scanned ==
    ASSUME Scan
    PROVE  /\ scanned \in Seq(Blocks) /\ Len(scanned) = MaxBlocks
           /\ DOMAIN scanned = Blocks /\ Blocks = 1..MaxBlocks
           /\ \A i \in Blocks : scanned[i] \in Blocks
           /\ \A b \in Blocks : prevOf[b] \in 0..MaxBlocks /\ prevOf[b] < b
           /\ \A b \in Blocks : \E i \in Blocks : scanned[i] = b
<1>1. scanned \in [1..MaxBlocks -> Blocks] /\ MaxBlocks \in Nat
  BY MaxBlocksAssumption DEF Scan, Orders, Blocks
<1>2. scanned \in Seq(Blocks) /\ Len(scanned) = MaxBlocks
  BY <1>1
<1> QED
  BY <1>1, <1>2 DEF Scan, Orders, Trees, Blocks

\* The list blocks[p]: its blocks are those whose predecessor is p.
LEMMA FollowersOf ==
    ASSUME Scan, NEW p
    PROVE  /\ Followers(p) \in Seq(Blocks)
           /\ \A c : Chain!IsIn(c, Followers(p)) <=> Child(c, p)
<1> DEFINE N == MaxBlocks
           X == Seq(Blocks)
           Step(n, t) == IF n \in 1..N /\ prevOf[scanned[n]] = p
                         THEN Append(t, scanned[n]) ELSE t
           Rec(f) == f = [n \in 0..N |-> IF n = 0 THEN <<>>
                                         ELSE IF prevOf[scanned[n]] = p
                                         THEN Append(f[n - 1], scanned[n])
                                         ELSE f[n - 1]]
           G == [x \in Nat \X X |-> Step(x[1], x[2])]
           taken == CHOOSE f : Rec(f)
           UpTo(n) == {scanned[i] : i \in {j \in 1..n : prevOf[scanned[j]] = p}}
<1>1. /\ N \in Nat /\ Len(scanned) = N /\ Blocks = 1..N
      /\ \A n \in 1..N : scanned[n] \in Blocks
      /\ \A b \in Blocks : \E i \in 1..N : scanned[i] = b
  BY Scanned, MaxBlocksAssumption
<1>2. G \in [Nat \X X -> X]
  <2>1. \A n, t : t \in X => Step(n, t) \in X
    BY <1>1, AppendProperties
  <2> HIDE DEF Step, X
  <2> QED
    BY <2>1
<1>3. PICK f : Iterated(f, X, <<>>, G, N)
  <2> HIDE DEF X, G, N
  <2>1. <<>> \in X
    BY DEF X
  <2> QED
    BY <1>1, <1>2, <2>1, Iterates
<1>4. \A n \in 1..N : f[n] = IF prevOf[scanned[n]] = p THEN Append(f[n - 1], scanned[n])
                             ELSE f[n - 1]
  <2> SUFFICES ASSUME NEW n \in 1..N
               PROVE  f[n] = IF prevOf[scanned[n]] = p THEN Append(f[n - 1], scanned[n])
                             ELSE f[n - 1]
    OBVIOUS
  <2>1. n - 1 \in 0..N /\ n \in Nat
    BY <1>1
  <2>2. f[n - 1] \in X /\ f[n] = G[<<n, f[n - 1]>>]
    BY <1>3, <2>1 DEF Iterated
  <2>3. <<n, f[n - 1]>> \in Nat \X X
    BY <2>1, <2>2
  <2>4. G[<<n, f[n - 1]>>] = Step(n, f[n - 1])
    <3> HIDE DEF X, Step
    <3> QED
      BY <2>3
  <2> QED
    BY <2>2, <2>4
<1>5. Rec(f)
  <2>1. f \in [0..N -> X] /\ f[0] = <<>>
    BY <1>3 DEF Iterated
  <2> HIDE DEF X, N
  <2>2. \A n \in 0..N : n = 0 \/ n \in 1..N
    BY <1>1
  <2> QED
    BY <1>4, <2>1, <2>2
<1>6. Rec(taken)
  <2> HIDE DEF Rec
  <2> QED
    BY <1>5
<1>7. Followers(p) = taken[N]
  BY <1>1 DEF Followers, Chain!Followers
<1>8. /\ taken[0] = <<>>
      /\ \A n \in 1..N : taken[n] = IF prevOf[scanned[n]] = p THEN Append(taken[n - 1], scanned[n])
                                    ELSE taken[n - 1]
  <2> HIDE DEF taken
  <2>1. 0 \in 0..N /\ \A n \in 1..N : n \in 0..N /\ n # 0
    BY <1>1
  <2> HIDE DEF N
  <2> QED
    BY <1>6, <2>1
<1> HIDE DEF taken, Rec, G, Step, X
<1> DEFINE P(n) == /\ taken[n] \in Seq(Blocks)
                   /\ \A c : Chain!IsIn(c, taken[n]) <=> c \in UpTo(n)
           K == {n \in Nat : n <= N => P(n)}
<1>9. 0 \in K
  <2>1. ~\E i \in DOMAIN <<>> : TRUE
    OBVIOUS
  <2>2. UpTo(0) = {} /\ \A c : ~Chain!IsIn(c, taken[0])
    BY <1>8, <2>1 DEF Chain!IsIn
  <2>3. P(0)
    BY <1>8, <2>2
  <2> QED
    BY <2>3
<1>10. ASSUME NEW n \in Nat, n \in K PROVE n + 1 \in K
  <2> SUFFICES ASSUME n + 1 <= N PROVE P(n + 1)
    OBVIOUS
  <2>1. P(n) /\ n + 1 \in 1..N /\ (n + 1) - 1 = n
    BY <1>1, <1>10
  <2>2. 1..(n + 1) = 1..n \cup {n + 1}
    OBVIOUS
  <2>3. CASE prevOf[scanned[n + 1]] = p
    <3> DEFINE s == taken[n]
               b == scanned[n + 1]
    <3>1. taken[n + 1] = Append(s, b) /\ b \in Blocks /\ s \in Seq(Blocks)
      BY <1>1, <1>8, <2>1, <2>3
    <3>2. UpTo(n + 1) = UpTo(n) \cup {b}
      BY <2>2, <2>3
    <3> HIDE DEF s, b, UpTo
    <3>3. /\ Append(s, b) \in Seq(Blocks) /\ Len(s) \in Nat
          /\ DOMAIN Append(s, b) = 1..(Len(s) + 1) /\ DOMAIN s = 1..Len(s)
          /\ \A i \in 1..Len(s) : Append(s, b)[i] = s[i]
          /\ Append(s, b)[Len(s) + 1] = b
      BY <3>1, AppendProperties, LenProperties
    <3>4. 1..(Len(s) + 1) = 1..Len(s) \cup {Len(s) + 1}
      BY <3>3
    <3>5. \A c : Chain!IsIn(c, Append(s, b)) <=> Chain!IsIn(c, s) \/ c = b
      BY <3>3, <3>4 DEF Chain!IsIn
    <3>6. \A c : Chain!IsIn(c, s) <=> c \in UpTo(n)
      BY <2>1 DEF s
    <3> QED
      BY <3>1, <3>2, <3>3, <3>5, <3>6
  <2>4. CASE prevOf[scanned[n + 1]] # p
    <3>1. taken[n + 1] = taken[n]
      BY <1>8, <2>1, <2>4
    <3>2. UpTo(n + 1) = UpTo(n)
      BY <2>2, <2>4
    <3> HIDE DEF UpTo
    <3> QED
      BY <2>1, <3>1, <3>2
  <2> QED
    BY <2>3, <2>4
<1>11. P(N)
  <2>1. \A n \in Nat : n \in K
    <3> HIDE DEF K
    <3> QED
      BY <1>9, <1>10, Induction
  <2>2. N \in Nat /\ N <= N
    BY <1>1
  <2>3. N \in K
    <3> HIDE DEF K
    <3> QED
      BY <2>1, <2>2
  <2> HIDE DEF P
  <2> QED
    BY <2>2, <2>3
<1>12. \A c : c \in UpTo(N) <=> Child(c, p)
  BY <1>1 DEF Child
<1> HIDE DEF UpTo
<1> QED
  BY <1>7, <1>11, <1>12

\* The recursion of FollowedBy.
Follow == Chain!FollowedBy(scanned)

LEMMA FollowSteps ==
    ASSUME Scan
    PROVE  /\ Follow[0] = Blocks
           /\ \A n \in 1..MaxBlocks : \A p :
                 p \in Follow[n] <=> \E c \in Follow[n - 1] : Child(c, p)
<1> DEFINE N == MaxBlocks
           X == SUBSET (0..MaxBlocks)
           Below(above) == {prevOf[scanned[i]] : i \in {j \in Blocks : scanned[j] \in above}}
           Rec(f) == f = [n \in 0..N |-> IF n = 0 THEN Blocks ELSE Below(f[n - 1])]
           G == [x \in Nat \X X |-> Below(x[2])]
<1>1. /\ N \in Nat /\ Len(scanned) = N /\ DOMAIN scanned = Blocks /\ Blocks = 1..N
      /\ \A i \in Blocks : scanned[i] \in Blocks
      /\ \A b \in Blocks : prevOf[b] \in 0..N
      /\ \A b \in Blocks : \E i \in Blocks : scanned[i] = b
  BY Scanned, MaxBlocksAssumption
<1>2. G \in [Nat \X X -> X]
  <2>1. \A above : Below(above) \in X
    BY <1>1
  <2> HIDE DEF Below, X
  <2> QED
    BY <2>1
<1>3. Blocks \in X
  BY <1>1
<1>4. PICK f : Iterated(f, X, Blocks, G, N)
  <2> HIDE DEF X, G, N
  <2> QED
    BY <1>1, <1>2, <1>3, Iterates
<1>5. \A n \in 1..N : f[n] = Below(f[n - 1])
  <2> SUFFICES ASSUME NEW n \in 1..N PROVE f[n] = Below(f[n - 1])
    OBVIOUS
  <2>1. n - 1 \in 0..N /\ n \in Nat
    BY <1>1
  <2>2. f[n - 1] \in X /\ f[n] = G[<<n, f[n - 1]>>]
    BY <1>4, <2>1 DEF Iterated
  <2>3. <<n, f[n - 1]>> \in Nat \X X
    BY <2>1, <2>2
  <2>4. G[<<n, f[n - 1]>>] = Below(f[n - 1])
    <3> HIDE DEF X, Below
    <3> QED
      BY <2>3
  <2> QED
    BY <2>2, <2>4
<1>6. Rec(f)
  <2>1. f \in [0..N -> X] /\ f[0] = Blocks
    BY <1>4 DEF Iterated
  <2> HIDE DEF Below, X
  <2>2. \A n \in 0..N : f[n] = IF n = 0 THEN Blocks ELSE Below(f[n - 1])
    BY <1>1, <1>5, <2>1
  <2> QED
    BY <2>1, <2>2
<1>7. Follow = CHOOSE g : Rec(g)
  BY <1>1 DEF Follow, Chain!FollowedBy
<1>8. Rec(Follow)
  <2> HIDE DEF Rec
  <2> QED
    BY <1>6, <1>7
<1>9. Follow[0] = Blocks /\ \A n \in 1..N : Follow[n] = Below(Follow[n - 1])
  <2> HIDE DEF Below
  <2>1. Follow = [n \in 0..N |-> IF n = 0 THEN Blocks ELSE Below(Follow[n - 1])]
    BY <1>8
  <2>2. 0 \in 0..N /\ \A n \in 1..N : n \in 0..N /\ n # 0
    BY <1>1
  <2> HIDE DEF Follow, N
  <2> QED
    BY <2>1, <2>2
<1>10. ASSUME NEW n \in 1..N, NEW p
       PROVE  p \in Follow[n] <=> \E c \in Follow[n - 1] : Child(c, p)
  <2>1. p \in Follow[n] <=> \E i \in Blocks : scanned[i] \in Follow[n - 1] /\ prevOf[scanned[i]] = p
    BY <1>9
  <2> QED
    BY <1>1, <2>1 DEF Child
<1> QED
  BY <1>9, <1>10

\* What n + 1 blocks follow, n blocks follow.
LEMMA FollowShrinks ==
    ASSUME Scan, NEW n \in Nat, n + 1 <= MaxBlocks, NEW b \in Blocks, b \in Follow[n + 1]
    PROVE  b \in Follow[n]
<1> DEFINE One == {k \in Nat : k + 1 <= MaxBlocks =>
                     \A c \in Blocks : c \in Follow[k + 1] => c \in Follow[k]}
<1>1. /\ Follow[0] = Blocks
      /\ \A k \in 1..MaxBlocks : \A p :
            p \in Follow[k] <=> \E c \in Follow[k - 1] : Child(c, p)
  BY FollowSteps
<1>2. 0 \in One
  BY <1>1
<1>3. ASSUME NEW k \in Nat, k \in One PROVE k + 1 \in One
  <2> SUFFICES ASSUME k + 2 <= MaxBlocks, NEW c \in Blocks, c \in Follow[k + 2]
               PROVE  c \in Follow[k + 1]
    <3>1. (k + 1) + 1 = k + 2 /\ k + 1 \in Nat
      OBVIOUS
    <3> QED
      BY <3>1
  <2>1. /\ k + 2 \in 1..MaxBlocks /\ k + 1 \in 1..MaxBlocks /\ k + 1 <= MaxBlocks
        /\ (k + 2) - 1 = k + 1 /\ (k + 1) - 1 = k
    BY MaxBlocksAssumption
  <2>2. PICK d \in Follow[k + 1] : Child(d, c)
    BY <1>1, <2>1
  <2>3. d \in Follow[k]
    BY <1>3, <2>1, <2>2 DEF Child
  <2> QED
    BY <1>1, <2>1, <2>2, <2>3
<1>4. \A k \in Nat : k \in One
  <2> HIDE DEF One
  <2> QED
    BY <1>2, <1>3, Induction
<1> QED
  BY <1>4

\* A block has at most the blocks numbered above it to follow it.
LEMMA FollowBounded ==
    ASSUME Scan, NEW n \in 0..MaxBlocks, NEW b \in Blocks, b \in Follow[n]
    PROVE  n <= MaxBlocks - b
<1> DEFINE K == {k \in Nat : k <= MaxBlocks =>
                   \A c \in Blocks : c \in Follow[k] => k <= MaxBlocks - c}
<1>1. /\ Follow[0] = Blocks
      /\ \A k \in 1..MaxBlocks : \A p :
            p \in Follow[k] <=> \E c \in Follow[k - 1] : Child(c, p)
  BY FollowSteps
<1>2. MaxBlocks \in Nat /\ Blocks = 1..MaxBlocks /\ \A c \in Blocks : prevOf[c] < c
  BY Scanned, MaxBlocksAssumption
<1>3. 0 \in K
  BY <1>2
<1>4. ASSUME NEW k \in Nat, k \in K PROVE k + 1 \in K
  <2> SUFFICES ASSUME k + 1 <= MaxBlocks, NEW c \in Blocks, c \in Follow[k + 1]
               PROVE  k + 1 <= MaxBlocks - c
    OBVIOUS
  <2>1. k + 1 \in 1..MaxBlocks /\ (k + 1) - 1 = k /\ k <= MaxBlocks
    BY <1>2
  <2>2. PICK d \in Follow[k] : Child(d, c)
    BY <1>1, <2>1
  <2>3. d \in Blocks /\ c < d
    BY <1>2, <2>2 DEF Child
  <2>4. k <= MaxBlocks - d
    BY <1>4, <2>1, <2>3
  <2> QED
    BY <1>2, <2>3, <2>4
<1>5. \A k \in Nat : k \in K
  <2> HIDE DEF K
  <2> QED
    BY <1>3, <1>4, Induction
<1> QED
  BY <1>2, <1>5

\* Depth[b] is the longest chain that follows b: as FollowedBy has it, and from
\* one block to the next.
LEMMA DepthIs ==
    ASSUME Scan, NEW b \in Blocks
    PROVE  /\ Depth[b] \in 0..MaxBlocks
           /\ \A n \in 0..MaxBlocks : b \in Follow[n] <=> n <= Depth[b]
           /\ (\A c : ~Child(c, b)) => Depth[b] = 0
           /\ \A c : Child(c, b) => Depth[c] < Depth[b]
           /\ (\E c : Child(c, b)) => \E c : Child(c, b) /\ Depth[b] = Depth[c] + 1
<1> DEFINE N == MaxBlocks
           IsDepth(c, n) == c \in Follow[n] /\ \A m \in 0..N : c \in Follow[m] => m <= n
           D == [c \in Blocks |-> CHOOSE n \in 0..N : IsDepth(c, n)]
           After(f, c) == {f[scanned[i]] : i \in Chain!Children(c, scanned)}
           Largest(S) == CHOOSE d \in S : \A e \in S : e <= d
           Rec(f) == f = [c \in Blocks |-> IF After(f, c) = {} THEN 0
                                           ELSE 1 + Largest(After(f, c))]
<1>1. N \in Nat /\ Blocks = 1..N /\ \A c \in Blocks : prevOf[c] < c
  BY Scanned, MaxBlocksAssumption
<1>2. /\ Follow[0] = Blocks
      /\ \A k \in 1..N : \A p :
            p \in Follow[k] <=> \E c \in Follow[k - 1] : Child(c, p)
  BY FollowSteps
<1>3. ASSUME NEW c \in Blocks
      PROVE  /\ D[c] \in 0..N /\ D[c] <= N - c
             /\ \A n \in 0..N : c \in Follow[n] <=> n <= D[c]
  <2>1. \E n \in 0..N : IsDepth(c, n)
    <3> DEFINE T == {n \in 0..N : c \in Follow[n]}
    <3>1. T \in SUBSET (0..N) /\ T # {}
      BY <1>1, <1>2
    <3>2. PICK n \in T : \A m \in T : m <= n
      <4> HIDE DEF T
      <4> QED
        BY <1>1, <3>1, GreatestNumber
    <3> QED
      BY <3>2
  <2>2. D[c] \in 0..N /\ IsDepth(c, D[c])
    <3> HIDE DEF IsDepth
    <3> QED
      BY <2>1
  <2> HIDE DEF D
  <2>3. D[c] <= N - c
    BY <2>2, FollowBounded
  <2>4. ASSUME NEW n \in 0..N, n <= D[c] PROVE c \in Follow[n]
    <3> DEFINE K == {k \in Nat : k <= D[c] => c \in Follow[D[c] - k]}
    <3>1. 0 \in K
      <4>1. D[c] - 0 = D[c]
        BY <2>2
      <4> QED
        BY <2>2, <4>1
    <3>2. ASSUME NEW k \in Nat, k \in K PROVE k + 1 \in K
      <4> SUFFICES ASSUME k + 1 <= D[c] PROVE c \in Follow[D[c] - (k + 1)]
        OBVIOUS
      <4>1. /\ D[c] - (k + 1) \in Nat /\ (D[c] - (k + 1)) + 1 = D[c] - k
            /\ (D[c] - (k + 1)) + 1 <= N /\ k <= D[c]
        BY <1>1, <2>2
      <4>2. c \in Follow[D[c] - k]
        BY <3>2, <4>1
      <4> QED
        BY <4>1, <4>2, FollowShrinks
    <3>3. \A k \in Nat : k \in K
      <4> HIDE DEF K
      <4> QED
        BY <3>1, <3>2, Induction
    <3>4. D[c] - n \in Nat /\ D[c] - n <= D[c] /\ D[c] - (D[c] - n) = n
      BY <1>1, <2>2, <2>4
    <3> QED
      BY <3>3, <3>4
  <2> QED
    BY <2>2, <2>3, <2>4
<1> HIDE DEF D
<1>4. ASSUME NEW c \in Blocks, NEW d, Child(d, c) PROVE d \in Blocks /\ D[d] < D[c]
  <2>1. d \in Blocks /\ c < d
    BY <1>1, <1>4 DEF Child
  <2>2. D[d] \in 0..N /\ D[d] <= N - d /\ d \in Follow[D[d]]
    BY <1>1, <1>3, <2>1
  <2>3. D[d] + 1 \in 1..N /\ (D[d] + 1) - 1 = D[d]
    BY <1>1, <2>1, <2>2
  <2>4. c \in Follow[D[d] + 1]
    BY <1>2, <1>4, <2>2, <2>3
  <2>5. D[d] + 1 <= D[c] /\ D[c] \in 0..N
    BY <1>1, <1>3, <2>3, <2>4
  <2> QED
    BY <1>1, <2>1, <2>2, <2>5
<1>5. ASSUME NEW c \in Blocks, D[c] # 0 PROVE \E d : Child(d, c) /\ D[c] = D[d] + 1
  <2>1. D[c] \in 1..N /\ c \in Follow[D[c]]
    BY <1>1, <1>3, <1>5
  <2>2. PICK d \in Follow[D[c] - 1] : Child(d, c)
    BY <1>2, <2>1
  <2>3. d \in Blocks /\ D[d] < D[c]
    BY <1>4, <2>2
  <2>4. D[c] - 1 \in 0..N /\ D[d] \in 0..N
    BY <1>1, <1>3, <2>1, <2>3
  <2>5. D[c] - 1 <= D[d]
    BY <1>3, <2>2, <2>3, <2>4
  <2> QED
    BY <1>1, <2>1, <2>2, <2>3, <2>4, <2>5
<1>6. \A f : \A c \in Blocks : \A e : e \in After(f, c) <=> \E d : Child(d, c) /\ e = f[d]
  BY Scanned DEF Chain!Children, Child
<1> HIDE DEF After
<1>7. Rec(D)
  <2>1. ASSUME NEW c \in Blocks
        PROVE  D[c] = IF After(D, c) = {} THEN 0 ELSE 1 + Largest(After(D, c))
    <3>1. D[c] \in 0..N
      BY <1>3
    <3>2. CASE After(D, c) = {}
      BY <1>5, <1>6, <3>2
    <3>3. CASE After(D, c) # {}
      <4>1. D[c] # 0
        <5>1. PICK d : Child(d, c)
          BY <1>6, <3>3
        <5>2. D[d] \in 0..N /\ D[d] < D[c]
          BY <1>3, <1>4, <5>1
        <5> QED
          BY <1>1, <5>2
      <4>2. PICK d : Child(d, c) /\ D[c] = D[d] + 1
        BY <1>5, <4>1
      <4>3. D[d] \in 0..N /\ D[d] = D[c] - 1
        BY <1>1, <1>3, <1>4, <3>1, <4>2
      <4>4. D[d] \in After(D, c)
        BY <1>6, <4>2
      <4>5. \A e \in After(D, c) : e \in 0..N /\ e <= D[d]
        BY <1>1, <1>3, <1>4, <1>6, <3>1, <4>3
      <4>6. Largest(After(D, c)) = D[d]
        BY <4>3, <4>4, <4>5
      <4> HIDE DEF Largest
      <4> QED
        BY <3>3, <4>2, <4>3, <4>6
    <3> QED
      BY <3>2, <3>3
  <2>2. D = [c \in Blocks |-> D[c]]
    BY DEF D
  <2> QED
    BY <2>1, <2>2
<1>8. Rec(Depth)
  <2>1. Depth = CHOOSE f : Rec(f)
    BY DEF Depth, After
  <2> HIDE DEF Rec
  <2> QED
    BY <1>7, <2>1
\* The recursion has one solution.
<1>9. \A c \in Blocks : Depth[c] = D[c]
  <2> DEFINE K == {n \in Nat : \A c \in Blocks : N - n < c => Depth[c] = D[c]}
  <2>1. 0 \in K
    BY <1>1
  <2>2. ASSUME NEW n \in Nat, n \in K PROVE n + 1 \in K
    <3> SUFFICES ASSUME NEW c \in Blocks, N - (n + 1) < c PROVE Depth[c] = D[c]
      OBVIOUS
    <3>1. \A d : Child(d, c) => Depth[d] = D[d]
      <4> SUFFICES ASSUME NEW d, Child(d, c) PROVE Depth[d] = D[d]
        OBVIOUS
      <4>1. d \in Blocks /\ c < d
        BY <1>1 DEF Child
      <4>2. N - n < d
        BY <1>1, <4>1
      <4> QED
        BY <2>2, <4>1, <4>2
    <3>2. After(Depth, c) = After(D, c)
      BY <1>6, <3>1
    <3>3. \A f : Rec(f) => f[c] = IF After(f, c) = {} THEN 0
                                  ELSE 1 + Largest(After(f, c))
      OBVIOUS
    <3> HIDE DEF Rec
    <3> QED
      BY <1>7, <1>8, <3>2, <3>3
  <2>3. \A n \in Nat : n \in K
    <3> HIDE DEF K
    <3> QED
      BY <2>1, <2>2, Induction
  <2>4. \A c \in Blocks : N - N < c
    BY <1>1
  <2> QED
    BY <1>1, <2>3, <2>4
<1>10. /\ (\A c : ~Child(c, b)) => D[b] = 0
       /\ (\E c : Child(c, b)) => D[b] # 0
  <2>1. ASSUME NEW c, Child(c, b) PROVE D[b] # 0
    <3>1. D[c] \in 0..N /\ D[c] < D[b]
      BY <1>3, <1>4, <2>1
    <3> QED
      BY <1>1, <3>1
  <2> QED
    BY <1>5, <2>1
<1> QED
  BY <1>3, <1>4, <1>5, <1>9, <1>10

-----------------------------------------------------------------------------
(* The candidate that is to be returned.                                   *)

\* The last of the candidates with the longest chain.
LastDeepest(list, j) ==
    /\ j \in DOMAIN list
    /\ \A k \in DOMAIN list : Depth[list[k]] <= Depth[list[j]]
    /\ \A k \in DOMAIN list : Depth[list[k]] = Depth[list[j]] => k <= j

\* It is the one that Depth and the rounds of FollowedBy determine.
LEMMA BestIsLastDeepest ==
    ASSUME Scan, NEW list \in Seq(Blocks), NEW j, LastDeepest(list, j)
    PROVE  LET deepest == {i \in DOMAIN list : \A k \in DOMAIN list :
                              Depth[list[k]] <= Depth[list[i]]}
           IN  /\ list[j] = list[CHOOSE i \in deepest : \A k \in deepest : k <= i]
               /\ list[j] = Chain!Best(list, scanned)
<1> DEFINE N == MaxBlocks
           d(i) == Depth[list[i]]
           P == DOMAIN list
           deepest == {i \in P : \A k \in P : d(k) <= d(i)}
           L(n) == Chain!Left(n, P, list, Follow)
           IsLast(n) == L(n) # {} /\ \A m \in 0..N : L(m) # {} => m <= n
           rounds == CHOOSE n \in 0..N : IsLast(n)
           best == CHOOSE i \in L(rounds) : \A k \in L(rounds) : k <= i
<1>1. N \in Nat /\ Len(scanned) = N
  BY Scanned, MaxBlocksAssumption
<1>2. /\ P = 1..Len(list) /\ Len(list) \in Nat
      /\ \A i \in P : list[i] \in Blocks
  BY LenProperties, ElementOfSeq
<1>3. \A i \in P : /\ d(i) \in 0..N
                   /\ \A n \in 0..N : list[i] \in Follow[n] <=> n <= d(i)
  BY <1>2, DepthIs
<1>4. /\ j \in P /\ \A k \in P : d(k) <= d(j)
      /\ \A k \in P : d(k) = d(j) => k <= j
  BY DEF LastDeepest
<1>5. Chain!Best(list, scanned) = list[best]
  BY <1>1 DEF Chain!Best, Chain!BestPosition, Follow
<1>6. \A n \in 0..N : L(n) = {i \in P : n <= d(i)}
  <2>1. \A n : L(n) = {i \in P : n = 0 \/ list[i] \in Follow[n]}
    BY DEF Chain!Left
  <2> HIDE DEF L, d, N
  <2>2. \A n \in 0..N : \A i \in P : (n = 0 \/ list[i] \in Follow[n]) <=> n <= d(i)
    BY <1>1, <1>3
  <2> HIDE DEF P
  <2> QED
    BY <2>1, <2>2
<1> HIDE DEF d, P, N, L
<1>7. d(j) \in 0..N /\ IsLast(d(j))
  BY <1>1, <1>3, <1>4, <1>6
<1>8. rounds = d(j)
  <2>1. rounds \in 0..N /\ IsLast(rounds)
    <3> HIDE DEF IsLast
    <3> QED
      BY <1>7
  <2> HIDE DEF rounds
  <2> QED
    BY <1>1, <1>7, <2>1
<1> HIDE DEF rounds
<1>9. L(rounds) = deepest
  BY <1>3, <1>4, <1>6, <1>7, <1>8
<1>10. j \in deepest /\ \A k \in deepest : k <= j
  BY <1>3, <1>4
<1>11. \A i \in deepest : (\A k \in deepest : k <= i) => i = j
  BY <1>2, <1>10
<1> HIDE DEF deepest
<1>12. (CHOOSE i \in deepest : \A k \in deepest : k <= i) = j
  BY <1>10, <1>11
<1> QED
  BY <1>5, <1>9, <1>12 DEF d, P, deepest

-----------------------------------------------------------------------------
(* The frames of the calls.                                                *)

Frames == [matching : Seq(Blocks), next : Seq(Blocks \cup {Ended}), i : Nat]

\* The vectors of a frame are as long as one another, the index is inside.
InRange(f) ==
    /\ f \in Frames
    /\ Len(f.next) = Len(f.matching) /\ f.i \in 1..Len(f.matching)

\* The chains before the index have made one move more than the others.  A
\* chain is left when it is long enough for its moves, and the block that it has
\* reached has so many blocks less above it.
Rounds(f, r) ==
    \A j \in 1..Len(f.matching) :
        LET moves == IF j < f.i THEN r + 1 ELSE r
        IN  /\ f.next[j] # Ended <=> moves <= Depth[f.matching[j]]
            /\ f.next[j] # Ended => Depth[f.next[j]] = Depth[f.matching[j]] - moves

FrameInv(f) == InRange(f) /\ Live(f) # {} /\ \E r \in Nat : Rounds(f, r)

\* f waits for the answer of g.
Waits(f, g) ==
    /\ f.next[f.i] \in Blocks
    /\ \A c : Child(c, f.next[f.i]) <=> Chain!IsIn(c, g.matching)

\* The calls in progress, and the answer when there is none.
StackIs(st, last) ==
    /\ st \in Seq(Frames)
    /\ \A k \in 1..Len(st) : FrameInv(st[k])
    /\ \A k \in 1..Len(st) : k + 1 <= Len(st) => Waits(st[k], st[k + 1])
    /\ last \in Blocks \cup {Ended}
    /\ st # <<>> => st[1].matching = asked
    /\ st = <<>> => \E j : LastDeepest(asked, j) /\ last = asked[j]

StackInv == Scan /\ asked \in Seq(Blocks) /\ StackIs(stack, answer)

\* The index after the last is the first.
LEMMA Wraps ==
    ASSUME NEW n \in Nat, NEW i \in 1..n
    PROVE  (i % n) + 1 = IF i < n THEN i + 1 ELSE 1
<1>1. CASE i < n
  <2>1. i % n = i
    BY <1>1
  <2> QED
    BY <1>1, <2>1
<1>2. CASE i = n
  <2>1. n % n = 0
    OBVIOUS
  <2> QED
    BY <1>2, <2>1
<1> QED
  BY <1>1, <1>2

\* A move to the block with the longest chain, or the end of a chain that has no
\* further block, leaves the frame with as many moves as its index says.
LEMMA MoveKeeps ==
    ASSUME Scan, NEW f, FrameInv(f), NEW x \in Blocks \cup {Ended},
           \/ x = Ended /\ (f.next[f.i] = Ended \/ Depth[f.next[f.i]] = 0)
           \/ x \in Blocks /\ f.next[f.i] \in Blocks /\ Depth[f.next[f.i]] = Depth[x] + 1,
           Live(Moved(f, x)) # {}
    PROVE  FrameInv(Moved(f, x)) /\ Moved(f, x).matching = f.matching
<1> DEFINE L == Len(f.matching)
           g == Moved(f, x)
           Moves(h, r, j) == IF j < h.i THEN r + 1 ELSE r
           InRound(h, r, j) ==
               /\ h.next[j] # Ended <=> Moves(h, r, j) <= Depth[h.matching[j]]
               /\ h.next[j] # Ended => Depth[h.next[j]] = Depth[h.matching[j]] - Moves(h, r, j)
<1>1. /\ f \in Frames /\ L \in Nat /\ Len(f.next) = L /\ f.i \in 1..L
      /\ f.matching \in Seq(Blocks) /\ f.next \in Seq(Blocks \cup {Ended})
      /\ \A j \in 1..L : f.matching[j] \in Blocks /\ f.next[j] \in Blocks \cup {Ended}
  <2>1. f \in Frames /\ Len(f.next) = L /\ f.i \in 1..L
    BY DEF FrameInv, InRange
  <2>2. f.matching \in Seq(Blocks) /\ f.next \in Seq(Blocks \cup {Ended})
    BY <2>1 DEF Frames
  <2> QED
    BY <2>1, <2>2, LenProperties, ElementOfSeq
<1>2. (f.i % L) + 1 = IF f.i < L THEN f.i + 1 ELSE 1
  BY <1>1, Wraps
<1>3. /\ g.matching = f.matching
      /\ g.next = [f.next EXCEPT ![f.i] = x]
      /\ g.i = IF f.i < L THEN f.i + 1 ELSE 1
  BY <1>1, <1>2 DEF Moved, Frames
<1>4. /\ g.next \in Seq(Blocks \cup {Ended}) /\ Len(g.next) = L
      /\ \A j \in 1..L : g.next[j] = IF j = f.i THEN x ELSE f.next[j]
  BY <1>1, <1>3, ExceptSeq
<1>5. g.i \in 1..L
  BY <1>1, <1>3
<1>6. g \in Frames
  <2>1. [f.next EXCEPT ![f.i] = x] \in Seq(Blocks \cup {Ended})
    BY <1>3, <1>4
  <2>2. (f.i % L) + 1 \in Nat
    BY <1>1, <1>2
  <2> HIDE DEF L
  <2>3. \A y \in Seq(Blocks \cup {Ended}), n \in Nat : [f EXCEPT !.next = y, !.i = n] \in Frames
    BY <1>1 DEF Frames
  <2>4. Moved(f, x) = [f EXCEPT !.next = [f.next EXCEPT ![f.i] = x], !.i = (f.i % L) + 1]
    BY <1>1 DEF Moved, Frames
  <2>5. PICK y \in Seq(Blocks \cup {Ended}), n \in Nat :
            y = [f.next EXCEPT ![f.i] = x] /\ n = (f.i % L) + 1
    BY <2>1, <2>2
  <2>6. g = [f EXCEPT !.next = y, !.i = n]
    BY <2>4, <2>5
  <2> QED
    BY <2>3, <2>6
<1>7. PICK r \in Nat : Rounds(f, r)
  BY DEF FrameInv
<1>8. \A j \in 1..L : InRound(f, r, j)
  BY <1>7 DEF Rounds
<1>9. \A b \in Blocks : Depth[b] \in Nat
  BY DepthIs
<1> DEFINE q == IF f.i < L THEN r ELSE r + 1
<1>10. q \in Nat
  OBVIOUS
<1>11. ASSUME NEW j \in 1..L PROVE InRound(g, q, j)
  <2> DEFINE m == Moves(f, r, j)
  <2>1. /\ j \in Nat /\ f.i \in 1..L /\ f.matching[j] \in Blocks
        /\ Depth[f.matching[j]] \in Nat
    BY <1>1, <1>9
  <2>2. CASE j = f.i
    <3>1. m = r /\ Moves(g, q, j) = r + 1
      BY <1>1, <1>3, <2>1, <2>2
    <3>2. InRound(f, r, f.i) /\ g.next[j] = x
      BY <1>4, <1>8, <2>1, <2>2
    <3>3. CASE x = Ended
      <4>1. ~(r + 1 <= Depth[f.matching[j]])
        <5>1. CASE f.next[f.i] = Ended
          BY <2>1, <2>2, <3>1, <3>2, <5>1
        <5>2. CASE f.next[f.i] # Ended
          <6>1. Depth[f.next[f.i]] = 0
            BY <3>3, <5>2 DEF Ended, Blocks
          <6> QED
            BY <2>1, <2>2, <3>1, <3>2, <5>2, <6>1
        <5> QED
          BY <5>1, <5>2
      <4> HIDE DEF g, q
      <4> QED
        BY <1>3, <3>1, <3>2, <3>3, <4>1
    <3>4. CASE x # Ended
      <4>1. x \in Blocks /\ f.next[f.i] \in Blocks /\ Depth[f.next[f.i]] = Depth[x] + 1
        BY <3>4
      <4>2. f.next[f.i] # Ended /\ Depth[x] \in Nat
        BY <1>9, <4>1 DEF Ended, Blocks
      <4>3. Depth[x] + 1 = Depth[f.matching[j]] - r
        BY <2>2, <3>1, <3>2, <4>1, <4>2
      <4> HIDE DEF g, q
      <4>4. /\ r + 1 <= Depth[f.matching[j]]
            /\ Depth[x] = Depth[f.matching[j]] - (r + 1)
        BY <2>1, <4>2, <4>3
      <4>5. g.next[j] # Ended /\ g.next[j] = x /\ g.matching[j] = f.matching[j]
        BY <1>3, <3>2, <3>4
      <4> HIDE DEF Moves
      <4> QED
        BY <3>1, <4>4, <4>5
    <3> QED
      BY <3>3, <3>4
  <2>3. CASE j # f.i
    <3>1. Moves(g, q, j) = m
      BY <1>1, <1>3, <2>1, <2>3
    <3>2. g.next[j] = f.next[j] /\ InRound(f, r, j)
      BY <1>4, <1>8, <2>3
    <3> HIDE DEF g, q, m
    <3> QED
      BY <1>3, <3>1, <3>2 DEF m
  <2> QED
    BY <2>2, <2>3
<1>12. Rounds(g, q)
  <2> HIDE DEF g, q
  <2> QED
    BY <1>3, <1>11 DEF Rounds
<1>13. InRange(g)
  <2> HIDE DEF g
  <2> QED
    BY <1>3, <1>4, <1>5, <1>6 DEF InRange
<1> HIDE DEF q
<1> QED
  BY <1>3, <1>10, <1>12, <1>13 DEF FrameInv

\* When one chain is left, it is that of the last of the deepest candidates.
LEMMA LastLeft ==
    ASSUME Scan, NEW f, FrameInv(f), Cardinality(Live(f)) = 1
    PROVE  LastDeepest(f.matching, CHOOSE j \in Live(f) : TRUE)
<1> DEFINE L == Len(f.matching)
           j == CHOOSE i \in Live(f) : TRUE
           Moves(r, k) == IF k < f.i THEN r + 1 ELSE r
<1>1. /\ L \in Nat /\ f.i \in 1..L /\ DOMAIN f.matching = 1..L /\ DOMAIN f.next = 1..L
      /\ \A k \in 1..L : f.matching[k] \in Blocks
  <2>1. f \in Frames /\ Len(f.next) = L /\ f.i \in 1..L
    BY DEF FrameInv, InRange
  <2>2. f.matching \in Seq(Blocks) /\ f.next \in Seq(Blocks \cup {Ended})
    BY <2>1 DEF Frames
  <2> QED
    BY <2>1, <2>2, LenProperties, ElementOfSeq
<1>2. Live(f) = {k \in 1..L : f.next[k] # Ended}
  BY <1>1 DEF Live
<1>3. \E x : Live(f) = {x}
  <2>1. 1 \in Int /\ L \in Int /\ Live(f) \subseteq 1..L
    BY <1>1, <1>2
  <2>2. IsFiniteSet(1..L)
    BY <2>1, FS_Interval, Zenon
  <2>3. IsFiniteSet(Live(f))
    BY <2>1, <2>2, FS_Subset
  <2> QED
    BY <2>3, FS_Singleton
<1>4. Live(f) = {j}
  BY <1>3
<1> HIDE DEF j
<1>5. PICK r \in Nat : Rounds(f, r)
  BY DEF FrameInv
<1>6. \A k \in 1..L : /\ f.next[k] # Ended <=> Moves(r, k) <= Depth[f.matching[k]]
                      /\ Depth[f.matching[k]] \in Nat
  BY <1>1, <1>5, DepthIs DEF Rounds
<1>7. j \in 1..L /\ Moves(r, j) <= Depth[f.matching[j]] /\ Depth[f.matching[j]] \in Nat
  BY <1>2, <1>4, <1>6
<1>8. ASSUME NEW k \in 1..L, k # j
      PROVE  /\ Depth[f.matching[k]] <= Depth[f.matching[j]]
             /\ Depth[f.matching[k]] = Depth[f.matching[j]] => k <= j
  <2>1. f.next[k] = Ended
    BY <1>2, <1>4, <1>8
  <2>2. ~(Moves(r, k) <= Depth[f.matching[k]]) /\ Depth[f.matching[k]] \in Nat
    BY <1>6, <2>1
  <2>3. k \in Nat /\ j \in Nat /\ f.i \in Nat
    BY <1>1, <1>7
  <2> QED
    BY <1>7, <1>8, <2>2, <2>3
<1>9. LastDeepest(f.matching, j)
  BY <1>1, <1>7, <1>8 DEF LastDeepest
<1> QED
  BY <1>9 DEF j

-----------------------------------------------------------------------------
(* The candidates of the first call.                                       *)

LEMMA AboveTyped ==
    ASSUME Scan, NEW below, Len(below) \in Nat
    PROVE  Above(below) \in Seq(Blocks)
<1> DEFINE N == Len(below)
           X == Seq(Blocks)
           Rec(f) == f = [n \in 0..N |-> IF n = 0 THEN <<>>
                                         ELSE f[n - 1] \o Followers(below[n])]
           G == [x \in Nat \X X |-> x[2] \o Followers(below[x[1]])]
           above == CHOOSE f : Rec(f)
<1>1. G \in [Nat \X X -> X]
  <2>1. \A t, n : t \in X => t \o Followers(below[n]) \in X
    BY FollowersOf, ConcatProperties
  <2> HIDE DEF X
  <2> QED
    BY <2>1
<1>2. PICK f : Iterated(f, X, <<>>, G, N)
  <2> HIDE DEF X, G, N
  <2>1. <<>> \in X
    BY DEF X
  <2> QED
    BY <1>1, <2>1, Iterates DEF N
<1>3. f \in [0..N -> X] /\ f[0] = <<>>
  BY <1>2 DEF Iterated
<1> HIDE DEF N
<1>4. N \in Nat
  BY DEF N
<1>5. \A n \in 1..N : f[n] = f[n - 1] \o Followers(below[n])
  <2> SUFFICES ASSUME NEW n \in 1..N PROVE f[n] = f[n - 1] \o Followers(below[n])
    OBVIOUS
  <2>1. n - 1 \in 0..N /\ n \in Nat
    BY <1>4
  <2>2. f[n - 1] \in X /\ f[n] = G[<<n, f[n - 1]>>]
    BY <1>2, <2>1 DEF Iterated
  <2>3. <<n, f[n - 1]>> \in Nat \X X
    BY <2>1, <2>2
  <2> HIDE DEF X
  <2> QED
    BY <2>2, <2>3
<1>6. Rec(f)
  <2> HIDE DEF X
  <2>1. \A n \in 0..N : n = 0 \/ n \in 1..N
    BY <1>4
  <2> QED
    BY <1>3, <1>5, <2>1
<1>7. Rec(above)
  <2> HIDE DEF Rec
  <2> QED
    BY <1>6
<1>8. Above(below) = above[N]
  BY DEF Above, N
<1>9. /\ above[0] = <<>>
      /\ \A n \in 1..N : above[n] = above[n - 1] \o Followers(below[n])
  <2> HIDE DEF above
  <2>1. 0 \in 0..N /\ \A n \in 1..N : n \in 0..N /\ n # 0
    BY <1>4
  <2> QED
    BY <1>7, <2>1
<1> HIDE DEF above, Rec, G
<1> DEFINE K == {n \in Nat : n <= N => above[n] \in X}
<1>10. 0 \in K
  <2>1. above[0] \in X
    BY <1>9
  <2> QED
    BY <2>1
<1>11. ASSUME NEW n \in Nat, n \in K PROVE n + 1 \in K
  <2> SUFFICES ASSUME n + 1 <= N PROVE above[n + 1] \in X
    OBVIOUS
  <2>1. n + 1 \in 1..N /\ (n + 1) - 1 = n /\ n <= N
    BY <1>4
  <2>2. above[n + 1] = above[n] \o Followers(below[n + 1]) /\ above[n] \in X
    BY <1>9, <1>11, <2>1
  <2> QED
    BY <2>2, FollowersOf, ConcatProperties
<1>12. \A n \in Nat : n \in K
  <2> HIDE DEF K
  <2> QED
    BY <1>10, <1>11, Induction
<1> QED
  BY <1>4, <1>8, <1>12

\* What it is called for are blocks.
LEMMA LevelsTyped ==
    ASSUME Scan, NEW s \in Levels
    PROVE  s \in Seq(Blocks)
<1> DEFINE N == MaxBlocks
           X == Seq(0..N)
           Rec(f) == f = [h \in 0..N |-> IF h = 0 THEN <<Root>> ELSE Above(f[h - 1])]
           G == [x \in Nat \X X |-> Above(x[2])]
           level == CHOOSE f : Rec(f)
<1>1. N \in Nat /\ <<Root>> \in X /\ \A t \in X : Len(t) \in Nat
  BY MaxBlocksAssumption DEF Root
<1>2. \A t \in X : Above(t) \in Seq(Blocks) /\ Above(t) \in X
  <2> SUFFICES ASSUME NEW t \in X PROVE Above(t) \in Seq(Blocks) /\ Above(t) \in X
    OBVIOUS
  <2>1. Above(t) \in Seq(Blocks)
    BY <1>1, AboveTyped
  <2>2. Blocks \subseteq 0..N
    BY <1>1 DEF Blocks
  <2> HIDE DEF N
  <2>3. Above(t) \in X
    BY <2>1, <2>2, SeqMonotonic
  <2> QED
    BY <2>1, <2>3
<1>3. G \in [Nat \X X -> X]
  <2> HIDE DEF X
  <2> QED
    BY <1>2
<1>4. PICK f : Iterated(f, X, <<Root>>, G, N)
  <2> HIDE DEF X, G, N
  <2> QED
    BY <1>1, <1>3, Iterates
<1>5. f \in [0..N -> X] /\ f[0] = <<Root>>
  BY <1>4 DEF Iterated
<1>6. \A h \in 1..N : f[h] = Above(f[h - 1])
  <2> SUFFICES ASSUME NEW h \in 1..N PROVE f[h] = Above(f[h - 1])
    OBVIOUS
  <2>1. h - 1 \in 0..N /\ h \in Nat
    BY <1>1
  <2>2. f[h - 1] \in X /\ f[h] = G[<<h, f[h - 1]>>]
    BY <1>4, <2>1 DEF Iterated
  <2>3. <<h, f[h - 1]>> \in Nat \X X
    BY <2>1, <2>2
  <2> HIDE DEF X
  <2> QED
    BY <2>2, <2>3
<1>7. Rec(f)
  <2> HIDE DEF X, N
  <2>1. \A h \in 0..N : h = 0 \/ h \in 1..N
    BY <1>1
  <2> QED
    BY <1>5, <1>6, <2>1
<1>8. Rec(level)
  <2> HIDE DEF Rec
  <2> QED
    BY <1>7
<1>9. PICK h \in 1..N : s = level[h]
  BY DEF Levels
<1>10. /\ level[0] = <<Root>>
       /\ \A n \in 1..N : level[n] = Above(level[n - 1])
  <2> HIDE DEF level
  <2>1. 0 \in 0..N /\ \A n \in 1..N : n \in 0..N /\ n # 0
    BY <1>1
  <2> HIDE DEF N
  <2> QED
    BY <1>8, <2>1
<1> HIDE DEF level, Rec, G
<1> DEFINE K == {n \in Nat : n <= N => level[n] \in X}
<1>11. 0 \in K
  BY <1>1, <1>10
<1>12. ASSUME NEW n \in Nat, n \in K PROVE n + 1 \in K
  <2> SUFFICES ASSUME n + 1 <= N PROVE level[n + 1] \in X
    OBVIOUS
  <2>1. n + 1 \in 1..N /\ (n + 1) - 1 = n /\ n <= N
    BY <1>1
  <2>2. level[n + 1] = Above(level[n]) /\ level[n] \in X
    BY <1>10, <1>12, <2>1
  <2> HIDE DEF X
  <2> QED
    BY <1>2, <2>2
<1>13. \A n \in Nat : n \in K
  <2> HIDE DEF K
  <2> QED
    BY <1>11, <1>12, Induction
<1>14. h - 1 \in Nat /\ h - 1 <= N
  BY <1>1
<1>15. level[h - 1] \in X
  BY <1>13, <1>14
<1> HIDE DEF X
<1> QED
  BY <1>2, <1>9, <1>10, <1>15

\* A call begins with all its chains left and no move made.
LEMMA NewFrame ==
    ASSUME Scan, NEW s \in Seq(Blocks), Len(s) > 1
    PROVE  FrameInv(Frame(s)) /\ Frame(s).matching = s
<1> DEFINE f == Frame(s)
<1>1. /\ Len(s) \in Nat /\ DOMAIN s = 1..Len(s)
      /\ \A j \in 1..Len(s) : s[j] \in Blocks /\ s[j] # Ended
  <2>1. \A b \in Blocks : b # Ended
    BY DEF Blocks, Ended
  <2> QED
    BY <2>1, LenProperties, ElementOfSeq
<1>2. f.matching = s /\ f.next = s /\ f.i = 1
  BY DEF Frame
<1>3. InRange(f)
  <2>1. s \in Seq(Blocks \cup {Ended})
    BY <1>1
  <2>2. f \in Frames
    BY <2>1 DEF Frame, Frames
  <2> HIDE DEF f
  <2> QED
    BY <1>1, <1>2, <2>2 DEF InRange
<1> HIDE DEF f
<1>4. 1 \in Live(f)
  BY <1>1, <1>2 DEF Live
<1>5. Rounds(f, 0)
  <2>1. \A b \in Blocks : Depth[b] \in Nat
    BY DepthIs
  <2>2. \A j \in 1..Len(s) : ~(j < 1) /\ Depth[s[j]] \in Nat
    BY <1>1, <2>1
  <2> QED
    BY <1>1, <1>2, <2>2 DEF Rounds
<1> QED
  BY <1>2, <1>3, <1>4, <1>5 DEF FrameInv, f

LEMMA InitStack == Init => StackInv
<1> SUFFICES ASSUME Init PROVE StackInv
  OBVIOUS
<1>1. Scan
  BY DEF Init, Scan
<1>2. asked \in Seq(Blocks) /\ Len(asked) > 1
  BY <1>1, FollowersOf, LevelsTyped DEF Init
<1>3. FrameInv(Frame(asked)) /\ Frame(asked).matching = asked
  BY <1>1, <1>2, NewFrame
<1>4. Frame(asked) \in Frames
  BY <1>3 DEF FrameInv, InRange
<1>5. stack = <<Frame(asked)>> /\ answer = Ended
  BY DEF Init
<1> DEFINE f == Frame(asked)
<1> HIDE DEF f
<1>6. /\ stack \in Seq(Frames) /\ Len(stack) = 1 /\ stack[1] = f /\ stack # <<>>
  BY <1>4, <1>5 DEF f
<1>7. \A k \in 1..Len(stack) : k = 1 /\ ~(k + 1 <= Len(stack))
  BY <1>6
<1> QED
  BY <1>1, <1>2, <1>3, <1>5, <1>6, <1>7 DEF StackInv, StackIs, f

-----------------------------------------------------------------------------
(* The steps.                                                              *)

LEMMA TopIs ==
    ASSUME NEW st, NEW last, StackIs(st, last), st # <<>>
    PROVE  LET n == Len(st)
           IN  /\ n \in Nat /\ n >= 1 /\ st \in Seq(Frames) /\ st[n] \in Frames
               /\ FrameInv(st[n])
               /\ st[n].matching \in Seq(Blocks)
               /\ st[n].next[st[n].i] \in Blocks \cup {Ended}
               /\ st[n].i \in DOMAIN st[n].next
<1> DEFINE n == Len(st)
           f == st[n]
<1>1. n \in Nat /\ n >= 1 /\ st \in Seq(Frames)
  BY EmptySeq, LenProperties DEF StackIs
<1>2. n \in 1..n
  BY <1>1
<1>3. FrameInv(f) /\ f \in Frames /\ Len(f.next) = Len(f.matching) /\ f.i \in 1..Len(f.matching)
  BY <1>2 DEF StackIs, FrameInv, InRange
<1>4. f.matching \in Seq(Blocks) /\ f.next \in Seq(Blocks \cup {Ended})
  BY <1>3 DEF Frames
<1>5. f.next[f.i] \in Blocks \cup {Ended} /\ f.i \in DOMAIN f.next
  BY <1>3, <1>4, LenProperties, ElementOfSeq
<1> QED
  BY <1>1, <1>3, <1>4, <1>5

LEMMA ReplaceTop ==
    ASSUME NEW st, NEW last, StackIs(st, last), st # <<>>,
           NEW g, FrameInv(g), g.matching = st[Len(st)].matching
    PROVE  StackIs([st EXCEPT ![Len(st)] = g], last)
<1> DEFINE n == Len(st)
           t == [st EXCEPT ![n] = g]
<1>1. n \in Nat /\ n >= 1 /\ n \in 1..n /\ st \in Seq(Frames) /\ g \in Frames
  BY TopIs DEF FrameInv, InRange
<1>2. /\ t \in Seq(Frames) /\ Len(t) = n
      /\ \A k \in 1..n : t[k] = IF k = n THEN g ELSE st[k]
  BY <1>1, ExceptSeq
<1>3. t # <<>> /\ t[1].matching = asked
  <2>1. t # <<>>
    BY <1>1, <1>2, EmptySeq
  <2>2. 1 \in 1..n /\ st[1].matching = asked
    BY <1>1 DEF StackIs
  <2>3. CASE n = 1
    BY <1>2, <2>1, <2>2, <2>3
  <2>4. CASE n # 1
    BY <1>2, <2>1, <2>2, <2>4
  <2> QED
    BY <2>3, <2>4
<1>4. \A k \in 1..n : FrameInv(t[k])
  BY <1>2 DEF StackIs
<1>5. ASSUME NEW k \in 1..n, k + 1 <= n PROVE Waits(t[k], t[k + 1])
  <2>1. k \in Nat /\ k # n /\ k + 1 \in 1..n /\ Waits(st[k], st[k + 1])
    BY <1>1, <1>5 DEF StackIs
  <2>2. t[k] = st[k] /\ t[k + 1].matching = st[k + 1].matching
    BY <1>2, <2>1
  <2> QED
    BY <2>1, <2>2 DEF Waits
<1>6. last \in Blocks \cup {Ended}
  BY DEF StackIs
<1> HIDE DEF t, n
<1>7. StackIs(t, last)
  BY <1>2, <1>3, <1>4, <1>5, <1>6 DEF StackIs
<1> QED
  BY <1>7 DEF t, n

LEMMA PushFrame ==
    ASSUME NEW st, NEW last, StackIs(st, last), st # <<>>,
           NEW g, FrameInv(g), Waits(st[Len(st)], g)
    PROVE  StackIs(Append(st, g), last)
<1> DEFINE n == Len(st)
           t == Append(st, g)
<1>1. n \in Nat /\ n >= 1 /\ n \in 1..n /\ st \in Seq(Frames) /\ g \in Frames
  BY TopIs DEF FrameInv, InRange
<1>2. /\ t \in Seq(Frames) /\ Len(t) = n + 1
      /\ \A k \in 1..n : t[k] = st[k]
      /\ t[n + 1] = g
  BY <1>1, AppendProperties
<1>3. t # <<>> /\ t[1].matching = asked
  <2>1. t # <<>>
    BY <1>1, <1>2, EmptySeq
  <2>2. 1 \in 1..n /\ st[1].matching = asked
    BY <1>1 DEF StackIs
  <2> QED
    BY <1>2, <2>1, <2>2
<1>4. ASSUME NEW k \in 1..(n + 1) PROVE FrameInv(t[k])
  <2>1. k \in 1..n \/ k = n + 1
    BY <1>1
  <2> QED
    BY <1>2, <2>1 DEF StackIs
<1>5. ASSUME NEW k \in 1..(n + 1), k + 1 <= n + 1 PROVE Waits(t[k], t[k + 1])
  <2>1. CASE k = n
    BY <1>1, <1>2, <2>1
  <2>2. CASE k # n
    <3>1. k \in 1..n /\ k + 1 \in 1..n /\ k + 1 <= n
      BY <1>1, <1>5, <2>2
    <3>2. Waits(st[k], st[k + 1])
      BY <3>1 DEF StackIs
    <3> QED
      BY <1>2, <3>1, <3>2
  <2> QED
    BY <2>1, <2>2
<1>6. last \in Blocks \cup {Ended}
  BY DEF StackIs
<1> HIDE DEF t, n
<1>7. StackIs(t, last)
  BY <1>2, <1>3, <1>4, <1>5, <1>6 DEF StackIs
<1> QED
  BY <1>7 DEF t, n

LEMMA PopFrame ==
    ASSUME NEW st, NEW last, StackIs(st, last), st # <<>>
    PROVE  LET n == Len(st)
               t == SubSeq(st, 1, n - 1)
           IN  /\ t = <<>> <=> n = 1
               /\ t # <<>> => /\ StackIs(t, last) /\ n - 1 \in 1..n
                              /\ Len(t) = n - 1 /\ t[n - 1] = st[n - 1]
                              /\ Waits(st[n - 1], st[n])
<1> DEFINE n == Len(st)
           t == SubSeq(st, 1, n - 1)
<1>1. n \in Nat /\ n >= 1 /\ st \in Seq(Frames) /\ \A k \in 1..n : st[k] \in Frames
  BY TopIs, ElementOfSeq
<1>2. /\ t \in Seq(Frames) /\ Len(t) = n - 1
      /\ \A k \in 1..(n - 1) : t[k] = st[k]
  <2>1. 1 \in Int /\ n - 1 \in Int /\ \A k \in 1..(n - 1) : st[k] \in Frames
    BY <1>1
  <2>2. /\ t \in Seq(Frames) /\ Len(t) = IF 1 <= n - 1 THEN (n - 1) - 1 + 1 ELSE 0
        /\ \A k \in 1..((n - 1) - 1 + 1) : t[k] = st[1 + k - 1]
    BY <2>1, SubSeqProperties
  <2>3. (n - 1) - 1 + 1 = n - 1 /\ \A k \in 1..(n - 1) : 1 + k - 1 = k
    BY <1>1
  <2> HIDE DEF t, n
  <2> QED
    BY <1>1, <2>2, <2>3
<1> HIDE DEF t
<1>3. t = <<>> <=> n = 1
  BY <1>1, <1>2, EmptySeq
<1>4. ASSUME t # <<>>
      PROVE  StackIs(t, last) /\ n - 1 \in 1..n /\ t[n - 1] = st[n - 1] /\ Waits(st[n - 1], st[n])
  <2>1. n - 1 \in 1..(n - 1) /\ n - 1 \in 1..n /\ (n - 1) + 1 = n /\ 1 \in 1..(n - 1)
    <3>1. n \in Nat /\ n >= 1 /\ n # 1
      BY <1>1, <1>3, <1>4
    <3> HIDE DEF n
    <3> QED
      BY <3>1
  <2>2. Waits(st[n - 1], st[n])
    BY <2>1 DEF StackIs
  <2>3. t[1].matching = asked
    BY <1>2, <2>1 DEF StackIs
  <2>4. \A k \in 1..(n - 1) : k \in 1..n /\ FrameInv(t[k])
    BY <1>1, <1>2 DEF StackIs
  <2>5. ASSUME NEW k \in 1..(n - 1), k + 1 <= n - 1 PROVE Waits(t[k], t[k + 1])
    <3>1. k + 1 \in 1..(n - 1) /\ k + 1 <= n /\ k \in 1..n
      BY <1>1, <2>5
    <3>2. Waits(st[k], st[k + 1])
      BY <3>1 DEF StackIs
    <3> QED
      BY <1>2, <3>1, <3>2
  <2>6. last \in Blocks \cup {Ended}
    BY DEF StackIs
  <2> HIDE DEF n
  <2>7. StackIs(t, last)
    BY <1>2, <1>4, <2>3, <2>4, <2>5, <2>6 DEF StackIs
  <2> QED
    BY <1>2, <2>1, <2>2, <2>7
<1> QED
  BY <1>2, <1>3, <1>4 DEF t

\* The answer of a call is a block that follows with the most blocks above it.
LEMMA AnswerFollows ==
    ASSUME Scan, NEW b \in Blocks, NEW list \in Seq(Blocks), NEW j, LastDeepest(list, j),
           \A c : Child(c, b) <=> Chain!IsIn(c, list)
    PROVE  list[j] \in Blocks /\ Depth[b] = Depth[list[j]] + 1
<1>1. /\ j \in DOMAIN list
      /\ \A k \in DOMAIN list : Depth[list[k]] <= Depth[list[j]]
  BY DEF LastDeepest
<1>2. Child(list[j], b)
  BY <1>1 DEF Chain!IsIn
<1>3. list[j] \in Blocks
  BY <1>2 DEF Child
<1>4. PICK c : Child(c, b) /\ Depth[b] = Depth[c] + 1
  BY <1>2, DepthIs
<1>5. PICK k \in DOMAIN list : list[k] = c
  BY <1>4 DEF Chain!IsIn
<1>6. c \in Blocks /\ Depth[c] \in Nat /\ Depth[list[j]] \in Nat /\ Depth[b] \in Nat
  BY <1>3, <1>4, DepthIs DEF Child
<1>7. Depth[list[j]] < Depth[b]
  BY <1>2, DepthIs
<1>8. Depth[c] <= Depth[list[j]]
  BY <1>1, <1>5
<1> QED
  BY <1>3, <1>4, <1>6, <1>7, <1>8

\* Only a block has followers.
LEMMA OneFollower ==
    ASSUME Scan, NEW b \in Blocks \cup {Ended}
    PROVE  /\ Followers(b) = <<>> => b = Ended \/ Depth[b] = 0
           /\ Followers(b) # <<>> => b \in Blocks
           /\ Len(Followers(b)) = 1 =>
                 /\ Followers(b)[1] \in Blocks
                 /\ Depth[b] = Depth[Followers(b)[1]] + 1
<1> DEFINE s == Followers(b)
<1>1. /\ s \in Seq(Blocks) /\ Len(s) \in Nat /\ DOMAIN s = 1..Len(s)
      /\ \A c : Chain!IsIn(c, s) <=> Child(c, b)
  BY FollowersOf, LenProperties
<1> HIDE DEF s
<1>2. s # <<>> => b \in Blocks
  <2> SUFFICES ASSUME s # <<>> PROVE b \in Blocks
    OBVIOUS
  <2>1. 1 \in DOMAIN s
    BY <1>1, EmptySeq
  <2>2. Child(s[1], b)
    BY <1>1, <2>1 DEF Chain!IsIn
  <2> QED
    BY <2>2, Scanned DEF Child, Ended
<1>3. s = <<>> => b = Ended \/ Depth[b] = 0
  <2> SUFFICES ASSUME s = <<>>, b \in Blocks PROVE Depth[b] = 0
    OBVIOUS
  <2>1. DOMAIN s = {}
    BY <1>1
  <2>2. \A c : ~Child(c, b)
    BY <1>1, <2>1 DEF Chain!IsIn
  <2> QED
    BY <2>2, DepthIs
<1>4. Len(s) = 1 => s[1] \in Blocks /\ Depth[b] = Depth[s[1]] + 1
  <2> SUFFICES ASSUME Len(s) = 1 PROVE s[1] \in Blocks /\ Depth[b] = Depth[s[1]] + 1
    OBVIOUS
  <2>1. DOMAIN s = {1} /\ s # <<>>
    BY <1>1, EmptySeq
  <2>2. s[1] \in Blocks
    BY <1>1, <2>1, ElementOfSeq
  <2>3. Depth[s[1]] \in Nat
    BY <2>2, DepthIs
  <2>4. LastDeepest(s, 1)
    BY <2>1, <2>3 DEF LastDeepest
  <2> QED
    BY <1>1, <1>2, <2>1, <2>4, AnswerFollows
<1> QED
  BY <1>2, <1>3, <1>4 DEF s

\* Unless one chain only is left, there is another one to the i-th.
LEMMA OthersLive ==
    ASSUME NEW f, FrameInv(f), Cardinality(Live(f)) # 1, NEW x
    PROVE  Live(Moved(f, x)) # {}
<1>1. Live(f) # {f.i}
  BY FS_Singleton
<1>2. PICK j \in Live(f) : j # f.i
  BY <1>1 DEF FrameInv
<1>3. f \in Frames /\ j \in DOMAIN f.next /\ f.next[j] # Ended
  BY <1>2 DEF FrameInv, InRange, Live
<1>4. Moved(f, x).next = [f.next EXCEPT ![f.i] = x]
  BY <1>3 DEF Moved, Frames
<1>5. j \in Live(Moved(f, x))
  BY <1>2, <1>3, <1>4 DEF Live
<1> QED
  BY <1>5

\* The answer of a call is where the chain of its caller goes on, or what the
\* first call returns.
LEMMA ReturnSteps == StackInv /\ Return => StackIs(stack', answer')
<1> SUFFICES ASSUME StackInv, Return PROVE StackIs(stack', answer')
  OBVIOUS
<1> DEFINE n == Len(stack)
           j == CHOOSE i \in Live(Top) : TRUE
           best == Top.matching[j]
           rest == SubSeq(stack, 1, n - 1)
<1>1. /\ Scan /\ asked \in Seq(Blocks) /\ StackIs(stack, answer) /\ stack # <<>>
      /\ Cardinality(Live(Top)) = 1
  BY DEF StackInv, Return, Running
<1>2. /\ n \in Nat /\ n >= 1 /\ FrameInv(Top) /\ Top.matching \in Seq(Blocks)
  BY <1>1, TopIs DEF Top
<1>3. LastDeepest(Top.matching, j)
  BY <1>1, <1>2, LastLeft
<1>4. best \in Blocks
  BY <1>2, <1>3, ElementOfSeq, LenProperties DEF LastDeepest
<1>5. CASE rest = <<>>
  <2>1. stack' = <<>> /\ answer' = best
    BY <1>5 DEF Return
  <2>2. n = 1
    BY <1>1, <1>5, PopFrame
  <2>3. Top.matching = asked
    BY <1>1, <2>2 DEF Top, StackIs
  <2>4. <<>> \in Seq(Frames) /\ Len(<<>>) = 0
    OBVIOUS
  <2> HIDE DEF j, best
  <2>5. \E k : LastDeepest(asked, k) /\ best = asked[k]
    BY <1>3, <2>3 DEF best
  <2> QED
    BY <1>4, <2>1, <2>4, <2>5 DEF StackIs
<1>6. CASE rest # <<>>
  <2>1. /\ StackIs(rest, answer) /\ Len(rest) = n - 1 /\ rest[n - 1] = stack[n - 1]
        /\ Waits(stack[n - 1], stack[n])
    BY <1>1, <1>6, PopFrame
  <2>2. stack' = [rest EXCEPT ![Len(rest)] = Moved(rest[Len(rest)], best)] /\ answer' = answer
    BY <1>6 DEF Return
  <2> DEFINE f == rest[Len(rest)]
  <2>3. /\ f.next[f.i] \in Blocks
        /\ \A c : Child(c, f.next[f.i]) <=> Chain!IsIn(c, Top.matching)
    BY <2>1 DEF Waits, Top
  <2>4. Depth[f.next[f.i]] = Depth[best] + 1
    BY <1>1, <1>2, <1>3, <2>3, AnswerFollows
  <2>5. FrameInv(f)
    BY <1>6, <2>1, TopIs
  <2>6. Live(Moved(f, best)) # {}
    <3>1. f \in Frames /\ f.i \in DOMAIN f.next
      BY <1>6, <2>1, TopIs
    <3>2. Moved(f, best).next = [f.next EXCEPT ![f.i] = best]
      BY <3>1 DEF Moved, Frames
    <3>3. best # Ended
      BY <1>4 DEF Blocks, Ended
    <3> HIDE DEF best, f
    <3>4. f.i \in Live(Moved(f, best))
      BY <3>1, <3>2, <3>3 DEF Live
    <3> QED
      BY <3>4
  <2>7. FrameInv(Moved(f, best)) /\ Moved(f, best).matching = f.matching
    <3> HIDE DEF best, f
    <3> QED
      BY <1>1, <1>4, <2>3, <2>4, <2>5, <2>6, MoveKeeps
  <2> HIDE DEF best
  <2> QED
    BY <1>6, <2>1, <2>2, <2>7, ReplaceTop
<1> QED
  BY <1>5, <1>6

LEMMA LoopSteps ==
    StackInv /\ (EndChain \/ FollowOnly \/ Call) => StackIs(stack', answer')
<1> SUFFICES ASSUME StackInv, EndChain \/ FollowOnly \/ Call PROVE StackIs(stack', answer')
  OBVIOUS
<1> DEFINE n == Len(stack)
           b == Top.next[Top.i]
<1>1. /\ Scan /\ StackIs(stack, answer) /\ stack # <<>>
      /\ Cardinality(Live(Top)) # 1 /\ answer' = answer
  BY DEF StackInv, EndChain, FollowOnly, Call, Continues, Running
<1>2. /\ FrameInv(Top) /\ b \in Blocks \cup {Ended}
      /\ n \in Nat /\ n >= 1 /\ stack \in Seq(Frames) /\ Top = stack[n]
  BY <1>1, TopIs DEF Top
<1>3. /\ Followers(b) = <<>> => b = Ended \/ Depth[b] = 0
      /\ Followers(b) # <<>> => b \in Blocks
      /\ Len(Followers(b)) = 1 =>
            /\ Followers(b)[1] \in Blocks
            /\ Depth[b] = Depth[Followers(b)[1]] + 1
  BY <1>1, <1>2, OneFollower
<1>4. Followers(b) \in Seq(Blocks) /\ \A c : Chain!IsIn(c, Followers(b)) <=> Child(c, b)
  BY <1>1, FollowersOf
<1>5. ASSUME NEW x \in Blocks \cup {Ended},
             \/ x = Ended /\ (b = Ended \/ Depth[b] = 0)
             \/ x \in Blocks /\ b \in Blocks /\ Depth[b] = Depth[x] + 1,
             stack' = [stack EXCEPT ![n] = Moved(stack[n], x)]
      PROVE  StackIs(stack', answer')
  <2>1. Live(Moved(Top, x)) # {}
    BY <1>1, <1>2, OthersLive
  <2>2. FrameInv(Moved(Top, x)) /\ Moved(Top, x).matching = Top.matching
    BY <1>1, <1>2, <1>5, <2>1, MoveKeeps
  <2>3. StackIs([stack EXCEPT ![Len(stack)] = Moved(Top, x)], answer)
    BY <1>1, <2>2, ReplaceTop DEF Top
  <2> QED
    BY <1>1, <1>2, <1>5, <2>3
<1>6. CASE EndChain
  <2>1. Followers(b) = <<>> /\ stack' = [stack EXCEPT ![n] = Moved(stack[n], Ended)]
    BY <1>6 DEF EndChain
  <2> HIDE DEF b, n
  <2> QED
    BY <1>3, <1>5, <2>1
<1>7. CASE FollowOnly
  <2>1. /\ Len(Followers(b)) = 1
        /\ stack' = [stack EXCEPT ![n] = Moved(stack[n], Followers(b)[1])]
    BY <1>7 DEF FollowOnly
  <2>2. Followers(b) # <<>>
    BY <1>4, <2>1, EmptySeq
  <2> HIDE DEF b, n
  <2> QED
    BY <1>3, <1>5, <2>1, <2>2
<1>8. CASE Call
  <2> DEFINE g == Frame(Followers(b))
  <2>1. Len(Followers(b)) > 1 /\ stack' = Append(stack, g)
    BY <1>8 DEF Call
  <2>2. Followers(b) # <<>>
    BY <2>1, EmptySeq
  <2>3. FrameInv(g) /\ g.matching = Followers(b)
    BY <1>1, <1>4, <2>1, NewFrame
  <2>4. Waits(Top, g)
    BY <1>3, <1>4, <2>2, <2>3 DEF Waits
  <2> HIDE DEF g
  <2> QED
    BY <1>1, <1>2, <2>1, <2>3, <2>4, PushFrame
<1> QED
  BY <1>6, <1>7, <1>8

LEMMA SameTree ==
    ASSUME StackInv, UNCHANGED <<prevOf, scanned, asked>>, StackIs(stack', answer')
    PROVE  StackInv'
<1>1. Depth' = Depth
  BY DEF Depth, Chain!Children
<1>2. (Scan /\ asked \in Seq(Blocks))'
  BY DEF StackInv, Scan
<1>3. StackIs(stack, answer)'
  <2>1. (\A k \in 1..Len(stack) : FrameInv(stack[k]))'
    BY <1>1 DEF StackIs, FrameInv, InRange, Rounds, Live
  <2>2. (\A k \in 1..Len(stack) : k + 1 <= Len(stack) => Waits(stack[k], stack[k + 1]))'
    BY DEF StackIs, Waits, Child, Chain!IsIn
  <2>3. (stack = <<>> => \E j : LastDeepest(asked, j) /\ answer = asked[j])'
    BY <1>1 DEF StackIs, LastDeepest
  <2>4. (/\ stack \in Seq(Frames) /\ answer \in Blocks \cup {Ended}
         /\ stack # <<>> => stack[1].matching = asked)'
    BY DEF StackIs
  <2> QED
    BY <2>1, <2>2, <2>3, <2>4 DEF StackIs
<1> QED
  BY <1>2, <1>3 DEF StackInv

LEMMA NextStack == StackInv /\ [Next]_vars => StackInv'
<1>1. StackInv /\ UNCHANGED vars => UNCHANGED <<prevOf, scanned, asked>> /\ StackIs(stack', answer')
  BY DEF StackInv, vars
<1>2. Next => UNCHANGED <<prevOf, scanned, asked>>
  BY DEF Next, Return, EndChain, FollowOnly, Call
<1> QED
  BY <1>1, <1>2, ReturnSteps, LoopSteps, SameTree DEF Next

LEMMA StackAlways == Spec => []StackInv
BY InitStack, NextStack, PTL DEF Spec

\* In every call, however deep, the loop index of findLongestChain stays inside
\* the vectors, and these are as long as one another.
THEOREM IndexInside == Spec => []TypeOK
<1>1. StackInv => TypeOK
  <2> SUFFICES ASSUME StackInv PROVE TypeOK
    OBVIOUS
  <2>1. /\ prevOf \in Trees /\ scanned \in Orders /\ asked \in Seq(Blocks)
        /\ answer \in Blocks \cup {Ended}
        /\ stack \in Seq(Frames) /\ DOMAIN stack = 1..Len(stack)
    BY LenProperties DEF StackInv, StackIs, Scan
  <2>2. ASSUME NEW k \in DOMAIN stack
        PROVE  /\ Len(stack[k].next) = Len(stack[k].matching)
               /\ stack[k].i \in DOMAIN stack[k].next
               /\ \A j \in DOMAIN stack[k].next : stack[k].next[j] \in Blocks \cup {Ended}
    <3>1. InRange(stack[k])
      BY <2>1, <2>2 DEF StackInv, StackIs, FrameInv
    <3>2. stack[k].next \in Seq(Blocks \cup {Ended})
      BY <3>1 DEF InRange, Frames
    <3> QED
      BY <3>1, <3>2, LenProperties, ElementOfSeq DEF InRange
  <2> QED
    BY <2>1, <2>2 DEF TypeOK
<1> QED
  BY <1>1, StackAlways, PTL

\* A call never sees all its chains end, which would leave the loop of
\* findLongestChain without a way out.
THEOREM ChainsLive == Spec => []SomeChainLives
<1>1. StackInv => SomeChainLives
  <2> SUFFICES ASSUME StackInv, NEW k \in DOMAIN stack PROVE Live(stack[k]) # {}
    BY DEF SomeChainLives
  <2>1. stack \in Seq(Frames) /\ DOMAIN stack = 1..Len(stack)
    BY LenProperties DEF StackInv, StackIs
  <2> QED
    BY <2>1 DEF StackInv, StackIs, FrameInv
<1> QED
  BY <1>1, StackAlways, PTL

\* For every tree of blocks, every order in which they were found and every
\* list of candidates, the loop with its calls of itself returns the last of
\* those with the longest chain above them.
THEOREM DeepestReturned == Spec => []ReturnsDeepest
<1>1. StackInv => ReturnsDeepest
  <2> SUFFICES ASSUME StackInv, stack = <<>> PROVE ReturnsDeepest
    BY DEF ReturnsDeepest, Running
  <2>1. PICK j : LastDeepest(asked, j) /\ answer = asked[j]
    BY DEF StackInv, StackIs
  <2>2. LET deepest == {i \in DOMAIN asked : \A k \in DOMAIN asked :
                          Depth[asked[k]] <= Depth[asked[i]]}
        IN  /\ asked[j] = asked[CHOOSE i \in deepest : \A k \in deepest : k <= i]
            /\ asked[j] = Chain!Best(asked, scanned)
    BY <2>1, BestIsLastDeepest DEF StackInv
  <2> QED
    BY <2>1, <2>2 DEF ReturnsDeepest
<1> QED
  BY <1>1, StackAlways, PTL
=============================================================================
