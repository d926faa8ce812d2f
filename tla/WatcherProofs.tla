--------------------------- MODULE WatcherProofs ---------------------------
(***************************************************************************)
(* Theorems about BlockFileWatcher: its walk calls the indexer as          *)
(* BlockIndexer takes it to be called, and ends with a longest chain.  And *)
(* about Startup, which starts the watcher: the indexer that the program   *)
(* runs is the one of BlockIndexer, so what is proved of that holds of it, *)
(* and it never runs without a monitor to report to.                       *)
(***************************************************************************)
EXTENDS BlockFileWatcher, Startup, BlockIndexerProofs, CommonLemmas

-----------------------------------------------------------------------------
(* The scan and the choice of a block.                                     *)

\* The positions of a sequence of blocks.
LEMMA ScanTyped ==
    ASSUME NEW s \in Seq(Blocks)
    PROVE  /\ Len(s) \in Nat /\ DOMAIN s = 1..Len(s)
           /\ \A i \in DOMAIN s : s[i] \in Blocks /\ Prev[s[i]] \in Blocks \cup {ZeroHash}
BY LenProperties, ElementOfSeq, ChainAssumption

\* The recursion of FollowedBy.
LEMMA FollowSteps ==
    ASSUME NEW s \in Seq(Blocks)
    PROVE  /\ Chain!FollowedBy(s)[0] = Blocks
           /\ \A n \in 1..Len(s) : \A p :
                 p \in Chain!FollowedBy(s)[n] <=>
                    \E i \in DOMAIN s : Prev[s[i]] = p /\ s[i] \in Chain!FollowedBy(s)[n - 1]
<1> DEFINE N == Len(s)
           X == SUBSET (Blocks \cup {ZeroHash})
           Below(above) == {Prev[s[i]] : i \in {j \in DOMAIN s : s[j] \in above}}
           Rec(f) == f = [n \in 0..N |-> IF n = 0 THEN Blocks ELSE Below(f[n - 1])]
           G == [x \in Nat \X X |-> Below(x[2])]
<1>1. N \in Nat
  BY ScanTyped
<1>2. G \in [Nat \X X -> X]
  <2>1. \A above : Below(above) \in X
    BY ScanTyped
  <2> HIDE DEF Below
  <2> QED
    BY <2>1
<1>3. Blocks \in X
  OBVIOUS
<1>4. PICK f \in [0..N -> X] : f[0] = Blocks /\ \A n \in 1..N : f[n] = G[<<n, f[n - 1]>>]
  <2> HIDE DEF X, G, N
  <2>1. PICK f : Iterated(f, X, Blocks, G, N)
    BY <1>1, <1>2, <1>3, Iterates
  <2> QED
    BY <2>1 DEF Iterated
<1>5. \A n \in 1..N : f[n] = Below(f[n - 1])
  <2> SUFFICES ASSUME NEW n \in 1..N PROVE f[n] = Below(f[n - 1])
    OBVIOUS
  <2>1. n - 1 \in 0..N /\ n \in Nat
    BY <1>1
  <2>2. f[n - 1] \in X
    BY <2>1
  <2>3. <<n, f[n - 1]>> \in Nat \X X
    BY <2>1, <2>2
  <2>4. G[<<n, f[n - 1]>>] = Below(f[n - 1])
    <3> HIDE DEF X, Below
    <3> QED
      BY <2>3
  <2> QED
    BY <1>4, <2>4
<1>6. Rec(f)
  <2> HIDE DEF Below, X
  <2>1. f = [n \in 0..N |-> f[n]]
    BY <1>4
  <2>2. \A n \in 0..N : f[n] = IF n = 0 THEN Blocks ELSE Below(f[n - 1])
    BY <1>1, <1>4, <1>5
  <2> QED
    BY <2>1, <2>2
<1>7. Chain!FollowedBy(s) = CHOOSE g : Rec(g)
  BY DEF Chain!FollowedBy
<1>8. Rec(Chain!FollowedBy(s))
  <2> HIDE DEF Rec
  <2> QED
    BY <1>6, <1>7
<1> DEFINE follow == Chain!FollowedBy(s)
<1>9. follow[0] = Blocks /\ \A n \in 1..N : follow[n] = Below(follow[n - 1])
  <2> HIDE DEF Below
  <2>1. follow = [n \in 0..N |-> IF n = 0 THEN Blocks ELSE Below(follow[n - 1])]
    BY <1>8
  <2> HIDE DEF follow
  <2> QED
    BY <1>1, <2>1
<1> HIDE DEF follow
<1>10. \A n \in 1..N : \A p :
         p \in follow[n] <=> \E i \in DOMAIN s : Prev[s[i]] = p /\ s[i] \in follow[n - 1]
  BY <1>9
<1> QED
  BY <1>9, <1>10 DEF follow

\* What n + 1 blocks follow, n blocks follow.
LEMMA FollowShrinks ==
    ASSUME NEW s \in Seq(Blocks), NEW m \in 0..Len(s), NEW n \in 0..Len(s), m <= n,
           NEW b \in Blocks, b \in Chain!FollowedBy(s)[n]
    PROVE  b \in Chain!FollowedBy(s)[m]
<1> DEFINE N == Len(s)
           follow == Chain!FollowedBy(s)
           One == {k \in Nat : k + 1 \in 0..N =>
                     \A c \in Blocks : c \in follow[k + 1] => c \in follow[k]}
<1>1. N \in Nat
  BY ScanTyped
<1>2. /\ follow[0] = Blocks
      /\ \A k \in 1..N : \A p :
            p \in follow[k] <=> \E i \in DOMAIN s : Prev[s[i]] = p /\ s[i] \in follow[k - 1]
  BY FollowSteps
<1>3. \A i \in DOMAIN s : s[i] \in Blocks
  BY ScanTyped
<1> HIDE DEF follow, N
<1>4. 0 \in One
  BY <1>2
<1>5. ASSUME NEW k \in Nat, k \in One PROVE k + 1 \in One
  <2> SUFFICES ASSUME k + 2 \in 0..N, NEW c \in Blocks, c \in follow[k + 2]
               PROVE  c \in follow[k + 1]
    <3>1. (k + 1) + 1 = k + 2 /\ k + 1 \in Nat
      OBVIOUS
    <3> QED
      BY <3>1
  <2>1. k + 2 \in 1..N /\ k + 1 \in 1..N /\ (k + 2) - 1 = k + 1 /\ (k + 1) - 1 = k
    BY <1>1
  <2>2. PICK i \in DOMAIN s : Prev[s[i]] = c /\ s[i] \in follow[k + 1]
    BY <1>2, <2>1
  <2>3. s[i] \in follow[k]
    BY <1>3, <1>5, <2>1, <2>2
  <2> QED
    BY <1>2, <2>1, <2>2, <2>3
<1>6. \A k \in Nat : k \in One
  <2> HIDE DEF One
  <2> QED
    BY <1>4, <1>5, Induction
<1> DEFINE Some == {d \in Nat : m + d <= N => (b \in follow[m + d] => b \in follow[m])}
<1>7. 0 \in Some
  BY <1>1
<1>8. ASSUME NEW d \in Nat, d \in Some PROVE d + 1 \in Some
  <2>1. m + (d + 1) = (m + d) + 1 /\ m + d \in Nat
    OBVIOUS
  <2>2. m + d \in One
    BY <1>6, <2>1
  <2> QED
    BY <1>1, <1>8, <2>1, <2>2
<1>9. \A d \in Nat : d \in Some
  <2> HIDE DEF Some
  <2> QED
    BY <1>7, <1>8, Induction
<1>10. n - m \in Nat /\ m + (n - m) = n /\ n <= N
  BY <1>1 DEF N
<1>11. n - m \in Some
  BY <1>9, <1>10
<1> QED
  BY <1>10, <1>11 DEF follow

\* findLongestChain chooses one of the candidates, and one whose chain is as
\* long as that of any other.
LEMMA BestIsDeepest ==
    ASSUME NEW s \in Seq(Blocks), NEW P \in SUBSET DOMAIN s, P # {}
    PROVE  /\ Chain!BestPosition(P, s, s) \in P
           /\ \A i \in P : \A n \in 0..Len(s) :
                 s[i] \in Chain!FollowedBy(s)[n]
                    => s[Chain!BestPosition(P, s, s)] \in Chain!FollowedBy(s)[n]
<1> DEFINE N == Len(s)
           follow == Chain!FollowedBy(s)
           L(n) == Chain!Left(n, P, s, follow)
           T == {n \in 0..N : L(n) # {}}
           IsLast(n) == L(n) # {} /\ \A m \in 0..N : L(m) # {} => m <= n
           rounds == CHOOSE n \in 0..N : IsLast(n)
           best == CHOOSE i \in L(rounds) : \A j \in L(rounds) : j <= i
<1>1. N \in Nat /\ DOMAIN s = 1..N /\ \A i \in DOMAIN s : s[i] \in Blocks
  BY ScanTyped
<1>2. \A n : L(n) = {i \in P : n = 0 \/ s[i] \in follow[n]}
  BY DEF Chain!Left
<1>3. Chain!BestPosition(P, s, s) = best
  BY DEF Chain!BestPosition
<1> HIDE DEF follow, N, L
<1>4. 0 \in T
  BY <1>1, <1>2
<1>5. \E n \in 0..N : IsLast(n)
  <2>1. T \in SUBSET (0..N) /\ T # {}
    BY <1>4
  <2>2. PICK n \in T : \A m \in T : m <= n
    <3> HIDE DEF T
    <3> QED
      BY <1>1, <2>1, GreatestNumber
  <2> QED
    BY <2>2
<1>6. rounds \in 0..N /\ IsLast(rounds)
  <2> HIDE DEF IsLast
  <2> QED
    BY <1>5
<1> HIDE DEF rounds
<1>7. \E i \in L(rounds) : \A j \in L(rounds) : j <= i
  <2>1. L(rounds) \in SUBSET (0..N) /\ L(rounds) # {}
    BY <1>1, <1>2, <1>6
  <2> QED
    BY <1>1, <2>1, GreatestNumber
<1>8. best \in L(rounds)
  BY <1>7
<1> HIDE DEF best
<1>9. best \in P /\ (rounds = 0 \/ s[best] \in follow[rounds])
  BY <1>2, <1>8
<1>10. ASSUME NEW i \in P, NEW n \in 0..N, s[i] \in follow[n]
       PROVE  s[best] \in follow[n]
  <2>1. n <= rounds
    BY <1>2, <1>6, <1>10
  <2>2. s[best] \in Blocks
    BY <1>1, <1>9
  <2>3. CASE rounds = 0
    BY <2>1, <2>2, <2>3, FollowSteps DEF follow
  <2>4. CASE rounds # 0
    BY <1>6, <1>9, <2>1, <2>2, <2>4, FollowShrinks DEF follow, N
  <2> QED
    BY <2>3, <2>4
<1> QED
  BY <1>3, <1>9, <1>10 DEF follow, N

\* The walk goes to a scanned block on top of the one it is at.
LEMMA BestChildFollows ==
    ASSUME NEW s \in Seq(Blocks), NEW p, Chain!Children(p, s) # {}
    PROVE  /\ Chain!BestChild(p, s) \in Range(s)
           /\ Chain!BestChild(p, s) \in Blocks
           /\ Prev[Chain!BestChild(p, s)] = p
           /\ \A n \in 0..Len(s) :
                 n + 1 \in 0..Len(s) /\ p \in Chain!FollowedBy(s)[n + 1]
                    => Chain!BestChild(p, s) \in Chain!FollowedBy(s)[n]
<1> DEFINE P == Chain!Children(p, s)
           best == Chain!BestPosition(P, s, s)
<1>1. P = {i \in DOMAIN s : Prev[s[i]] = p}
  BY DEF Chain!Children
<1>2. Chain!BestChild(p, s) = s[best]
  BY DEF Chain!BestChild
<1>3. P \in SUBSET DOMAIN s /\ P # {}
  BY <1>1
<1>4. best \in P
  <2> HIDE DEF P
  <2> QED
    BY <1>3, BestIsDeepest
<1>5. ASSUME NEW n \in 0..Len(s), n + 1 \in 0..Len(s), p \in Chain!FollowedBy(s)[n + 1]
      PROVE  s[best] \in Chain!FollowedBy(s)[n]
  <2>1. n + 1 \in 1..Len(s) /\ (n + 1) - 1 = n
    BY <1>5, ScanTyped
  <2>2. PICK i \in DOMAIN s : Prev[s[i]] = p /\ s[i] \in Chain!FollowedBy(s)[n]
    BY <1>5, <2>1, FollowSteps
  <2>3. i \in P
    BY <1>1, <2>2
  <2> HIDE DEF P
  <2> QED
    BY <1>3, <2>2, <2>3, BestIsDeepest
<1>6. best \in DOMAIN s /\ Prev[s[best]] = p
  BY <1>1, <1>4
<1> HIDE DEF best
<1>7. s[best] \in Range(s) /\ s[best] \in Blocks
  BY <1>6, ScanTyped DEF Range
<1> QED
  BY <1>2, <1>5, <1>6, <1>7

\* Reading a file adds its blocks to those found before.
LEMMA FileIsFound ==
    ASSUME NEW file \in Seq(Blocks), NEW found \in Seq(Blocks)
    PROVE  /\ FoundIn(file, found)[Len(file)] \in Seq(Blocks)
           /\ Range(FoundIn(file, found)[Len(file)]) = Range(found) \cup Range(file)
<1> DEFINE N == Len(file)
           X == Seq(Blocks)
           Step(k, list) == IF k \in 1..N THEN Enter(list, file[k]) ELSE list
           Rec(f) == f = [k \in 0..N |-> IF k = 0 THEN found ELSE Enter(f[k - 1], file[k])]
           G == [x \in Nat \X X |-> Step(x[1], x[2])]
           after == FoundIn(file, found)
           UpTo(k) == {file[j] : j \in 1..k}
<1>1. N \in Nat /\ DOMAIN file = 1..N /\ \A k \in 1..N : file[k] \in Blocks
  BY ScanTyped
<1>2. ASSUME NEW list \in Seq(Blocks), NEW b \in Blocks
      PROVE  Enter(list, b) \in Seq(Blocks) /\ Range(Enter(list, b)) = Range(list) \cup {b}
  <2>1. CASE Chain!IsIn(b, list)
    BY <2>1 DEF Enter, Chain!IsIn, Range
  <2>2. CASE ~Chain!IsIn(b, list)
    <3>1. Enter(list, b) = Append(list, b)
      BY <2>2 DEF Enter
    <3>2. /\ Append(list, b) \in Seq(Blocks) /\ Len(list) \in Nat
          /\ DOMAIN Append(list, b) = 1..(Len(list) + 1) /\ DOMAIN list = 1..Len(list)
          /\ \A i \in 1..Len(list) : Append(list, b)[i] = list[i]
          /\ Append(list, b)[Len(list) + 1] = b
      BY AppendProperties, LenProperties
    <3> HIDE DEF Range
    <3>3. Range(Append(list, b)) = Range(list) \cup {b}
      <4>1. ASSUME NEW c \in Range(Append(list, b)) PROVE c \in Range(list) \cup {b}
        <5>1. PICK i \in 1..(Len(list) + 1) : c = Append(list, b)[i]
          BY <3>2 DEF Range
        <5>2. i \in 1..Len(list) \/ i = Len(list) + 1
          BY <3>2
        <5> QED
          BY <3>2, <5>1, <5>2 DEF Range
      <4>2. ASSUME NEW i \in 1..Len(list) PROVE list[i] \in Range(Append(list, b))
        <5>1. i \in DOMAIN Append(list, b)
          BY <3>2
        <5> QED
          BY <3>2, <5>1 DEF Range
      <4>3. Len(list) + 1 \in DOMAIN Append(list, b)
        BY <3>2
      <4> QED
        BY <3>2, <4>1, <4>2, <4>3 DEF Range
    <3> QED
      BY <3>1, <3>2, <3>3
  <2> QED
    BY <2>1, <2>2
<1>3. G \in [Nat \X X -> X]
  <2>1. \A k, list : list \in X => Step(k, list) \in X
    BY <1>1, <1>2
  <2> HIDE DEF Step, X
  <2> QED
    BY <2>1
<1>4. PICK f : Iterated(f, X, found, G, N)
  <2> HIDE DEF X, G, N
  <2>1. found \in X
    BY DEF X
  <2> QED
    BY <1>1, <1>3, <2>1, Iterates
<1>5. \A k \in 1..N : f[k] = Enter(f[k - 1], file[k])
  <2> SUFFICES ASSUME NEW k \in 1..N PROVE f[k] = Enter(f[k - 1], file[k])
    OBVIOUS
  <2>1. k - 1 \in 0..N /\ k \in Nat
    BY <1>1
  <2>2. f[k - 1] \in X /\ f[k] = G[<<k, f[k - 1]>>]
    BY <1>4, <2>1 DEF Iterated
  <2>3. <<k, f[k - 1]>> \in Nat \X X
    BY <2>1, <2>2
  <2>4. G[<<k, f[k - 1]>>] = Step(k, f[k - 1])
    <3> HIDE DEF X, Step
    <3> QED
      BY <2>3
  <2> QED
    BY <2>2, <2>4
<1>6. Rec(f)
  <2>1. f = [k \in 0..N |-> f[k]] /\ f[0] = found
    BY <1>4 DEF Iterated
  <2>2. \A k \in 0..N : f[k] = IF k = 0 THEN found ELSE Enter(f[k - 1], file[k])
    <3>1. \A k \in 0..N : k = 0 \/ k \in 1..N
      BY <1>1
    <3>2. \A k \in 1..N : k # 0
      BY <1>1
    <3> HIDE DEF N
    <3> QED
      BY <1>5, <2>1, <3>1, <3>2
  <2> QED
    BY <2>1, <2>2
<1>7. Rec(after)
  <2>1. after = CHOOSE g : Rec(g)
    BY DEF FoundIn
  <2> HIDE DEF Rec, after
  <2> QED
    BY <1>6, <2>1
<1> HIDE DEF after
<1>8. after[0] = found /\ \A k \in 1..N : after[k] = Enter(after[k - 1], file[k])
  <2> HIDE DEF N
  <2> QED
    BY <1>1, <1>7
<1> DEFINE S == {k \in Nat : k <= N =>
                    after[k] \in Seq(Blocks) /\ Range(after[k]) = Range(found) \cup UpTo(k)}
<1>9. 0 \in S
  <2>1. UpTo(0) = {}
    OBVIOUS
  <2> QED
    BY <1>8, <2>1
<1>10. ASSUME NEW k \in Nat, k \in S PROVE k + 1 \in S
  <2> SUFFICES ASSUME k + 1 <= N
               PROVE  /\ after[k + 1] \in Seq(Blocks)
                      /\ Range(after[k + 1]) = Range(found) \cup UpTo(k + 1)
    OBVIOUS
  <2>1. k <= N /\ k + 1 \in 1..N /\ (k + 1) - 1 = k
    BY <1>1
  <2>2. after[k + 1] = Enter(after[k], file[k + 1]) /\ file[k + 1] \in Blocks
    BY <1>1, <1>8, <2>1
  <2>3. after[k] \in Seq(Blocks) /\ Range(after[k]) = Range(found) \cup UpTo(k)
    BY <1>10, <2>1
  <2>4. /\ after[k + 1] \in Seq(Blocks)
        /\ Range(after[k + 1]) = (Range(found) \cup UpTo(k)) \cup {file[k + 1]}
    <3> HIDE DEF UpTo
    <3>1. PICK list \in Seq(Blocks), b \in Blocks : list = after[k] /\ b = file[k + 1]
      BY <2>2, <2>3
    <3>2. Enter(list, b) \in Seq(Blocks) /\ Range(Enter(list, b)) = Range(list) \cup {b}
      BY <1>2
    <3>3. after[k + 1] = Enter(list, b)
      BY <2>2, <3>1
    <3>4. Range(list) = Range(found) \cup UpTo(k)
      BY <2>3, <3>1
    <3> QED
      BY <3>1, <3>2, <3>3, <3>4
  <2>5. UpTo(k + 1) = UpTo(k) \cup {file[k + 1]}
    <3>1. 1..(k + 1) = 1..k \cup {k + 1}
      OBVIOUS
    <3> QED
      BY <3>1
  <2> QED
    BY <2>4, <2>5
<1>11. \A k \in Nat : k \in S
  <2> HIDE DEF S
  <2> QED
    BY <1>9, <1>10, Induction
<1>12. after[N] \in Seq(Blocks) /\ Range(after[N]) = Range(found) \cup UpTo(N)
  <2>1. N \in S
    BY <1>1, <1>11
  <2> QED
    BY <1>1, <2>1
<1>13. UpTo(N) = Range(file)
  BY <1>1 DEF Range
<1> QED
  BY <1>12, <1>13 DEF after

-----------------------------------------------------------------------------
(* The blocks whose chains are complete.                                   *)

\* A rooted block stands on genesis or on a rooted one, and a block on such
\* is rooted.
LEMMA RootedStands ==
    ASSUME NEW S
    PROVE  /\ \A b \in Rooted(S) : b \in S /\ (Prev[b] = ZeroHash \/ Prev[b] \in Rooted(S))
           /\ \A b \in S : Prev[b] = ZeroHash \/ Prev[b] \in Rooted(S) => b \in Rooted(S)
<1>1. ASSUME NEW b \in Rooted(S)
      PROVE  b \in S /\ (Prev[b] = ZeroHash \/ Prev[b] \in Rooted(S))
  <2>1. PICK R \in SUBSET S : Grounded(R) /\ b \in R
    BY DEF Rooted
  <2> QED
    BY <2>1 DEF Grounded, Rooted
<1>2. ASSUME NEW b \in S, Prev[b] = ZeroHash \/ Prev[b] \in Rooted(S)
      PROVE  b \in Rooted(S)
  <2>1. CASE Prev[b] = ZeroHash
    <3>1. {b} \in SUBSET S /\ Grounded({b})
      BY <2>1 DEF Grounded
    <3> QED
      BY <3>1 DEF Rooted
  <2>2. CASE Prev[b] \in Rooted(S)
    <3>1. PICK R \in SUBSET S : Grounded(R) /\ Prev[b] \in R
      BY <2>2 DEF Rooted
    <3>2. R \cup {b} \in SUBSET S /\ Grounded(R \cup {b})
      BY <3>1 DEF Grounded
    <3> QED
      BY <3>2 DEF Rooted
  <2> QED
    BY <1>2, <2>1, <2>2
<1> QED
  BY <1>1, <1>2

\* More blocks leave every rooted one rooted.
LEMMA RootedGrows ==
    ASSUME NEW S, NEW T, S \subseteq T
    PROVE  Rooted(S) \subseteq Rooted(T)
<1>1. ASSUME NEW R \in SUBSET S PROVE R \in SUBSET T
  OBVIOUS
<1> QED
  BY <1>1 DEF Rooted

\* The predecessor of a rooted block that is not a first block.
LEMMA RootedBelow ==
    ASSUME NEW S \in SUBSET Blocks, NEW b \in Rooted(S)
    PROVE  /\ b \in S /\ b \in Blocks /\ HeightOf[b] \in Nat
           /\ HeightOf[b] = 0 => Prev[b] = ZeroHash
           /\ HeightOf[b] # 0 =>
                 Prev[b] \in Rooted(S) /\ HeightOf[Prev[b]] = HeightOf[b] - 1
<1>1. b \in S /\ (Prev[b] = ZeroHash \/ Prev[b] \in Rooted(S))
  BY RootedStands
<1>2. \A c \in Rooted(S) : c \in Blocks
  BY RootedStands
<1>3. \A c \in Blocks : HeightOf[c] \in Nat
  BY ChainAssumption
<1>4. HeightOf[b] = IF Prev[b] = ZeroHash THEN 0 ELSE HeightOf[Prev[b]] + 1
  BY <1>1, ChainAssumption
<1>5. CASE Prev[b] = ZeroHash
  BY <1>1, <1>3, <1>4, <1>5
<1>6. CASE Prev[b] # ZeroHash
  <2>1. Prev[b] \in Rooted(S) /\ HeightOf[Prev[b]] \in Nat
    BY <1>1, <1>2, <1>3, <1>6
  <2>2. HeightOf[b] = HeightOf[Prev[b]] + 1
    BY <1>4, <1>6
  <2> QED
    BY <1>1, <1>3, <2>1, <2>2
<1> QED
  BY <1>5, <1>6

\* Below a rooted block there is one at every height.
LEMMA RootedAncestors ==
    ASSUME NEW S \in SUBSET Blocks, NEW r \in Rooted(S)
    PROVE  \A k \in 0..HeightOf[r] : \E a \in Rooted(S) : HeightOf[a] = k
<1> DEFINE top == HeightOf[r]
           D == {j \in Nat : j <= top => \E a \in Rooted(S) : HeightOf[a] = top - j}
<1>1. top \in Nat
  BY RootedBelow
<1>2. 0 \in D
  BY <1>1
<1>3. ASSUME NEW j \in Nat, j \in D PROVE j + 1 \in D
  <2> SUFFICES ASSUME j + 1 <= top
               PROVE  \E a \in Rooted(S) : HeightOf[a] = top - (j + 1)
    OBVIOUS
  <2>1. PICK a \in Rooted(S) : HeightOf[a] = top - j
    BY <1>1, <1>3
  <2>2. HeightOf[a] # 0 /\ (top - j) - 1 = top - (j + 1)
    BY <1>1, <2>1
  <2>3. Prev[a] \in Rooted(S) /\ HeightOf[Prev[a]] = HeightOf[a] - 1
    BY <2>2, RootedBelow
  <2> QED
    BY <2>1, <2>2, <2>3
<1>4. \A j \in Nat : j \in D
  <2> HIDE DEF D
  <2> QED
    BY <1>2, <1>3, Induction
<1>5. ASSUME NEW k \in 0..top PROVE \E a \in Rooted(S) : HeightOf[a] = k
  <2>1. top - k \in Nat /\ top - k <= top /\ top - (top - k) = k
    BY <1>1
  <2>2. top - k \in D
    BY <1>4, <2>1
  <2> QED
    BY <2>1, <2>2
<1> QED
  BY <1>5

\* The chain of a rooted block fits into the scan.
LEMMA RootedFits ==
    ASSUME NEW s \in Seq(Blocks), NEW r \in Rooted(Range(s))
    PROVE  HeightOf[r] + 1 <= Len(s)
<1> DEFINE top == HeightOf[r]
           N == Len(s)
           at == [k \in 0..top |-> CHOOSE i \in 1..N : HeightOf[s[i]] = k]
<1>1. N \in Nat /\ DOMAIN s = 1..N /\ Range(s) \in SUBSET Blocks
  BY ScanTyped DEF Range
<1>2. top \in Nat
  BY <1>1, RootedBelow
<1>3. ASSUME NEW k \in 0..top PROVE \E i \in 1..N : HeightOf[s[i]] = k
  <2>1. PICK a \in Rooted(Range(s)) : HeightOf[a] = k
    BY <1>1, RootedAncestors
  <2>2. a \in Range(s)
    BY RootedStands
  <2>3. PICK i \in DOMAIN s : s[i] = a
    BY <2>2 DEF Range
  <2> QED
    BY <1>1, <2>1, <2>3
<1>4. \A k \in 0..top : at[k] \in 1..N /\ HeightOf[s[at[k]]] = k
  BY <1>3
<1>5. at \in [0..top -> 1..N]
  BY <1>4
<1>6. /\ IsFiniteSet(0..top) /\ Cardinality(0..top) = top + 1
      /\ IsFiniteSet(1..N) /\ Cardinality(1..N) = N
  <2>1. IsFiniteSet(0..top) /\ Cardinality(0..top) = IF 0 > top THEN 0 ELSE top - 0 + 1
    <3>1. 0 \in Int /\ top \in Int
      BY <1>2
    <3> HIDE DEF top
    <3> QED
      BY <3>1, FS_Interval, Zenon
  <2>2. IsFiniteSet(1..N) /\ Cardinality(1..N) = IF 1 > N THEN 0 ELSE N - 1 + 1
    <3>1. 1 \in Int /\ N \in Int
      BY <1>1
    <3> HIDE DEF N
    <3> QED
      BY <3>1, FS_Interval, Zenon
  <2> QED
    BY <1>1, <1>2, <2>1, <2>2
<1>7. ASSUME N < top + 1 PROVE FALSE
  <2> HIDE DEF top, N, at
  <2>1. Cardinality(1..N) < Cardinality(0..top)
    BY <1>6, <1>7
  <2>2. PICK x \in 0..top, y \in 0..top : x # y /\ at[x] = at[y]
    BY <1>5, <1>6, <2>1, FS_PigeonHole
  <2> QED
    BY <1>4, <2>2
<1> QED
  BY <1>1, <1>2, <1>7

\* From genesis, the scan leads as high as any rooted block.
LEMMA RootedFollowed ==
    ASSUME NEW s \in Seq(Blocks), NEW r \in Rooted(Range(s))
    PROVE  ZeroHash \in Chain!FollowedBy(s)[HeightOf[r] + 1]
<1> DEFINE top == HeightOf[r]
           N == Len(s)
           S == Range(s)
           follow == Chain!FollowedBy(s)
           D == {j \in Nat : j <= top => \E a \in Rooted(S) :
                    HeightOf[a] = top - j /\ a \in follow[j]}
<1>1. N \in Nat /\ DOMAIN s = 1..N /\ S \in SUBSET Blocks
  BY ScanTyped DEF Range
<1>2. top \in Nat /\ top + 1 <= N /\ r \in Blocks
  BY <1>1, RootedBelow, RootedFits
<1>3. /\ follow[0] = Blocks
      /\ \A n \in 1..N : \A p :
            p \in follow[n] <=> \E i \in DOMAIN s : Prev[s[i]] = p /\ s[i] \in follow[n - 1]
  BY FollowSteps
<1> HIDE DEF follow, N
<1>4. 0 \in D
  BY <1>2, <1>3
<1>5. ASSUME NEW j \in Nat, j <= top, NEW a \in Rooted(S), a \in follow[j]
      PROVE  Prev[a] \in follow[j + 1]
  <2>1. a \in S
    BY RootedStands
  <2>2. PICK i \in DOMAIN s : s[i] = a
    BY <2>1 DEF Range
  <2>3. j + 1 \in 1..N /\ (j + 1) - 1 = j
    BY <1>1, <1>2, <1>5
  <2> QED
    BY <1>3, <1>5, <2>2, <2>3
<1> HIDE DEF S
<1>6. ASSUME NEW j \in Nat, j \in D PROVE j + 1 \in D
  <2> SUFFICES ASSUME j + 1 <= top
               PROVE  \E a \in Rooted(S) : HeightOf[a] = top - (j + 1) /\ a \in follow[j + 1]
    OBVIOUS
  <2>1. PICK a \in Rooted(S) : HeightOf[a] = top - j /\ a \in follow[j]
    BY <1>2, <1>6
  <2>2. HeightOf[a] # 0 /\ (top - j) - 1 = top - (j + 1) /\ j <= top
    BY <1>2, <2>1
  <2>3. Prev[a] \in Rooted(S) /\ HeightOf[Prev[a]] = HeightOf[a] - 1
    BY <1>1, <2>2, RootedBelow
  <2> QED
    BY <1>5, <2>1, <2>2, <2>3
<1>7. \A j \in Nat : j \in D
  <2> HIDE DEF D
  <2> QED
    BY <1>4, <1>6, Induction
<1>8. PICK a \in Rooted(S) : HeightOf[a] = 0 /\ a \in follow[top]
  <2>1. top \in D
    BY <1>2, <1>7
  <2> QED
    BY <1>2, <2>1
<1>9. Prev[a] = ZeroHash
  BY <1>1, <1>8, RootedBelow
<1> QED
  BY <1>2, <1>5, <1>8, <1>9 DEF follow

-----------------------------------------------------------------------------
(* The walk.                                                               *)

ThreadTypeOK ==
    /\ disk \in [Files -> Seq(Blocks)]
    /\ mtime \in [Files -> 0..MaxClock]
    /\ clock \in 1..MaxClock
    /\ maxLastModified \in 0..MaxClock
    /\ wpc \in WatcherSteps
    /\ pending \subseteq Files
    /\ shouldUpdate \in BOOLEAN
    /\ scanned \in Seq(Blocks)
    /\ nextBlock \in Blocks \cup {ZeroHash}
    /\ blockHeight \in Nat

\* A call is in progress only while the thread waits for it, and it is the
\* one for the block and the height the walk is at.
JobOfWalk ==
    IF wpc = "index" /\ job.step # "idle"
    THEN job.block = nextBlock /\ job.height = blockHeight
    ELSE job = Idle

\* Where the walk is: it begins at genesis, and what it goes on from is the
\* block recorded below.
Below(h) == IF h = 0 THEN ZeroHash ELSE blockAt[h - 1]

WalkPlace ==
    /\ wpc = "scan" => blockHeight = 0
    /\ wpc = "process" => nextBlock = Below(blockHeight)
    /\ wpc = "index" => /\ nextBlock \in Blocks
                        /\ HeightOf[nextBlock] = blockHeight
                        /\ Prev[nextBlock] = Below(blockHeight)
                        /\ job.step = "idle" => HasIndexedBlock(nextBlock, blockHeight)

\* What the walk has passed is a recorded chain.
Passed ==
    wpc \in {"process", "index"} =>
        \A h \in 0..(blockHeight - 1) :
            /\ h \in DOMAIN blockAt
            /\ HeightOf[blockAt[h]] = h
            /\ Prev[blockAt[h]] = Below(h)

WalkInv == TypeInv /\ ThreadTypeOK /\ JobOfWalk /\ WalkPlace /\ Passed

\* The block that the walk goes to next belongs at the height it has reached.
LEMMA NextOfWalk ==
    ASSUME WalkInv, wpc = "process", ~AtChainEnd
    PROVE  LET best == Chain!BestChild(nextBlock, scanned)
           IN  /\ best \in Blocks /\ best \in Range(scanned)
               /\ Prev[best] = nextBlock
               /\ HeightOf[best] = blockHeight
               /\ Prev[best] # ZeroHash => HasIndexedBlock(Prev[best], blockHeight - 1)
<1> DEFINE best == Chain!BestChild(nextBlock, scanned)
<1>1. best \in Blocks /\ best \in Range(scanned) /\ Prev[best] = nextBlock
  BY BestChildFollows DEF WalkInv, ThreadTypeOK, AtChainEnd
<1> HIDE DEF best
<1>2. blockHeight \in Nat /\ nextBlock = Below(blockHeight)
  BY DEF WalkInv, ThreadTypeOK, WalkPlace
<1>3. HeightOf[best] = IF Prev[best] = ZeroHash THEN 0 ELSE HeightOf[Prev[best]] + 1
  BY <1>1, ChainAssumption
<1>4. CASE blockHeight = 0
  BY <1>1, <1>2, <1>3, <1>4 DEF Below, best
<1>5. CASE blockHeight # 0
  <2>1. blockHeight - 1 \in 0..(blockHeight - 1) /\ nextBlock = blockAt[blockHeight - 1]
    BY <1>2, <1>5 DEF Below
  <2>2. blockHeight - 1 \in DOMAIN blockAt /\ HeightOf[nextBlock] = blockHeight - 1
    BY <2>1 DEF WalkInv, Passed
  <2>3. nextBlock \in Blocks
    BY <2>1, <2>2 DEF WalkInv, TypeInv, TypeOK, IsTable, Range
  <2>4. nextBlock # ZeroHash
    BY <2>3, ChainAssumption
  <2>5. HasIndexedBlock(nextBlock, blockHeight - 1)
    BY <2>1, <2>2 DEF HasIndexedBlock
  <2> QED
    BY <1>1, <1>2, <1>3, <2>2, <2>4, <2>5 DEF best
<1> QED
  BY <1>4, <1>5

\* The thread calls the indexer as BlockIndexer takes it to be called.
LEMMA WalkCalls ==
    ASSUME WalkInv, [WatcherNext]_watcherVars
    PROVE  [IndexerNext]_indexerVars
<1>1. CASE StartIndexing
  <2> DEFINE best == Chain!BestChild(nextBlock, scanned)
  <2>1. wpc = "process" /\ ~AtChainEnd /\ IndexBlock(best, blockHeight)
    BY <1>1 DEF StartIndexing
  <2>2. /\ best \in Blocks /\ HeightOf[best] = blockHeight
        /\ Prev[best] # ZeroHash => HasIndexedBlock(Prev[best], blockHeight - 1)
    BY <2>1, NextOfWalk
  <2> HIDE DEF best
  <2>3. CallIndexBlock(best)
    BY <2>1, <2>2 DEF CallIndexBlock
  <2> QED
    BY <2>2, <2>3 DEF IndexerNext
<1>2. CASE Indexing
  BY <1>2 DEF Indexing, IndexerNext
<1>3. CASE Restart
  BY <1>3 DEF Restart, IndexerNext
<1>4. ASSUME WakeUp \/ NothingChanged \/ StartUpdate \/ StartWalk \/ SkipBlock
                \/ IndexingDone \/ EndUpdate \/ Tick
      PROVE  UNCHANGED indexerVars
  BY <1>4 DEF WakeUp, NothingChanged, StartUpdate, StartWalk, SkipBlock, IndexingDone,
              EndUpdate, Tick
<1>5. ASSUME NEW f \in Files, StatFile(f) \/ ScanFile(f) PROVE UNCHANGED indexerVars
  BY <1>5 DEF StatFile, ScanFile
<1>6. ASSUME Daemon PROVE UNCHANGED indexerVars
  BY <1>6 DEF Daemon, DaemonAppends
<1>7. ASSUME UNCHANGED watcherVars PROVE UNCHANGED indexerVars
  BY <1>7 DEF watcherVars
<1> QED
  BY <1>1, <1>2, <1>3, <1>4, <1>5, <1>6, <1>7 DEF WatcherNext, WatcherStep

\* Every step leaves the files, the clock and the thread in states of their
\* kinds.
LEMMA ThreadTyped ==
    ASSUME WalkInv, [WatcherNext]_watcherVars
    PROVE  ThreadTypeOK'
<1> USE DEF ThreadTypeOK
<1>1. ThreadTypeOK
  BY DEF WalkInv
<1>2. CASE WakeUp
  BY <1>1, <1>2 DEF WakeUp, daemonVars, WatcherSteps
<1>3. CASE NothingChanged
  BY <1>1, <1>3 DEF NothingChanged, daemonVars, WatcherSteps
<1>4. CASE StartUpdate
  BY <1>1, <1>4 DEF StartUpdate, daemonVars, WatcherSteps
<1>5. CASE StartWalk
  BY <1>1, <1>5 DEF StartWalk, daemonVars, WatcherSteps
<1>6. CASE SkipBlock
  <2>1. wpc = "process" /\ ~AtChainEnd /\ nextBlock' = Chain!BestChild(nextBlock, scanned)
    BY <1>6 DEF SkipBlock
  <2>2. nextBlock' \in Blocks
    BY <2>1, NextOfWalk
  <2> QED
    BY <1>1, <1>6, <2>2 DEF SkipBlock, daemonVars
<1>7. CASE StartIndexing
  <2>1. wpc = "process" /\ ~AtChainEnd /\ nextBlock' = Chain!BestChild(nextBlock, scanned)
    BY <1>7 DEF StartIndexing
  <2>2. nextBlock' \in Blocks
    BY <2>1, NextOfWalk
  <2> QED
    BY <1>1, <1>7, <2>2 DEF StartIndexing, daemonVars, WatcherSteps
<1>8. CASE Indexing
  BY <1>1, <1>8 DEF Indexing, daemonVars, threadVars
<1>9. CASE IndexingDone
  BY <1>1, <1>9 DEF IndexingDone, daemonVars, WatcherSteps
<1>10. CASE EndUpdate
  BY <1>1, <1>10, EmptySeq DEF EndUpdate, daemonVars, WatcherSteps
<1>11. CASE Tick
  BY <1>1, <1>11, WatcherAssumption DEF Tick, threadVars
<1>12. CASE Restart
  <2>1. maxLastModified' \in 0..MaxClock
    BY <1>12, WatcherAssumption DEF Restart
  <2>2. /\ wpc' \in WatcherSteps /\ pending' \subseteq Files /\ shouldUpdate' \in BOOLEAN
        /\ scanned' \in Seq(Blocks) /\ nextBlock' \in Blocks \cup {ZeroHash}
        /\ blockHeight' \in Nat
    BY <1>12, EmptySeq DEF Restart, WatcherSteps
  <2>3. UNCHANGED <<disk, mtime, clock>>
    BY <1>12 DEF Restart, daemonVars
  <2> QED
    BY <1>1, <2>1, <2>2, <2>3
<1>13. ASSUME NEW f \in Files, StatFile(f) PROVE ThreadTypeOK'
  BY <1>1, <1>13 DEF StatFile, daemonVars
<1>14. ASSUME NEW f \in Files, ScanFile(f) PROVE ThreadTypeOK'
  <2>1. scanned' \in Seq(Blocks)
    BY <1>1, <1>14, FileIsFound DEF ScanFile
  <2> QED
    BY <1>1, <1>14, <2>1 DEF ScanFile, daemonVars
<1>15. ASSUME NEW f \in Files, NEW b \in Blocks, DaemonAppends(f, b) PROVE ThreadTypeOK'
  <2>1. disk' = [disk EXCEPT ![f] = Append(@, b)] /\ mtime' = [mtime EXCEPT ![f] = clock]
    BY <1>15 DEF DaemonAppends
  <2>2. Append(disk[f], b) \in Seq(Blocks)
    BY <1>1, AppendProperties
  <2>3. disk' \in [Files -> Seq(Blocks)]
    BY <1>1, <2>1, <2>2
  <2>4. mtime' \in [Files -> 0..MaxClock]
    BY <1>1, <2>1, WatcherAssumption
  <2> QED
    BY <1>1, <1>15, <2>3, <2>4 DEF DaemonAppends, threadVars
<1>16. CASE UNCHANGED watcherVars
  BY <1>1, <1>16 DEF watcherVars, daemonVars, threadVars
<1> QED
  BY <1>2, <1>3, <1>4, <1>5, <1>6, <1>7, <1>8, <1>9, <1>10, <1>11, <1>12, <1>13, <1>14,
     <1>15, <1>16 DEF WatcherNext, WatcherStep, Daemon

\* What the steps that leave the index alone, or only begin a call, keep.
WalkPart == JobOfWalk /\ WalkPlace /\ Passed

LEMMA QuietWalks ==
    ASSUME WalkInv, UNCHANGED <<blockAt, job>>,
           \/ wpc' \in {"sleep", "stat"} /\ wpc # "index"
           \/ wpc' = "scan" /\ wpc # "index" /\ blockHeight' = 0
           \/ UNCHANGED <<wpc, nextBlock, blockHeight>>
    PROVE  WalkPart'
<1>1. JobOfWalk /\ WalkPlace /\ Passed
  BY DEF WalkInv
<1>2. CASE UNCHANGED <<wpc, nextBlock, blockHeight>>
  BY <1>1, <1>2 DEF WalkPart, JobOfWalk, WalkPlace, Passed, Below, HasIndexedBlock
<1>3. CASE wpc' \in {"sleep", "stat"} /\ wpc # "index"
  BY <1>1, <1>3 DEF WalkPart, JobOfWalk, WalkPlace, Passed
<1>4. CASE wpc' = "scan" /\ wpc # "index" /\ blockHeight' = 0
  BY <1>1, <1>4 DEF WalkPart, JobOfWalk, WalkPlace, Passed
<1> QED
  BY <1>2, <1>3, <1>4

\* So does the walk when it goes on from a block that is recorded.
LEMMA Advances ==
    ASSUME WalkInv, wpc \in {"process", "index"}, job = Idle,
           NEW b \in Blocks, HeightOf[b] = blockHeight, Prev[b] = Below(blockHeight),
           HasIndexedBlock(b, blockHeight), UNCHANGED <<blockAt, job>>,
           wpc' = "process", nextBlock' = b, blockHeight' = blockHeight + 1
    PROVE  WalkPart'
<1>1. blockHeight \in Nat /\ Passed
  BY DEF WalkInv, ThreadTypeOK
<1>2. JobOfWalk'
  BY DEF JobOfWalk
<1>3. blockHeight \in DOMAIN blockAt /\ blockAt[blockHeight] = b
  BY DEF HasIndexedBlock
<1>4. WalkPlace'
  <2>1. Below(blockHeight)' = blockAt[blockHeight]
    BY <1>1 DEF Below
  <2> QED
    BY <1>3, <2>1 DEF WalkPlace
<1>5. Passed'
  <2> SUFFICES ASSUME NEW h \in 0..blockHeight
               PROVE  /\ h \in DOMAIN blockAt /\ HeightOf[blockAt[h]] = h
                      /\ Prev[blockAt[h]] = Below(h)
    <3>1. blockHeight' - 1 = blockHeight
      BY <1>1
    <3> QED
      BY <3>1 DEF Passed, Below
  <2>1. CASE h = blockHeight
    BY <1>3, <2>1
  <2>2. CASE h # blockHeight
    <3>1. h \in 0..(blockHeight - 1)
      BY <1>1, <2>2
    <3> QED
      BY <1>1, <3>1 DEF Passed
  <2> QED
    BY <2>1, <2>2
<1> QED
  BY <1>2, <1>4, <1>5 DEF WalkPart

\* So does the beginning of a call.
LEMMA StartIndexingWalks ==
    ASSUME WalkInv, StartIndexing
    PROVE  WalkPart'
<1> DEFINE b == Chain!BestChild(nextBlock, scanned)
<1>1. /\ wpc = "process" /\ ~AtChainEnd /\ IndexBlock(b, blockHeight)
      /\ nextBlock' = b /\ wpc' = "index" /\ UNCHANGED blockHeight
  BY DEF StartIndexing
<1>2. b \in Blocks /\ HeightOf[b] = blockHeight /\ Prev[b] = nextBlock
  BY <1>1, NextOfWalk
<1> HIDE DEF b
<1>3. /\ job'.step \in {"clear", "highest"} /\ job'.block = b /\ job'.height = blockHeight
      /\ UNCHANGED blockAt
  BY <1>1 DEF IndexBlock, index
<1>4. nextBlock = Below(blockHeight) /\ Passed
  BY <1>1 DEF WalkInv, WalkPlace
<1>5. JobOfWalk' /\ Passed'
  BY <1>1, <1>3, <1>4 DEF JobOfWalk, Passed, Below
<1>6. WalkPlace'
  BY <1>1, <1>2, <1>3, <1>4 DEF WalkPlace, Below
<1> QED
  BY <1>5, <1>6 DEF WalkPart

\* So does every write of a call: its batch goes on top of what was passed.
LEMMA IndexingWalks ==
    ASSUME WalkInv, Indexing
    PROVE  WalkPart'
<1>1. /\ TypeInv /\ JobOfWalk /\ WalkPlace /\ Passed /\ blockHeight \in Nat
      /\ wpc = "index" /\ IndexBlockStep /\ UNCHANGED <<wpc, nextBlock, blockHeight>>
  BY DEF WalkInv, Indexing, threadVars, ThreadTypeOK
<1>2. job.step # "idle" /\ job.block = nextBlock /\ job.height = blockHeight
  BY <1>1 DEF IndexBlockStep, ClearBlockTxos, PutHighest, WriteBatch, JobOfWalk
<1>3. ASSUME UNCHANGED blockAt, job'.step # "idle", job'.block = job.block,
             job'.height = job.height
      PROVE  WalkPart'
  <2>1. JobOfWalk' /\ Passed'
    BY <1>1, <1>2, <1>3 DEF JobOfWalk, Passed, Below
  <2>2. WalkPlace'
    BY <1>1, <1>3 DEF WalkPlace, Below
  <2> QED
    BY <2>1, <2>2 DEF WalkPart
<1>4. CASE ClearBlockTxos \/ PutHighest
  <2>1. /\ UNCHANGED blockAt /\ job'.step # "idle" /\ job'.block = job.block
        /\ job'.height = job.height
    BY <1>1, <1>4 DEF ClearBlockTxos, PutHighest, TypeInv, TypeOK
  <2> QED
    BY <1>3, <2>1
<1>5. CASE WriteBatch
  <2>1. /\ DOMAIN blockAt' = DOMAIN blockAt \cup {blockHeight}
        /\ \A h \in DOMAIN blockAt' :
              blockAt'[h] = IF h = blockHeight THEN nextBlock ELSE blockAt[h]
    BY <1>1, <1>2, <1>5, BatchPlaces
  <2>2. job' = Idle
    BY <1>5 DEF WriteBatch
  <2>3. \A h \in 0..(blockHeight - 1) :
           h \in DOMAIN blockAt /\ h \in DOMAIN blockAt' /\ blockAt'[h] = blockAt[h]
    BY <1>1, <2>1 DEF Passed
  <2>4. \A h \in 0..blockHeight : Below(h)' = Below(h)
    BY <1>1, <2>3 DEF Below
  <2>5. Passed'
    <3>1. \A h \in 0..(blockHeight - 1) :
             Below(h)' = Below(h) /\ Prev[blockAt[h]] = Below(h) /\ HeightOf[blockAt[h]] = h
      BY <1>1, <2>4 DEF Passed
    <3>2. \A h \in 0..(blockHeight - 1) :
             Below(h)' = IF h = 0 THEN ZeroHash ELSE blockAt'[h - 1]
      BY DEF Below
    <3> QED
      BY <1>1, <2>3, <3>1 DEF Passed
  <2>6. WalkPlace'
    <3>1. blockHeight \in DOMAIN blockAt' /\ blockAt'[blockHeight] = nextBlock
      BY <2>1
    <3>2. Below(blockHeight)' = Below(blockHeight)
      BY <1>1, <2>4
    <3> QED
      BY <1>1, <3>1, <3>2 DEF WalkPlace, HasIndexedBlock, Below
  <2>7. JobOfWalk'
    BY <2>2 DEF JobOfWalk, Idle
  <2> QED
    BY <2>5, <2>6, <2>7 DEF WalkPart
<1> QED
  BY <1>1, <1>4, <1>5 DEF IndexBlockStep

\* Every step of the watcher, the daemon and the clock keeps WalkInv.
LEMMA StepWalks ==
    ASSUME WalkInv, [WatcherNext]_watcherVars
    PROVE  WalkInv'
<1>1. TypeInv' /\ ThreadTypeOK'
  BY WalkCalls, StepTyped, ThreadTyped DEF WalkInv
<1>2. JobOfWalk /\ WalkPlace /\ Passed /\ blockHeight \in Nat
  BY DEF WalkInv, ThreadTypeOK
<1> SUFFICES WalkPart'
  BY <1>1 DEF WalkInv, WalkPart
<1>3. CASE WakeUp \/ NothingChanged \/ StartUpdate \/ EndUpdate \/ Tick
  <2>1. UNCHANGED <<blockAt, job>>
    BY <1>3 DEF WakeUp, NothingChanged, StartUpdate, EndUpdate, Tick, indexerVars, index
  <2>2. CASE WakeUp \/ NothingChanged \/ EndUpdate
    <3>1. wpc' \in {"sleep", "stat"} /\ wpc # "index"
      BY <2>2 DEF WakeUp, NothingChanged, EndUpdate
    <3> QED
      BY <2>1, <3>1, QuietWalks
  <2>3. CASE StartUpdate
    BY <2>1, <2>3, QuietWalks DEF StartUpdate
  <2>4. CASE Tick
    BY <2>1, <2>4, QuietWalks DEF Tick, threadVars
  <2> QED
    BY <1>3, <2>2, <2>3, <2>4
<1>4. ASSUME NEW f \in Files, StatFile(f) \/ ScanFile(f) PROVE WalkPart'
  BY <1>4, QuietWalks DEF StatFile, ScanFile, indexerVars, index
<1>5. CASE Daemon
  BY <1>5, QuietWalks DEF Daemon, DaemonAppends, indexerVars, index, threadVars
<1>6. CASE StartWalk
  <2>1. /\ wpc = "scan" /\ wpc' = "process" /\ nextBlock' = ZeroHash
        /\ UNCHANGED <<blockAt, job, blockHeight>>
    BY <1>6 DEF StartWalk, indexerVars, index
  <2>2. job = Idle /\ blockHeight = 0
    BY <1>2, <2>1 DEF JobOfWalk, WalkPlace
  <2>3. JobOfWalk' /\ WalkPlace' /\ Passed'
    BY <2>1, <2>2 DEF JobOfWalk, WalkPlace, Passed, Below
  <2> QED
    BY <2>3 DEF WalkPart
<1>7. CASE SkipBlock
  <2> DEFINE b == Chain!BestChild(nextBlock, scanned)
  <2>1. /\ wpc = "process" /\ ~AtChainEnd /\ HasIndexedBlock(b, blockHeight)
        /\ nextBlock' = b /\ blockHeight' = blockHeight + 1
        /\ UNCHANGED <<blockAt, job, wpc>>
    BY <1>7 DEF SkipBlock, indexerVars, index
  <2>2. b \in Blocks /\ HeightOf[b] = blockHeight /\ Prev[b] = nextBlock
    BY <2>1, NextOfWalk
  <2>3. nextBlock = Below(blockHeight) /\ job = Idle
    BY <1>2, <2>1 DEF WalkPlace, JobOfWalk
  <2> HIDE DEF b
  <2> QED
    BY <2>1, <2>2, <2>3, Advances
<1>8. CASE IndexingDone
  <2>1. /\ wpc = "index" /\ job = Idle /\ wpc' = "process"
        /\ blockHeight' = blockHeight + 1 /\ UNCHANGED <<blockAt, job, nextBlock>>
    BY <1>8 DEF IndexingDone, indexerVars, index
  <2>2. /\ nextBlock \in Blocks /\ HeightOf[nextBlock] = blockHeight
        /\ Prev[nextBlock] = Below(blockHeight) /\ HasIndexedBlock(nextBlock, blockHeight)
    BY <1>2, <2>1 DEF WalkPlace, Idle
  <2> QED
    BY <2>1, <2>2, Advances
<1>9. CASE Restart
  <2>1. wpc' = "sleep" /\ job' = Idle
    BY <1>9 DEF Restart, RestartIndexer
  <2> QED
    BY <2>1 DEF WalkPart, JobOfWalk, WalkPlace, Passed
<1>10. CASE UNCHANGED watcherVars
  BY <1>10, QuietWalks DEF watcherVars, indexerVars, index, threadVars
<1> QED
  BY <1>3, <1>4, <1>5, <1>6, <1>7, <1>8, <1>9, <1>10, StartIndexingWalks, IndexingWalks
     DEF WatcherNext, WatcherStep

LEMMA InitWalks == WatcherInit => WalkInv
<1> SUFFICES ASSUME WatcherInit PROVE WalkInv
  OBVIOUS
<1>1. TypeInv /\ job = Idle /\ wpc = "sleep"
  BY InitTyped DEF WatcherInit, IndexerInit
<1>2. ThreadTypeOK
  <2>1. /\ disk \in [Files -> Seq(Blocks)] /\ scanned \in Seq(Blocks)
        /\ pending \subseteq Files /\ wpc \in WatcherSteps
        /\ shouldUpdate \in BOOLEAN /\ nextBlock \in Blocks \cup {ZeroHash}
        /\ blockHeight \in Nat
    BY EmptySeq DEF WatcherInit, WatcherSteps
  <2>2. /\ mtime \in [Files -> 0..MaxClock] /\ clock \in 1..MaxClock
        /\ maxLastModified \in 0..MaxClock
    BY WatcherAssumption DEF WatcherInit
  <2> QED
    BY <2>1, <2>2 DEF ThreadTypeOK
<1> QED
  BY <1>1, <1>2 DEF WalkInv, JobOfWalk, WalkPlace, Passed

LEMMA Walks == WatcherSpec => []WalkInv
<1>1. WalkInv /\ [WatcherNext]_watcherVars => WalkInv'
  BY StepWalks
<1> QED
  BY <1>1, InitWalks, PTL DEF WatcherSpec

\* The types of the watcher and, under its calls, of the index.
THEOREM WatcherTypeCorrect == WatcherSpec => []WatcherTypeOK
<1>1. WalkInv => WatcherTypeOK
  BY DEF WalkInv, TypeInv, ThreadTypeOK, WatcherTypeOK
<1> QED
  BY <1>1, Walks, PTL

\* Every behaviour of the watcher is one of the indexer, whose caller
\* BlockIndexer describes by one condition: the walk meets it.
THEOREM WatcherRunsIndexer == WatcherSpec => IndexerSpec
<1>1. WatcherInit => IndexerInit
  BY DEF WatcherInit
<1>2. WalkInv /\ [WatcherNext]_watcherVars => [IndexerNext]_indexerVars
  BY WalkCalls
<1> QED
  BY <1>1, <1>2, Walks, PTL DEF WatcherSpec, IndexerSpec

\* What the walk has passed is recorded, linked and at the right heights
\* (processNextBlock and its calls of indexBlock).
THEOREM PrefixRecorded == WatcherSpec => []WalkedPrefixRecorded
<1>1. WalkInv => WalkedPrefixRecorded
  <2> SUFFICES ASSUME WalkInv PROVE WalkedPrefixRecorded
    OBVIOUS
  <2> QED
    BY DEF WalkInv, WalkPlace, Passed, Below, ThreadTypeOK, WalkedPrefixRecorded
<1> QED
  BY <1>1, Walks, PTL

-----------------------------------------------------------------------------
(* The end of the walk.                                                    *)

\* The blocks that the next walk, or the one that goes on, has to choose from
\* at the least.
Seen == IF wpc \in {"sleep", "stat"} THEN Stored
        ELSE IF wpc = "scan"
             THEN Range(scanned) \cup UNION {Range(disk[f]) : f \in pending}
             ELSE Range(scanned)

\* What was scanned is stored, and forgotten when the walk has ended.
ScannedIsStored ==
    /\ Range(scanned) \subseteq Stored
    /\ wpc \in {"sleep", "stat"} => scanned = <<>>

\* Only blocks with complete chains are recorded, or raise "highestblock",
\* and they are among those seen.
OnlyRooted ==
    /\ Range(blockAt) \subseteq Rooted(Seen)
    /\ wpc = "index" => nextBlock \in Rooted(Seen)
    /\ highest # -1 => \E b \in Rooted(Seen) : HeightOf[b] = highest

\* "highestblock" is raised before the batch is written.
HighestFirst ==
    /\ \A h \in DOMAIN blockAt : h <= highest
    /\ job.step = "batch" => job.height <= highest

\* The height of the walk's next block.
Reached == IF wpc = "index" THEN blockHeight + 1 ELSE blockHeight

\* From where the walk is, the scan leads as high as any block whose chain is
\* complete.
Leads ==
    wpc \in {"process", "index"} =>
        \A r \in Rooted(Range(scanned)) :
            HeightOf[r] >= Reached =>
                nextBlock \in Chain!FollowedBy(scanned)[HeightOf[r] - Reached + 1]

EndInv == WalkInv /\ ScannedIsStored /\ OnlyRooted /\ HighestFirst /\ Leads

\* What is seen are stored blocks.
LEMMA SeenIsStored ==
    ASSUME ThreadTypeOK, ScannedIsStored
    PROVE  Seen \subseteq Stored /\ Stored \subseteq Blocks
<1>1. \A f \in Files : Range(disk[f]) \subseteq Blocks
  <2> SUFFICES ASSUME NEW f \in Files PROVE Range(disk[f]) \subseteq Blocks
    OBVIOUS
  <2>1. disk[f] \in Seq(Blocks)
    BY DEF ThreadTypeOK
  <2> QED
    BY <2>1, ScanTyped DEF Range
<1>2. pending \subseteq Files
  BY DEF ThreadTypeOK
<1> QED
  BY <1>1, <1>2 DEF Seen, Stored, ScannedIsStored

\* Nothing that was seen is lost from sight, and only what is stored is
\* scanned.
LEMMA StepScans ==
    ASSUME WalkInv, ScannedIsStored, [WatcherNext]_watcherVars
    PROVE  ScannedIsStored' /\ Seen \subseteq Seen'
<1>1. ThreadTypeOK /\ ScannedIsStored /\ Seen \subseteq Stored
  BY SeenIsStored DEF WalkInv
<1>2. Range(<<>>) = {}
  BY DEF Range
<1>3. CASE WakeUp \/ NothingChanged
  <2>1. /\ wpc \in {"sleep", "stat"} /\ wpc' \in {"sleep", "stat"}
        /\ UNCHANGED <<disk, scanned>>
    BY <1>3 DEF WakeUp, NothingChanged, daemonVars
  <2> QED
    BY <1>1, <2>1 DEF ScannedIsStored, Seen, Stored
<1>4. CASE StartUpdate
  <2>1. /\ wpc = "stat" /\ wpc' = "scan" /\ pending' = Files
        /\ UNCHANGED <<disk, scanned>>
    BY <1>4 DEF StartUpdate, daemonVars
  <2> QED
    BY <1>1, <2>1 DEF ScannedIsStored, Seen, Stored
<1>5. CASE StartWalk
  <2>1. /\ wpc = "scan" /\ wpc' = "process" /\ pending = {}
        /\ UNCHANGED <<disk, scanned>>
    BY <1>5 DEF StartWalk, daemonVars
  <2> QED
    BY <1>1, <2>1 DEF ScannedIsStored, Seen, Stored
<1>6. CASE SkipBlock \/ StartIndexing \/ Indexing \/ IndexingDone
  <2>1. /\ wpc \in {"process", "index"} /\ wpc' \in {"process", "index"}
        /\ UNCHANGED <<disk, scanned>>
    BY <1>6 DEF SkipBlock, StartIndexing, Indexing, IndexingDone, daemonVars, threadVars
  <2> QED
    BY <1>1, <2>1 DEF ScannedIsStored, Seen, Stored
<1>7. CASE EndUpdate \/ Restart
  <2>1. wpc' = "sleep" /\ scanned' = <<>> /\ UNCHANGED disk
    BY <1>7 DEF EndUpdate, Restart, daemonVars
  <2>2. Stored' = Stored
    BY <2>1 DEF Stored
  <2> QED
    BY <1>1, <1>2, <2>1, <2>2 DEF ScannedIsStored, Seen
<1>8. ASSUME NEW f \in Files, StatFile(f) PROVE ScannedIsStored' /\ Seen \subseteq Seen'
  <2>1. wpc = "stat" /\ UNCHANGED <<wpc, disk, scanned>>
    BY <1>8 DEF StatFile, daemonVars
  <2> QED
    BY <1>1, <2>1 DEF ScannedIsStored, Seen, Stored
<1>9. ASSUME NEW f \in Files, ScanFile(f) PROVE ScannedIsStored' /\ Seen \subseteq Seen'
  <2>1. /\ wpc = "scan" /\ f \in pending /\ pending' = pending \ {f}
        /\ UNCHANGED <<wpc, disk>>
        /\ scanned' = FoundIn(disk[f], scanned)[Len(disk[f])]
    BY <1>9 DEF ScanFile, daemonVars
  <2>2. disk[f] \in Seq(Blocks) /\ scanned \in Seq(Blocks)
    BY <1>1 DEF ThreadTypeOK
  <2>3. Range(scanned') = Range(scanned) \cup Range(disk[f])
    BY <2>1, <2>2, FileIsFound
  <2>4. Stored' = Stored /\ Range(disk[f]) \subseteq Stored
    BY <2>1 DEF Stored
  <2>5. ScannedIsStored'
    BY <1>1, <2>1, <2>3, <2>4 DEF ScannedIsStored
  <2>6. /\ Seen = Range(scanned) \cup UNION {Range(disk[g]) : g \in pending}
        /\ Seen' = Range(scanned') \cup UNION {Range(disk[g]) : g \in pending \ {f}}
    BY <2>1 DEF Seen
  <2> QED
    BY <2>3, <2>5, <2>6
<1>10. ASSUME NEW f \in Files, NEW b \in Blocks, DaemonAppends(f, b)
       PROVE  ScannedIsStored' /\ Seen \subseteq Seen'
  <2>1. /\ disk' = [disk EXCEPT ![f] = Append(@, b)]
        /\ UNCHANGED <<wpc, pending, scanned>>
    BY <1>10 DEF DaemonAppends, threadVars
  <2>2. disk \in [Files -> Seq(Blocks)] /\ disk[f] \in Seq(Blocks) /\ pending \subseteq Files
    BY <1>1 DEF ThreadTypeOK
  <2>3. Range(disk[f]) \subseteq Range(Append(disk[f], b))
    <3>1. /\ Len(disk[f]) \in Nat /\ DOMAIN disk[f] = 1..Len(disk[f])
          /\ DOMAIN Append(disk[f], b) = 1..(Len(disk[f]) + 1)
          /\ \A i \in 1..Len(disk[f]) : Append(disk[f], b)[i] = disk[f][i]
      BY <2>2, AppendProperties, LenProperties
    <3>2. \A i \in DOMAIN disk[f] : i \in DOMAIN Append(disk[f], b)
      BY <3>1
    <3> QED
      BY <3>1, <3>2 DEF Range
  <2>4. \A g \in Files : Range(disk[g]) \subseteq Range(disk'[g])
    BY <2>1, <2>2, <2>3
  <2>5. Stored \subseteq Stored'
    BY <2>4 DEF Stored
  <2>6. Seen \subseteq Seen'
    BY <2>1, <2>2, <2>4, <2>5 DEF Seen
  <2> QED
    BY <1>1, <2>1, <2>5, <2>6 DEF ScannedIsStored
<1>11. CASE Tick \/ UNCHANGED watcherVars
  <2>1. UNCHANGED <<wpc, disk, scanned, pending>>
    BY <1>11 DEF Tick, watcherVars, threadVars, daemonVars
  <2> QED
    BY <1>1, <2>1 DEF ScannedIsStored, Seen, Stored
<1> QED
  BY <1>3, <1>4, <1>5, <1>6, <1>7, <1>8, <1>9, <1>10, <1>11
     DEF WatcherNext, WatcherStep, Daemon

\* The walk's next block is rooted: it is scanned and on top of a rooted one.
LEMMA NextIsRooted ==
    ASSUME WalkInv, OnlyRooted, StartIndexing
    PROVE  nextBlock' \in Rooted(Seen)
<1> DEFINE b == Chain!BestChild(nextBlock, scanned)
<1>1. wpc = "process" /\ ~AtChainEnd /\ nextBlock' = b
  BY DEF StartIndexing
<1>2. b \in Range(scanned) /\ Prev[b] = nextBlock
  BY <1>1, NextOfWalk
<1> HIDE DEF b
<1>3. b \in Seen
  BY <1>1, <1>2 DEF Seen
<1>4. nextBlock = Below(blockHeight) /\ Passed /\ blockHeight \in Nat
  BY <1>1 DEF WalkInv, WalkPlace, ThreadTypeOK
<1>5. Prev[b] = ZeroHash \/ Prev[b] \in Rooted(Seen)
  <2>1. CASE blockHeight = 0
    BY <1>2, <1>4, <2>1 DEF Below
  <2>2. CASE blockHeight # 0
    <3>1. blockHeight - 1 \in DOMAIN blockAt
      BY <1>1, <1>4, <2>2 DEF Passed
    <3>2. blockAt[blockHeight - 1] \in Range(blockAt)
      BY <3>1 DEF Range
    <3> QED
      BY <1>2, <1>4, <2>2, <3>2 DEF OnlyRooted, Below
  <2> QED
    BY <2>1, <2>2
<1> QED
  BY <1>1, <1>3, <1>5, RootedStands

\* The writes of a call, in terms of the block the walk is at.
LEMMA IndexingWrites ==
    ASSUME WalkInv, Indexing
    PROVE  /\ wpc = "index" /\ nextBlock \in Blocks /\ HeightOf[nextBlock] = blockHeight
           /\ UNCHANGED <<wpc, nextBlock, blockHeight, scanned>>
           /\ job.height = blockHeight
           /\ \/ UNCHANGED blockAt
              \/ /\ DOMAIN blockAt' = DOMAIN blockAt \cup {blockHeight}
                 /\ \A h \in DOMAIN blockAt' :
                       blockAt'[h] = IF h = blockHeight THEN nextBlock ELSE blockAt[h]
                 /\ job.step = "batch"
           /\ \/ UNCHANGED highest /\ job'.step # "batch"
              \/ /\ highest' = IF highest < blockHeight THEN blockHeight ELSE highest
                 /\ UNCHANGED blockAt /\ job'.height = blockHeight
<1>1. /\ TypeInv /\ JobOfWalk /\ WalkPlace /\ blockHeight \in Nat /\ wpc = "index"
      /\ IndexBlockStep /\ UNCHANGED <<wpc, nextBlock, blockHeight, scanned>>
  BY DEF WalkInv, Indexing, threadVars, ThreadTypeOK
<1>2. job.step # "idle" /\ job.block = nextBlock /\ job.height = blockHeight
  BY <1>1 DEF IndexBlockStep, ClearBlockTxos, PutHighest, WriteBatch, JobOfWalk
<1>3. nextBlock \in Blocks /\ HeightOf[nextBlock] = blockHeight
  BY <1>1 DEF WalkPlace
<1>4. CASE ClearBlockTxos
  <2>1. UNCHANGED blockAt /\ UNCHANGED highest /\ job'.step # "batch"
    BY <1>1, <1>4 DEF ClearBlockTxos, TypeInv, TypeOK
  <2> QED
    BY <1>1, <1>2, <1>3, <2>1
<1>5. CASE PutHighest
  <2>1. /\ highest' = IF highest < blockHeight THEN blockHeight ELSE highest
        /\ UNCHANGED blockAt /\ job'.height = blockHeight
    BY <1>1, <1>2, <1>5 DEF PutHighest, TypeInv, TypeOK
  <2> QED
    BY <1>1, <1>2, <1>3, <2>1
<1>6. CASE WriteBatch
  <2>1. /\ DOMAIN blockAt' = DOMAIN blockAt \cup {blockHeight}
        /\ \A h \in DOMAIN blockAt' :
              blockAt'[h] = IF h = blockHeight THEN nextBlock ELSE blockAt[h]
    BY <1>1, <1>2, <1>6, BatchPlaces
  <2>2. UNCHANGED highest /\ job'.step # "batch" /\ job.step = "batch"
    BY <1>6 DEF WriteBatch, Idle
  <2> QED
    BY <1>1, <1>2, <1>3, <2>1, <2>2
<1> QED
  BY <1>1, <1>4, <1>5, <1>6 DEF IndexBlockStep

\* Steps that write nothing.
LEMMA QuietIndex ==
    ASSUME WalkInv, [WatcherNext]_watcherVars, ~Indexing
    PROVE  /\ UNCHANGED <<blockAt, highest>>
           /\ job'.step = "batch" => UNCHANGED job
<1>1. CASE StartIndexing
  <2>1. UNCHANGED <<blockAt, highest>> /\ job'.step # "batch"
    BY <1>1 DEF StartIndexing, IndexBlock, index
  <2> QED
    BY <2>1
<1>2. CASE Restart
  BY <1>2 DEF Restart, RestartIndexer, index, Idle
<1>3. ASSUME WakeUp \/ NothingChanged \/ StartUpdate \/ StartWalk \/ SkipBlock
                \/ IndexingDone \/ EndUpdate \/ Tick
      PROVE  UNCHANGED indexerVars
  BY <1>3 DEF WakeUp, NothingChanged, StartUpdate, StartWalk, SkipBlock, IndexingDone,
              EndUpdate, Tick
<1>4. ASSUME NEW f \in Files, StatFile(f) \/ ScanFile(f) PROVE UNCHANGED indexerVars
  BY <1>4 DEF StatFile, ScanFile
<1>5. ASSUME Daemon PROVE UNCHANGED indexerVars
  BY <1>5 DEF Daemon, DaemonAppends
<1>6. ASSUME UNCHANGED watcherVars PROVE UNCHANGED indexerVars
  BY <1>6 DEF watcherVars
<1>7. UNCHANGED indexerVars => UNCHANGED <<blockAt, highest, job>>
  BY DEF indexerVars, index
<1> QED
  BY <1>1, <1>2, <1>3, <1>4, <1>5, <1>6, <1>7 DEF WatcherNext, WatcherStep

\* What is recorded stays below "highestblock".
LEMMA StepHighest ==
    ASSUME WalkInv, HighestFirst, [WatcherNext]_watcherVars
    PROVE  HighestFirst'
<1>1. highest \in Nat \cup {-1} /\ blockHeight \in Nat /\ DOMAIN blockAt \subseteq Nat
  BY DEF WalkInv, TypeInv, TypeOK, ThreadTypeOK, IsTable
<1>2. CASE ~Indexing
  BY <1>2, QuietIndex DEF HighestFirst
<1>3. CASE Indexing
  <2>1. CASE UNCHANGED highest /\ job'.step # "batch"
    BY <1>3, <2>1, IndexingWrites DEF HighestFirst
  <2>2. CASE /\ highest' = IF highest < blockHeight THEN blockHeight ELSE highest
             /\ UNCHANGED blockAt /\ job'.height = blockHeight
    BY <1>1, <2>2 DEF HighestFirst
  <2> QED
    BY <1>3, <2>1, <2>2, IndexingWrites
<1> QED
  BY <1>2, <1>3

\* Only rooted blocks come to be recorded or to raise "highestblock".
LEMMA StepRooted ==
    ASSUME WalkInv, ScannedIsStored, OnlyRooted, [WatcherNext]_watcherVars
    PROVE  OnlyRooted'
<1>1. \A b \in Rooted(Seen) : b \in Rooted(Seen')
  BY StepScans, RootedGrows
<1>2. Rooted(Seen)' = Rooted(Seen')
  BY DEF Rooted, Grounded
<1>3. \A b : b \in Rooted(Seen) => b \in Rooted(Seen)'
  BY <1>1, <1>2
<1>4. wpc' = "index" => nextBlock' \in Rooted(Seen)'
  <2>1. CASE StartIndexing
    BY <1>3, <2>1, NextIsRooted
  <2>2. CASE UNCHANGED <<wpc, nextBlock>>
    BY <1>3, <2>2 DEF OnlyRooted
  <2>3. ASSUME WakeUp \/ NothingChanged \/ StartUpdate \/ StartWalk \/ SkipBlock
                  \/ IndexingDone \/ EndUpdate \/ Restart
        PROVE  wpc' # "index"
    BY <2>3 DEF WakeUp, NothingChanged, StartUpdate, StartWalk, SkipBlock, IndexingDone,
                EndUpdate, Restart
  <2>4. ASSUME Tick \/ Daemon \/ Indexing \/ UNCHANGED watcherVars
        PROVE  UNCHANGED <<wpc, nextBlock>>
    BY <2>4 DEF Tick, Daemon, DaemonAppends, Indexing, watcherVars, threadVars
  <2>5. ASSUME NEW f \in Files, StatFile(f) \/ ScanFile(f) PROVE UNCHANGED <<wpc, nextBlock>>
    BY <2>5 DEF StatFile, ScanFile
  <2> QED
    BY <2>1, <2>2, <2>3, <2>4, <2>5 DEF WatcherNext, WatcherStep
<1>5. /\ Range(blockAt') \subseteq Rooted(Seen)'
      /\ highest' # -1 => \E b \in Rooted(Seen)' : HeightOf[b] = highest'
  <2>1. CASE ~Indexing
    <3>1. UNCHANGED <<blockAt, highest>>
      BY <2>1, QuietIndex
    <3> QED
      BY <1>3, <3>1 DEF OnlyRooted
  <2>2. CASE Indexing
    <3>1. nextBlock \in Rooted(Seen)' /\ HeightOf[nextBlock] = blockHeight
      BY <1>3, <2>2, IndexingWrites DEF OnlyRooted
    <3>2. \A h \in DOMAIN blockAt : blockAt[h] \in Rooted(Seen)'
      BY <1>3 DEF OnlyRooted, Range
    <3>3. \A h \in DOMAIN blockAt' : blockAt'[h] \in Rooted(Seen)'
      <4>1. CASE UNCHANGED blockAt
        BY <3>2, <4>1
      <4>2. CASE /\ DOMAIN blockAt' = DOMAIN blockAt \cup {blockHeight}
                 /\ \A h \in DOMAIN blockAt' :
                       blockAt'[h] = IF h = blockHeight THEN nextBlock ELSE blockAt[h]
        BY <3>1, <3>2, <4>2
      <4> QED
        BY <2>2, <4>1, <4>2, IndexingWrites
    <3>4. highest' = highest \/ highest' = blockHeight
      BY <2>2, IndexingWrites
    <3>5. highest # -1 => \E b \in Rooted(Seen)' : HeightOf[b] = highest
      BY <1>3 DEF OnlyRooted
    <3> QED
      BY <3>1, <3>3, <3>4, <3>5 DEF Range
  <2> QED
    BY <2>1, <2>2
<1> QED
  BY <1>4, <1>5 DEF OnlyRooted

\* The walk keeps to a deepest chain.
LEMMA StepLeads ==
    ASSUME WalkInv, Leads, [WatcherNext]_watcherVars
    PROVE  Leads'
<1>1. scanned \in Seq(Blocks) /\ blockHeight \in Nat /\ WalkPlace
  BY DEF WalkInv, ThreadTypeOK
<1>2. \A r \in Rooted(Range(scanned)) : HeightOf[r] \in Nat /\ HeightOf[r] + 1 <= Len(scanned)
  <2>1. Range(scanned) \in SUBSET Blocks
    BY <1>1, ScanTyped DEF Range
  <2> QED
    BY <1>1, <2>1, RootedBelow, RootedFits
<1>3. Rooted(Range(scanned))' = Rooted(Range(scanned'))
  BY DEF Rooted, Grounded, Range
<1>4. ASSUME wpc = "process", ~AtChainEnd, nextBlock' = Chain!BestChild(nextBlock, scanned),
             UNCHANGED scanned, Reached' = blockHeight + 1
      PROVE  Leads'
  <2> SUFFICES ASSUME NEW r \in Rooted(Range(scanned)), HeightOf[r] >= blockHeight + 1
               PROVE  nextBlock' \in
                         Chain!FollowedBy(scanned)[HeightOf[r] - (blockHeight + 1) + 1]
    BY <1>3, <1>4 DEF Leads
  <2> DEFINE n == HeightOf[r] - blockHeight
  <2>1. /\ HeightOf[r] \in Nat /\ HeightOf[r] + 1 <= Len(scanned) /\ Len(scanned) \in Nat
        /\ Reached = blockHeight
    BY <1>1, <1>2, <1>4, ScanTyped DEF Reached
  <2>2. /\ n \in 0..Len(scanned) /\ n + 1 \in 0..Len(scanned)
        /\ HeightOf[r] - (blockHeight + 1) + 1 = n /\ HeightOf[r] - blockHeight + 1 = n + 1
    BY <1>1, <2>1
  <2>3. nextBlock \in Chain!FollowedBy(scanned)[n + 1]
    BY <1>1, <1>4, <2>1 DEF Leads
  <2>4. Chain!Children(nextBlock, scanned) # {}
    BY <1>4 DEF AtChainEnd
  <2> HIDE DEF n
  <2> QED
    BY <1>1, <1>4, <2>2, <2>3, <2>4, BestChildFollows
<1>5. CASE StartWalk
  <2>1. /\ wpc = "scan" /\ wpc' = "process" /\ nextBlock' = ZeroHash
        /\ UNCHANGED <<scanned, blockHeight>>
    BY <1>5 DEF StartWalk
  <2>2. Reached' = 0
    BY <1>1, <2>1 DEF WalkPlace, Reached
  <2> SUFFICES ASSUME NEW r \in Rooted(Range(scanned))
               PROVE  ZeroHash \in Chain!FollowedBy(scanned)[HeightOf[r] - 0 + 1]
    BY <1>3, <2>1, <2>2 DEF Leads
  <2>3. HeightOf[r] - 0 + 1 = HeightOf[r] + 1
    BY <1>2
  <2> QED
    BY <1>1, <2>3, RootedFollowed
<1>6. CASE SkipBlock
  <2>1. /\ wpc = "process" /\ ~AtChainEnd /\ wpc' = "process" /\ UNCHANGED scanned
        /\ nextBlock' = Chain!BestChild(nextBlock, scanned)
        /\ blockHeight' = blockHeight + 1
    BY <1>6 DEF SkipBlock
  <2>2. Reached' = blockHeight + 1
    BY <2>1 DEF Reached
  <2> QED
    BY <1>4, <2>1, <2>2
<1>7. CASE StartIndexing
  <2>1. /\ wpc = "process" /\ ~AtChainEnd /\ wpc' = "index"
        /\ UNCHANGED <<scanned, blockHeight>>
        /\ nextBlock' = Chain!BestChild(nextBlock, scanned)
    BY <1>7 DEF StartIndexing
  <2>2. Reached' = blockHeight + 1
    BY <2>1 DEF Reached
  <2> QED
    BY <1>4, <2>1, <2>2
<1>8. CASE IndexingDone
  <2>1. /\ wpc = "index" /\ wpc' = "process" /\ UNCHANGED <<scanned, nextBlock>>
        /\ blockHeight' = blockHeight + 1
    BY <1>8 DEF IndexingDone
  <2>2. Reached' = Reached
    BY <2>1 DEF Reached
  <2> QED
    BY <1>3, <2>1, <2>2 DEF Leads
<1>9. ASSUME UNCHANGED <<wpc, scanned, nextBlock, blockHeight>> PROVE Leads'
  <2>1. Reached' = Reached
    BY <1>9 DEF Reached
  <2> QED
    BY <1>3, <1>9, <2>1 DEF Leads
<1>10. ASSUME Tick \/ Daemon \/ Indexing \/ UNCHANGED watcherVars
       PROVE  UNCHANGED <<wpc, scanned, nextBlock, blockHeight>>
  BY <1>10 DEF Tick, Daemon, DaemonAppends, Indexing, watcherVars, threadVars
<1>11. ASSUME WakeUp \/ NothingChanged \/ StartUpdate \/ EndUpdate \/ Restart
                 \/ \E f \in Files : StatFile(f) \/ ScanFile(f)
       PROVE  ~(wpc' \in {"process", "index"})
  BY <1>11 DEF WakeUp, NothingChanged, StartUpdate, EndUpdate, Restart, StatFile, ScanFile
<1> QED
  BY <1>5, <1>6, <1>7, <1>8, <1>9, <1>10, <1>11 DEF WatcherNext, WatcherStep, Leads

LEMMA Ends == WatcherSpec => []EndInv
<1>1. WatcherInit => ScannedIsStored /\ OnlyRooted /\ HighestFirst /\ Leads
  <2> SUFFICES ASSUME WatcherInit
               PROVE  ScannedIsStored /\ OnlyRooted /\ HighestFirst /\ Leads
    OBVIOUS
  <2>1. /\ scanned = <<>> /\ wpc = "sleep" /\ highest = -1 /\ job.step = "idle"
        /\ DOMAIN blockAt = {}
    BY EmptyTyped DEF WatcherInit, IndexerInit, Idle
  <2> QED
    BY <2>1 DEF ScannedIsStored, OnlyRooted, HighestFirst, Leads, Range
<1>2. EndInv /\ [WatcherNext]_watcherVars => EndInv'
  BY StepWalks, StepScans, StepRooted, StepHighest, StepLeads DEF EndInv
<1> QED
  BY <1>1, <1>2, InitWalks, PTL DEF WatcherSpec, EndInv

\* A finished walk leaves a longest chain of what it has seen, whatever was
\* recorded before and wherever the process has stopped (processNextBlock and
\* findLongestChain).
LEMMA EndIsLongest ==
    ASSUME EndInv, AtOwnHeight, wpc = "process", AtChainEnd
    PROVE  /\ HoldsLongestChain(Range(scanned))
           /\ highest = blockHeight - 1 /\ DOMAIN blockAt = 0..highest
<1>1. /\ scanned \in Seq(Blocks) /\ blockHeight \in Nat /\ highest \in Nat \cup {-1}
      /\ IsTable(blockAt, Nat, Blocks) /\ Passed /\ OnlyRooted /\ HighestFirst /\ Leads
  BY DEF EndInv, WalkInv, ThreadTypeOK, TypeInv, TypeOK
<1>2. Seen = Range(scanned) /\ Reached = blockHeight
  BY DEF Seen, Reached
<1>3. ASSUME NEW r \in Rooted(Range(scanned)) PROVE HeightOf[r] \in 0..(blockHeight - 1)
  <2>1. Range(scanned) \in SUBSET Blocks
    BY <1>1, ScanTyped DEF Range
  <2>2. HeightOf[r] \in Nat /\ HeightOf[r] + 1 <= Len(scanned) /\ Len(scanned) \in Nat
    BY <1>1, <2>1, RootedBelow, RootedFits, ScanTyped
  <2>3. ASSUME HeightOf[r] >= blockHeight PROVE FALSE
    <3> DEFINE n == HeightOf[r] - blockHeight + 1
    <3>1. n \in 1..Len(scanned)
      BY <1>1, <2>2, <2>3
    <3>2. nextBlock \in Chain!FollowedBy(scanned)[n]
      BY <1>1, <1>2, <2>3 DEF Leads
    <3> HIDE DEF n
    <3>3. PICK i \in DOMAIN scanned : Prev[scanned[i]] = nextBlock
      BY <1>1, <3>1, <3>2, FollowSteps
    <3> QED
      BY <3>3 DEF AtChainEnd, Chain!Children
  <2> QED
    BY <1>1, <2>2, <2>3
<1>4. \A h \in DOMAIN blockAt : blockAt[h] \in Rooted(Range(scanned)) /\ HeightOf[blockAt[h]] = h
  BY <1>1, <1>2 DEF OnlyRooted, Range, AtOwnHeight
<1>5. DOMAIN blockAt = 0..(blockHeight - 1)
  <2>1. 0..(blockHeight - 1) \subseteq DOMAIN blockAt
    BY <1>1 DEF Passed
  <2> QED
    BY <1>3, <1>4, <2>1
<1>6. highest = blockHeight - 1
  <2>1. highest # -1 => highest \in 0..(blockHeight - 1)
    BY <1>1, <1>2, <1>3 DEF OnlyRooted
  <2>2. \A h \in 0..(blockHeight - 1) : h <= highest
    BY <1>1, <1>5 DEF HighestFirst
  <2>3. blockHeight # 0 => blockHeight - 1 \in 0..(blockHeight - 1)
    BY <1>1
  <2> QED
    BY <1>1, <2>1, <2>2, <2>3
<1>7. Cardinality(DOMAIN blockAt) = blockHeight
  <2>1. 0 \in Int /\ blockHeight - 1 \in Int
    BY <1>1
  <2>2. Cardinality(0..(blockHeight - 1)) =
           IF 0 > blockHeight - 1 THEN 0 ELSE blockHeight - 1 - 0 + 1
    BY <2>1, FS_Interval, Zenon
  <2> QED
    BY <1>1, <1>5, <2>2
<1>8. Range(blockAt) \subseteq Range(scanned)
  <2>1. \A b \in Rooted(Range(scanned)) : b \in Range(scanned)
    BY RootedStands
  <2>2. \A h \in DOMAIN blockAt : blockAt[h] \in Range(scanned)
    BY <1>4, <2>1
  <2>3. Range(blockAt) = {blockAt[h] : h \in DOMAIN blockAt}
    BY DEF Range
  <2> QED
    BY <2>2, <2>3
<1>9. \A h \in DOMAIN blockAt :
         Prev[blockAt[h]] = IF h = 0 THEN ZeroHash ELSE blockAt[h - 1]
  BY <1>1, <1>5 DEF Passed, Below
<1> QED
  BY <1>3, <1>5, <1>6, <1>7, <1>8, <1>9 DEF HoldsLongestChain

\* Whatever the scan has seen, whichever chain was indexed before and wherever
\* the process stopped, a finished walk leaves a longest chain of the scanned
\* blocks in the index and nothing above it (updateIndex).
THEOREM LongestAtEnd == WatcherSpec => []WalkEndsAtLongestChain
<1>1. EndInv /\ PlaceInv => WalkEndsAtLongestChain
  BY EndIsLongest DEF PlaceInv, WalkEndsAtLongestChain
<1> QED
  BY <1>1, Ends, Placed, WatcherRunsIndexer, PTL

\* An output that the index reports as spent is spent by a recorded block,
\* whatever the watcher replaces (clearBlockTxos).
THEOREM WatcherSpends == WatcherSpec => []SpentByRecordedBlock
BY WatcherRunsIndexer, SpentByRecorded, PTL

\* A finished walk leaves every recorded block with its TXO records, those it
\* has only passed by too, unless a restart has come between the removal of a
\* replaced block's records and the batch.
THEOREM CompleteAtEnd ==
    ASSUME NoRestartInReorg
    PROVE  WatcherSpec => []WalkEndsComplete
<1>1. WalkInv /\ TxosMatchBlocks => WalkEndsComplete
  <2> SUFFICES ASSUME WalkInv, TxosMatchBlocks, wpc = "process", NEW h \in DOMAIN blockAt
               PROVE  TxosOf(blockAt[h]) \subseteq StoredTxos
    BY DEF WalkEndsComplete
  <2>1. job.step = "idle"
    BY DEF WalkInv, JobOfWalk, Idle
  <2>2. blockAt[h] \in Intact
    BY <2>1 DEF Intact, Replacing
  <2> QED
    BY <2>2 DEF TxosMatchBlocks
<1>2. IndexerSpec => []TxosMatchBlocks
  BY TxosCorrect
<1> QED
  BY <1>1, <1>2, Walks, WatcherRunsIndexer, PTL

-----------------------------------------------------------------------------
(* The program from its start.                                             *)

\* Where main is says which objects there are and whether the thread has run.
Constructed ==
    CASE main \in {"openDatabase", "readParams", "dumpDoubleSpends", "startWatcher"} ->
            /\ watcherThread = "none"
            /\ mempoolMonitor = "null" /\ blockFileWatcher = NoWatcher
      [] main = "ended" -> watcherThread = "none"
      [] main = "makeMonitor" ->
            watcherThread = "started" /\ blockFileWatcher = NoWatcher
      [] main = "makeWatcher" ->
            /\ watcherThread = "started" /\ blockFileWatcher = NoWatcher
            /\ mempoolMonitor = "made"
      [] main = "serve" ->
            /\ watcherThread \in {"started", "running"}
            /\ mempoolMonitor = "made" /\ blockFileWatcher = WatcherWith("made")
      [] OTHER -> FALSE

\* Only the running thread indexes.
OnlyThreadIndexes == job.step # "idle" => watcherThread = "running"

StartInv == Constructed /\ OnlyThreadIndexes

\* The only steps that touch the index are the indexer's own.
LEMMA StartupSteps ==
    ASSUME [StartupNext]_startupVars
    PROVE  [IndexerNext]_indexerVars
<1>1. CASE Watch
  BY <1>1 DEF Watch, RunningNext, IndexerNext
<1>2. CASE Stop
  BY <1>2 DEF Stop, IndexerNext
<1>3. ASSUME OpenDatabase \/ ReadParams \/ DumpDoubleSpends \/ StartWatcherThread
             \/ MakeMonitor \/ MakeWatcher \/ RunWatcher
      PROVE  UNCHANGED indexerVars
  BY <1>3 DEF OpenDatabase, ReadParams, DumpDoubleSpends, StartWatcherThread,
              MakeMonitor, MakeWatcher, RunWatcher, Main
<1> QED
  BY <1>1, <1>2, <1>3 DEF StartupNext, startupVars

\* Whatever main and the threads do, the index goes through the steps of
\* BlockIndexer, with its restarts.
THEOREM RunsIndexer == StartupSpec => IndexerSpec
<1>1. StartupInit => IndexerInit
  BY DEF StartupInit
<1>2. [StartupNext]_startupVars => [IndexerNext]_indexerVars
  BY StartupSteps
<1> QED
  BY <1>1, <1>2, PTL DEF StartupSpec, IndexerSpec

LEMMA StepConstructed ==
    ASSUME StartInv, [StartupNext]_startupVars
    PROVE  StartInv'
<1>1. \A m : WatcherWith(m).monitor = m /\ NoWatcher.monitor = "no watcher"
  BY DEF WatcherWith, NoWatcher
<1>2. CASE OpenDatabase \/ ReadParams \/ DumpDoubleSpends
  <2>1. UNCHANGED <<job, watcherThread, mempoolMonitor>>
    BY <1>2 DEF OpenDatabase, ReadParams, DumpDoubleSpends, Main, indexerVars
  <2>2. Constructed'
    BY <1>2, <2>1 DEF OpenDatabase, ReadParams, DumpDoubleSpends, Main, StartInv, Constructed
  <2> QED
    BY <2>1, <2>2 DEF StartInv, OnlyThreadIndexes
<1>3. CASE StartWatcherThread
  BY <1>3 DEF StartWatcherThread, Main, StartInv, Constructed, OnlyThreadIndexes, indexerVars
<1>4. CASE MakeMonitor
  BY <1>4 DEF MakeMonitor, Main, StartInv, Constructed, OnlyThreadIndexes, indexerVars
<1>5. CASE MakeWatcher
  BY <1>5 DEF MakeWatcher, Main, StartInv, Constructed, OnlyThreadIndexes, indexerVars
<1>6. CASE RunWatcher
  BY <1>1, <1>6 DEF RunWatcher, StartInv, Constructed, OnlyThreadIndexes, indexerVars
<1>7. CASE Watch
  BY <1>7 DEF Watch, mainVars, StartInv, Constructed, OnlyThreadIndexes
<1>8. CASE Stop
  BY <1>8 DEF Stop, StartProgram, RestartIndexer, Idle, StartInv, Constructed,
              OnlyThreadIndexes
<1>9. CASE UNCHANGED startupVars
  BY <1>9 DEF startupVars, mainVars, indexerVars, StartInv, Constructed, OnlyThreadIndexes
<1> QED
  BY <1>2, <1>3, <1>4, <1>5, <1>6, <1>7, <1>8, <1>9 DEF StartupNext

\* In whatever order main and the thread it has started go on, a block is only
\* indexed when the monitor, the watcher and its pointer to the monitor exist.
THEOREM MonitorThere == StartupSpec => []ReportsToMonitor
<1>1. StartupInit => StartInv
  BY DEF StartupInit, IndexerInit, Idle, StartInv, Constructed, OnlyThreadIndexes
<1>2. StartInv /\ [StartupNext]_startupVars => StartInv'
  BY StepConstructed
<1>3. StartInv => ReportsToMonitor
  BY DEF StartInv, Constructed, OnlyThreadIndexes, ReportsToMonitor
<1> QED
  BY <1>1, <1>2, <1>3, PTL DEF StartupSpec

\* What is proved of the indexer holds of the program that is stopped and
\* started at any moment while it indexes a straight chain.
THEOREM GrowsUndamaged ==
    ASSUME NoRestartInReorg
    PROVE  StartupSpec => [](TypeOK /\ TxosMatchBlocks /\ NoTxoTwice) /\ NoTxoOverwritten
BY RunsIndexer, TypeCorrect, TxosCorrect, NeverTwice, NeverOverwritten, PTL
=============================================================================
