------------------------- MODULE DoubleSpendsProofs -------------------------
(***************************************************************************)
(* Theorems about DoubleSpends: what is proved of the files holds in every *)
(* state of the dump, and the report of double spends marks at each height *)
(* the block that the indexer's walk goes through and says nothing that is *)
(* not so; for any blocks, transactions and files, and any moment at which *)
(* the daemon writes on.                                                   *)
(***************************************************************************)
EXTENDS DoubleSpends, BlockFilesProofs

-----------------------------------------------------------------------------
(* The tree of the found blocks.                                           *)

\* The blocks that the chain is chosen from, and what is found as they are.
All == Blocks \cup {ZeroHeader}
Order == Hashes(found)

\* What is found names its predecessor.
FoundTrue ==
    /\ found \in Seq(Entry)
    /\ \A i \in 1..Len(found) : found[i].prev = PrevOf(found[i].hash)

\* What is found names its predecessor.
LEMMA FilesInvMeansTrue == FilesInv => FoundTrue
<1> SUFFICES ASSUME FilesInv PROVE FoundTrue
  OBVIOUS
<1>1. PICK lay \in Layouts, old \in [Files -> Nat], n \in 0..4 :
          FilesAre(lay, n) /\ OldAre(lay, old) /\ ScanIs(lay, old)
  BY DEF FilesInv
<1> QED
  BY <1>1 DEF FoundTrue, ScanIs, Noted

\* The hashes found, in the order of the scan.
LEMMA OrderIs ==
    ASSUME FoundTrue
    PROVE  /\ Order \in Seq(All) /\ Len(Order) = Len(found) /\ Len(found) \in Nat
           /\ DOMAIN Order = 1..Len(found) /\ DOMAIN found = 1..Len(found)
           /\ \A i \in 1..Len(found) :
                 /\ found[i] \in Entry
                 /\ Order[i] = found[i].hash /\ Order[i] \in All
                 /\ PrevOf(Order[i]) = found[i].prev
<1>1. /\ Len(found) \in Nat /\ DOMAIN found = 1..Len(found)
      /\ \A i \in 1..Len(found) : found[i] \in Entry /\ found[i].prev = PrevOf(found[i].hash)
  BY DEF FoundTrue
<1>2. \A i \in 1..Len(found) : found[i].hash \in All
  BY <1>1 DEF Entry, All
<1>3. Order = [i \in 1..Len(found) |-> found[i].hash]
  BY <1>1 DEF Order, Hashes
<1> HIDE DEF Entry, All
<1>4. Order \in Seq(All) /\ Len(Order) = Len(found) /\ DOMAIN Order = 1..Len(found)
  BY <1>1, <1>2, <1>3
<1> QED
  BY <1>1, <1>2, <1>3, <1>4

\* The predecessors from which the chain is chosen.
LEMMA ChainPrev == \A b \in All : [c \in Blocks \cup {ZeroHeader} |->
                       IF c = ZeroHeader THEN ZeroHash ELSE Prev[c]][b] = PrevOf(b)
BY DEF All, PrevOf

\* Block c was found and follows p.
Child(c, p) == \E i \in 1..Len(found) : Order[i] = c /\ PrevOf(c) = p

\* The recursion of FollowedBy.
Follow == Chain!FollowedBy(Order)

LEMMA FollowSteps ==
    ASSUME FoundTrue
    PROVE  /\ Follow[0] = All
           /\ \A n \in 1..Len(found) : \A p :
                 p \in Follow[n] <=> \E c \in Follow[n - 1] : Child(c, p)
<1> DEFINE N == Len(found)
           X == SUBSET (All \cup {ZeroHash})
           Below(above) == {PrevOf(Order[i]) : i \in {j \in 1..N : Order[j] \in above}}
           Rec(f) == f = [n \in 0..N |-> IF n = 0 THEN All ELSE Below(f[n - 1])]
           G == [x \in Nat \X X |-> Below(x[2])]
<1>1. /\ N \in Nat /\ Len(Order) = N /\ DOMAIN Order = 1..N
      /\ \A i \in 1..N : Order[i] \in All /\ PrevOf(Order[i]) \in All \cup {ZeroHash}
  <2>1. \A b \in All : PrevOf(b) \in All \cup {ZeroHash}
    BY FilesAssumption DEF All, PrevOf
  <2> QED
    BY <2>1, OrderIs
<1>2. G \in [Nat \X X -> X]
  <2>1. \A above : Below(above) \in X
    BY <1>1
  <2> HIDE DEF Below, X
  <2> QED
    BY <2>1
<1>3. All \in X
  OBVIOUS
<1>4. PICK f : Iterated(f, X, All, G, N)
  <2> HIDE DEF X, G, N
  <2> QED
    BY <1>1, <1>2, <1>3, Iterates
<1>5. \A n \in 1..N : f[n] = Below(f[n - 1])
  <2> SUFFICES ASSUME NEW n \in 1..N PROVE f[n] = Below(f[n - 1])
    OBVIOUS
  <2>1. n - 1 \in 0..N /\ n \in Nat
    BY <1>1
  <2>2. f[n - 1] \in X /\ f[n] = G[<<n, f[n - 1]>>]
    BY <1>4, <2>1 DEF Iterated
  <2>3. <<n, f[n - 1]>> \in Nat \X X
    BY <2>1, <2>2
  <2>4. G[<<n, f[n - 1]>>] = Below(f[n - 1])
    <3> HIDE DEF X, Below
    <3> QED
      BY <2>3
  <2> QED
    BY <2>2, <2>4
<1>6. Rec(f)
  <2>1. f \in [0..N -> X] /\ f[0] = All
    BY <1>4 DEF Iterated
  <2> HIDE DEF Below, X
  <2>2. \A n \in 0..N : f[n] = IF n = 0 THEN All ELSE Below(f[n - 1])
    BY <1>1, <1>5, <2>1
  <2> QED
    BY <2>1, <2>2
<1>7. Follow = CHOOSE g : Rec(g)
  <2> DEFINE P == [c \in Blocks \cup {ZeroHeader} |->
                       IF c = ZeroHeader THEN ZeroHash ELSE Prev[c]]
             Low(above) == {P[Order[i]] : i \in {j \in DOMAIN Order : Order[j] \in above}}
  <2>1. \A above : Low(above) = Below(above)
    <3>1. \A i \in 1..N : P[Order[i]] = PrevOf(Order[i])
      BY <1>1, ChainPrev
    <3> HIDE DEF P
    <3> QED
      BY <1>1, <3>1
  <2>2. Follow = CHOOSE g : g = [n \in 0..Len(Order) |-> IF n = 0 THEN All ELSE Low(g[n - 1])]
    BY DEF Follow, Chain!FollowedBy, All
  <2> HIDE DEF Low, Below, N
  <2> QED
    BY <1>1, <2>1, <2>2
<1>8. Rec(Follow)
  <2> HIDE DEF Rec
  <2> QED
    BY <1>6, <1>7
<1>9. Follow[0] = All /\ \A n \in 1..N : Follow[n] = Below(Follow[n - 1])
  <2> HIDE DEF Below
  <2>1. Follow = [n \in 0..N |-> IF n = 0 THEN All ELSE Below(Follow[n - 1])]
    BY <1>8
  <2>2. 0 \in 0..N /\ \A n \in 1..N : n \in 0..N /\ n # 0
    BY <1>1
  <2> HIDE DEF Follow, N
  <2> QED
    BY <2>1, <2>2
<1>10. ASSUME NEW n \in 1..N, NEW p
       PROVE  p \in Follow[n] <=> \E c \in Follow[n - 1] : Child(c, p)
  <2>1. p \in Follow[n] <=> \E i \in 1..N : Order[i] \in Follow[n - 1] /\ PrevOf(Order[i]) = p
    BY <1>9
  <2> QED
    BY <1>1, <2>1 DEF Child
<1> QED
  BY <1>9, <1>10

\* No block that was found has as many blocks above it as were found.
LEMMA FollowEnds ==
    ASSUME FoundTrue, NEW i \in 1..Len(found), Order[i] \in Follow[Len(found)]
    PROVE  FALSE
<1> DEFINE N == Len(found)
           S == {Order[k] : k \in 1..N}
           D(n) == S \cap Follow[n]
           T == {n \in Nat : n <= N => /\ IsFiniteSet(D(n)) /\ Cardinality(D(n)) <= N - n
                                       /\ \A m \in 1..N : m = n => D(m) \subseteq D(m - 1)}
<1>1. /\ N \in Nat /\ \A k \in 1..N : Order[k] \in All
      /\ Follow[0] = All
      /\ \A n \in 1..N : \A p : p \in Follow[n] <=> \E c \in Follow[n - 1] : Child(c, p)
  BY OrderIs, FollowSteps
<1>2. IsFiniteSet(S) /\ Cardinality(S) \in Nat /\ Cardinality(S) <= N
  <2>1. [k \in 1..N |-> Order[k]] \in Surjection(1..N, S)
    BY DEF Surjection
  <2>2. IsFiniteSet(1..N) /\ Cardinality(1..N) = N
    <3>1. Cardinality(1..N) = (IF 1 > N THEN 0 ELSE N - 1 + 1) /\ IsFiniteSet(1..N)
      BY <1>1, FS_Interval
    <3> QED
      BY <1>1, <3>1
  <2> HIDE DEF S
  <2>3. IsFiniteSet(S) /\ Cardinality(S) <= N
    BY <2>1, <2>2, FS_Surjection
  <2> QED
    BY <2>3, FS_CardinalityType
<1>3. 0 \in T
  <2>1. D(0) = S
    BY <1>1
  <2> HIDE DEF D, S
  <2> QED
    BY <1>1, <1>2, <2>1
<1>4. ASSUME NEW n \in Nat, n \in T PROVE n + 1 \in T
  <2> SUFFICES ASSUME n + 1 <= N
               PROVE  /\ IsFiniteSet(D(n + 1)) /\ Cardinality(D(n + 1)) <= N - (n + 1)
                      /\ D(n + 1) \subseteq D(n)
    <3>1. \A m \in 1..N : m = n + 1 => m - 1 = n
      BY <1>1
    <3> HIDE DEF D, N
    <3> QED
      BY <3>1
  <2>1. n + 1 \in 1..N /\ (n + 1) - 1 = n /\ n <= N
    BY <1>1
  <2>2. IsFiniteSet(D(n)) /\ Cardinality(D(n)) <= N - n
    BY <1>4, <2>1
  <2>3. \A b : b \in D(n + 1) <=> b \in S /\ \E c \in D(n) : PrevOf(c) = b
    <3>1. \A p : p \in Follow[n + 1] <=> \E c \in Follow[n] : Child(c, p)
      BY <1>1, <2>1
    <3>2. \A c, p : Child(c, p) <=> c \in S /\ PrevOf(c) = p
      BY DEF Child
    <3> HIDE DEF S
    <3> QED
      BY <3>1, <3>2
  <2>4. D(n + 1) \subseteq D(n)
    <3>1. CASE n = 0
      BY <1>1, <3>1
    <3>2. CASE n # 0
      <4>1. n \in 1..N
        BY <2>1, <3>2
      <4>2. D(n) \subseteq D(n - 1)
        BY <1>4, <2>1, <4>1
      <4>3. \A b : b \in D(n) <=> b \in S /\ \E c \in D(n - 1) : PrevOf(c) = b
        <5>1. \A p : p \in Follow[n] <=> \E c \in Follow[n - 1] : Child(c, p)
          BY <1>1, <4>1
        <5>2. \A c, p : Child(c, p) <=> c \in S /\ PrevOf(c) = p
          BY DEF Child
        <5> HIDE DEF S
        <5> QED
          BY <5>1, <5>2
      <4> HIDE DEF D
      <4> QED
        BY <2>3, <4>2, <4>3
    <3> QED
      BY <3>1, <3>2
  <2>5. CASE D(n) = {}
    <3>1. D(n + 1) = {}
      BY <2>4, <2>5
    <3> HIDE DEF D, N
    <3>2. IsFiniteSet(D(n + 1)) /\ Cardinality(D(n + 1)) = 0
      BY <3>1, FS_EmptySet
    <3>3. 0 <= N - (n + 1)
      BY <1>1, <2>1
    <3> QED
      BY <2>4, <3>2, <3>3
  <2>6. CASE D(n) # {}
    <3>1. PICK b \in D(n) : b \notin D(n + 1)
      <4> DEFINE some == D(n) \cap Blocks
      <4>1. CASE some = {}
        <5>1. D(n) \subseteq {ZeroHeader}
          BY <1>1, <4>1 DEF All
        <5>2. \A c \in D(n) : PrevOf(c) = ZeroHash
          BY <5>1 DEF PrevOf
        <5>3. ZeroHash # ZeroHeader
          BY FilesAssumption
        <5>4. ZeroHeader \notin D(n + 1)
          BY <2>3, <5>2, <5>3
        <5> HIDE DEF D
        <5> QED
          BY <2>6, <5>1, <5>4
      <4>2. CASE some # {}
        <5>1. some \in SUBSET Blocks /\ IsFiniteSet(some)
          <6> HIDE DEF D
          <6>1. some \in SUBSET D(n)
            OBVIOUS
          <6> QED
            BY <2>2, <6>1, FS_Subset
        <5>2. PICK b \in some : \A c \in some : Prev[c] # b
          <6> HIDE DEF some
          <6> QED
            BY <4>2, <5>1, FilesAssumption
        <5>3. \A c \in D(n) : PrevOf(c) # b
          <6>1. b # ZeroHash
            BY <5>1, FilesAssumption
          <6>2. \A c \in D(n) : c = ZeroHeader \/ c \in some
            BY <1>1 DEF All
          <6> HIDE DEF D
          <6> QED
            BY <5>2, <6>1, <6>2 DEF PrevOf
        <5> HIDE DEF D
        <5> QED
          BY <2>3, <5>3
      <4> QED
        BY <4>1, <4>2
    <3> HIDE DEF D
    <3>2. D(n + 1) \in SUBSET (D(n) \ {b})
      BY <2>4, <3>1
    <3>3. IsFiniteSet(D(n) \ {b}) /\ Cardinality(D(n) \ {b}) = Cardinality(D(n)) - 1
      BY <2>2, <3>1, FS_RemoveElement
    <3>4. IsFiniteSet(D(n + 1)) /\ Cardinality(D(n + 1)) <= Cardinality(D(n)) - 1
      BY <3>2, <3>3, FS_Subset
    <3>5. Cardinality(D(n)) \in Nat /\ Cardinality(D(n + 1)) \in Nat
      BY <2>2, <3>4, FS_CardinalityType
    <3> QED
      BY <1>1, <2>2, <2>4, <3>4, <3>5
  <2> QED
    BY <2>5, <2>6
<1>5. N \in T
  <2> HIDE DEF T
  <2> QED
    BY <1>1, <1>3, <1>4, Induction
<1>6. IsFiniteSet(D(N)) /\ Cardinality(D(N)) = 0
  <2>1. IsFiniteSet(D(N)) /\ Cardinality(D(N)) <= N - N
    BY <1>1, <1>5
  <2>2. Cardinality(D(N)) \in Nat
    <3> HIDE DEF D
    <3> QED
      BY <2>1, FS_CardinalityType
  <2> HIDE DEF D
  <2> QED
    BY <1>1, <2>1, <2>2
<1>7. D(N) = {}
  <2> HIDE DEF D
  <2> QED
    BY <1>6, FS_EmptySet
<1> QED
  BY <1>7

-----------------------------------------------------------------------------
(* The best of a list of blocks.                                           *)

\* The entries that n found blocks follow.
Deep(n) == {e \in Entry : e.hash \in Follow[n]}

\* No member of list has more than r blocks above it.
Deepest(list, r) ==
    /\ r \in 0..Len(found)
    /\ \A n \in 0..Len(found), i \in 1..Len(list) : list[i] \in Deep(n) => n <= r

\* e is the member of list that the longest chain follows, the last such.
IsBest(list, r, e) == Deepest(list, r) /\ LastIn(list, Deep(r), e)

\* BestPosition is the last position whose block has the most above it.
LEMMA PositionIs ==
    ASSUME FoundTrue, NEW hashes \in Seq(All), NEW P \in SUBSET (1..Len(hashes)), NEW i \in P,
           NEW r \in 0..Len(found), hashes[i] \in Follow[r],
           \A n \in 0..Len(found), j \in P : hashes[j] \in Follow[n] => n <= r,
           \A j \in P : hashes[j] \in Follow[r] => j <= i
    PROVE  Chain!BestPosition(P, hashes, Order) = i
<1> DEFINE N == Len(found)
           L(n) == Chain!Left(n, P, hashes, Follow)
           IsLast(n) == L(n) # {} /\ \A m \in 0..N : L(m) # {} => m <= n
           rounds == CHOOSE n \in 0..N : IsLast(n)
           best == CHOOSE j \in L(rounds) : \A k \in L(rounds) : k <= j
<1>1. /\ N \in Nat /\ Len(Order) = N /\ Follow[0] = All
      /\ Len(hashes) \in Nat /\ \A j \in P : hashes[j] \in All
  BY OrderIs, FollowSteps
<1>2. Chain!BestPosition(P, hashes, Order) = best
  BY <1>1 DEF Chain!BestPosition, Follow
<1>3. \A n \in 0..N : L(n) = {j \in P : hashes[j] \in Follow[n]}
  <2>1. \A n : L(n) = {j \in P : n = 0 \/ hashes[j] \in Follow[n]}
    BY DEF Chain!Left
  <2> HIDE DEF L
  <2> QED
    BY <1>1, <2>1
<1> HIDE DEF N, L
<1>4. r \in 0..N /\ IsLast(r)
  BY <1>1, <1>3 DEF N
<1>5. rounds = r
  <2>1. rounds \in 0..N /\ IsLast(rounds)
    <3> HIDE DEF IsLast
    <3> QED
      BY <1>4
  <2> HIDE DEF rounds
  <2> QED
    BY <1>1, <1>4, <2>1
<1> HIDE DEF rounds
<1>6. L(rounds) = {j \in P : hashes[j] \in Follow[r]}
  BY <1>3, <1>4, <1>5
<1>7. i \in L(rounds) /\ \A k \in L(rounds) : k <= i /\ k \in Nat
  <2>1. i \in L(rounds) /\ \A k \in L(rounds) : k \in P /\ hashes[k] \in Follow[r]
    BY <1>6
  <2>2. \A k \in P : k \in Nat
    BY <1>1
  <2> QED
    BY <2>1, <2>2
<1>8. \A j \in L(rounds) : (\A k \in L(rounds) : k <= j) => j = i
  BY <1>7
<1> HIDE DEF L
<1>9. best = i
  BY <1>7, <1>8
<1> QED
  BY <1>2, <1>9

\* The hashes of a list of entries.
LEMMA HashesAre ==
    ASSUME NEW list \in Seq(Entry)
    PROVE  /\ Hashes(list) \in Seq(All) /\ Len(Hashes(list)) = Len(list)
           /\ DOMAIN Hashes(list) = 1..Len(list) /\ Len(list) \in Nat
           /\ \A i \in 1..Len(list) : /\ list[i] \in Entry /\ list[i].hash \in All
                                      /\ Hashes(list)[i] = list[i].hash
<1>1. /\ Len(list) \in Nat /\ DOMAIN list = 1..Len(list)
      /\ \A i \in 1..Len(list) : list[i] \in Entry
  <2> HIDE DEF Entry
  <2> QED
    OBVIOUS
<1>2. \A i \in 1..Len(list) : list[i].hash \in All
  BY <1>1 DEF Entry, All
<1>3. Hashes(list) = [i \in 1..Len(list) |-> list[i].hash]
  BY <1>1 DEF Hashes
<1> HIDE DEF Entry, All
<1> QED
  BY <1>1, <1>2, <1>3

\* The choice between the blocks of one height.
LEMMA BestIs ==
    ASSUME FoundTrue, NEW list \in Seq(Entry), NEW r, NEW e, IsBest(list, r, e)
    PROVE  Chain!Best(Hashes(list), Hashes(found)) = e.hash
<1>1. /\ Hashes(list) \in Seq(All) /\ Len(Hashes(list)) = Len(list)
      /\ DOMAIN Hashes(list) = 1..Len(list) /\ Len(list) \in Nat
      /\ \A i \in 1..Len(list) : list[i] \in Entry /\ Hashes(list)[i] = list[i].hash
  BY HashesAre
<1>2. PICK i \in 1..Len(list) :
        list[i] = e /\ \A j \in 1..Len(list) : list[j] \in Deep(r) => j <= i
  BY DEF IsBest, LastIn
<1>3. /\ e \in Deep(r) /\ r \in 0..Len(found)
      /\ \A n \in 0..Len(found), j \in 1..Len(list) : list[j] \in Deep(n) => n <= r
  BY DEF IsBest, LastIn, Deepest
<1>4. \A n : \A j \in 1..Len(list) : list[j] \in Deep(n) <=> Hashes(list)[j] \in Follow[n]
  BY <1>1 DEF Deep
<1>5. PICK hashes \in Seq(All) : hashes = Hashes(list)
  BY <1>1
<1>6. PICK P \in SUBSET (1..Len(hashes)) : P = DOMAIN Hashes(list)
  BY <1>1, <1>5
<1>7. /\ i \in P /\ hashes[i] \in Follow[r]
      /\ \A n \in 0..Len(found), j \in P : hashes[j] \in Follow[n] => n <= r
      /\ \A j \in P : hashes[j] \in Follow[r] => j <= i
  <2>1. P = 1..Len(list)
    BY <1>1, <1>6
  <2>2. hashes[i] \in Follow[r]
    BY <1>2, <1>3, <1>4, <1>5
  <2>3. \A n \in 0..Len(found), j \in P : hashes[j] \in Follow[n] => n <= r
    BY <1>3, <1>4, <1>5, <2>1
  <2>4. \A j \in P : hashes[j] \in Follow[r] => j <= i
    BY <1>2, <1>3, <1>4, <1>5, <2>1
  <2> QED
    BY <2>1, <2>2, <2>3, <2>4
<1>8. Chain!BestPosition(P, hashes, Order) = i
  BY <1>3, <1>7, PositionIs
<1>9. Chain!Best(Hashes(list), Hashes(found)) = hashes[i]
  BY <1>5, <1>6, <1>8 DEF Chain!Best, Order
<1> QED
  BY <1>1, <1>2, <1>5, <1>9

-----------------------------------------------------------------------------

\* FollowUps gives the found blocks that follow p, and the last of them that
\* is in a set is the last one found.
LEMMA FollowUpsAre ==
    ASSUME FoundTrue, NEW p
    PROVE  /\ FollowUps(p) \in Seq(Entry)
           /\ \A i \in 1..Len(FollowUps(p)) : \E k \in 1..Len(found) :
                 FollowUps(p)[i] = found[k] /\ found[k].prev = p
           /\ \A k \in 1..Len(found) : found[k].prev = p =>
                 \E i \in 1..Len(FollowUps(p)) : FollowUps(p)[i] = found[k]
           /\ \A T : \A k \in 1..Len(found) :
                 /\ found[k].prev = p /\ found[k] \in T
                 /\ \A j \in 1..Len(found) : found[j].prev = p /\ found[j] \in T => j <= k
                 => LastIn(FollowUps(p), T, found[k])
<1> DEFINE ss == [i \in DOMAIN found |-> IF found[i].prev = p THEN <<found[i]>> ELSE <<>>]
           N == Len(found)
<1>1. N \in Nat /\ DOMAIN found = 1..N /\ \A i \in 1..N : found[i] \in Entry
  BY OrderIs
<1> HIDE DEF Entry
<1>2. \A i \in 1..N : /\ ss[i] \in Seq(Entry)
                      /\ found[i].prev = p => ss[i] = <<found[i]>>
                      /\ found[i].prev # p => ss[i] = <<>>
  BY <1>1
<1>3. ss \in Seq(Seq(Entry)) /\ Len(ss) = N
  BY <1>1, <1>2
<1>4. PICK tt \in Seq(Seq(Entry)) : tt = ss
  BY <1>3
<1>40. FollowUps(p) = FlattenSeq(tt) /\ Len(tt) = N
  BY <1>3, <1>4 DEF FollowUps
<1>41. \A i \in 1..N : /\ tt[i] \in Seq(Entry)
                       /\ found[i].prev = p => tt[i] = <<found[i]>>
                       /\ found[i].prev # p => tt[i] = <<>>
  BY <1>2, <1>4
<1> HIDE DEF ss
<1>5. \A i \in 1..N : /\ found[i].prev = p => Len(tt[i]) = 1 /\ tt[i][1] = found[i]
                      /\ found[i].prev # p => Len(tt[i]) = 0
  <2>1. \A x : Len(<<x>>) = 1 /\ <<x>>[1] = x
    OBVIOUS
  <2>2. Len(<<>>) = 0
    OBVIOUS
  <2> QED
    BY <1>41, <2>1, <2>2
<1>50. \A k \in 1..Len(tt) :
          /\ Len(FlattenSeq(tt)) \in Nat /\ Len(Joined(tt, k - 1)) \in Nat /\ Len(tt[k]) \in Nat
          /\ Len(Joined(tt, k)) = Len(Joined(tt, k - 1)) + Len(tt[k])
          /\ Len(Joined(tt, k)) <= Len(FlattenSeq(tt))
          /\ \A j \in 1..Len(tt[k]) : FlattenSeq(tt)[Len(Joined(tt, k - 1)) + j] = tt[k][j]
  BY FlattenPlaces
<1>51. \A i \in 1..Len(FlattenSeq(tt)) : \E k \in 1..Len(tt) : \E j \in 1..Len(tt[k]) :
          FlattenSeq(tt)[i] = tt[k][j]
  BY MemberOfFlatten
<1>6. FlattenSeq(tt) \in Seq(Entry)
  <2>1. Len(tt) \in 0..Len(tt)
    BY <1>1, <1>40
  <2> QED
    BY <2>1, JoinedSteps
<1>7. ASSUME NEW i \in 1..Len(FlattenSeq(tt))
      PROVE  \E k \in 1..N : FlattenSeq(tt)[i] = found[k] /\ found[k].prev = p
  <2>1. PICK k \in 1..N : \E j \in 1..Len(tt[k]) : FlattenSeq(tt)[i] = tt[k][j]
    BY <1>40, <1>7, <1>51
  <2>2. PICK j \in 1..Len(tt[k]) : FlattenSeq(tt)[i] = tt[k][j]
    BY <2>1
  <2>3. found[k].prev = p
    BY <1>5, <2>2
  <2>4. Len(tt[k]) = 1 /\ tt[k][1] = found[k]
    BY <1>5, <2>3
  <2>5. j = 1
    BY <2>4
  <2> QED
    BY <2>2, <2>3, <2>4, <2>5
<1>8. ASSUME NEW k \in 1..N, found[k].prev = p
      PROVE  \E i \in 1..Len(FlattenSeq(tt)) : FlattenSeq(tt)[i] = found[k]
  <2>1. /\ Len(FlattenSeq(tt)) \in Nat /\ Len(Joined(tt, k - 1)) \in Nat
        /\ Len(Joined(tt, k)) = Len(Joined(tt, k - 1)) + Len(tt[k])
        /\ Len(Joined(tt, k)) <= Len(FlattenSeq(tt))
        /\ \A j \in 1..Len(tt[k]) : FlattenSeq(tt)[Len(Joined(tt, k - 1)) + j] = tt[k][j]
    BY <1>40, <1>50
  <2>2. PICK m \in Nat : m = Len(Joined(tt, k - 1))
    BY <2>1
  <2>3. 1 \in 1..Len(tt[k]) /\ tt[k][1] = found[k] /\ Len(tt[k]) = 1
    BY <1>5, <1>8
  <2>4. FlattenSeq(tt)[m + 1] = found[k] /\ m + 1 \in 1..Len(FlattenSeq(tt))
    BY <2>1, <2>2, <2>3
  <2> QED
    BY <2>4
<1>9. ASSUME NEW T, NEW k \in 1..N, found[k].prev = p, found[k] \in T,
             \A j \in 1..N : found[j].prev = p /\ found[j] \in T => j <= k
      PROVE  LastIn(FlattenSeq(tt), T, found[k])
  <2>1. LastIn(tt[k], T, found[k])
    <3>1. Len(tt[k]) = 1 /\ tt[k][1] = found[k] /\ 1 \in 1..1
      BY <1>5, <1>9
    <3> QED
      BY <1>9, <3>1 DEF LastIn
  <2>2. \A m \in 1..N : m > k => \A j \in 1..Len(tt[m]) : tt[m][j] \notin T
    <3> SUFFICES ASSUME NEW m \in 1..N, m > k, NEW j \in 1..Len(tt[m]), tt[m][j] \in T
                 PROVE  FALSE
      OBVIOUS
    <3>1. found[m].prev = p
      BY <1>5
    <3>2. Len(tt[m]) = 1 /\ tt[m][1] = found[m]
      BY <1>5, <3>1
    <3>3. j = 1
      BY <3>2
    <3> QED
      BY <1>1, <1>9, <3>1, <3>2, <3>3
  <2> QED
    BY <1>40, <2>1, <2>2, FlattenLast
<1>10. PICK list : list = FollowUps(p) /\ list = FlattenSeq(tt)
  BY <1>40
<1>11. list \in Seq(Entry)
  BY <1>6, <1>10
<1>12. \A i \in 1..Len(list) : \E k \in 1..N : list[i] = found[k] /\ found[k].prev = p
  BY <1>7, <1>10
<1>13. \A k \in 1..N : found[k].prev = p => \E i \in 1..Len(list) : list[i] = found[k]
  BY <1>8, <1>10
<1>14. \A T : \A k \in 1..N :
         /\ found[k].prev = p /\ found[k] \in T
         /\ \A j \in 1..N : found[j].prev = p /\ found[j] \in T => j <= k
         => LastIn(list, T, found[k])
  BY <1>9, <1>10
<1> QED
  BY <1>10, <1>11, <1>12, <1>13, <1>14

\* Above gives the found blocks that follow one of a list.
LEMMA AboveAre ==
    ASSUME FoundTrue, NEW list \in Seq(Entry)
    PROVE  /\ Above(list) \in Seq(Entry)
           /\ \A i \in 1..Len(Above(list)) : \E k \in 1..Len(list), m \in 1..Len(found) :
                 Above(list)[i] = found[m] /\ found[m].prev = list[k].hash
           /\ \A k \in 1..Len(list), m \in 1..Len(found) : found[m].prev = list[k].hash =>
                 \E i \in 1..Len(Above(list)) : Above(list)[i] = found[m]
           /\ \A T, v : \A k \in 1..Len(list) :
                 /\ LastIn(FollowUps(list[k].hash), T, v)
                 /\ \A j \in 1..Len(list), m \in 1..Len(found) :
                       j > k /\ found[m].prev = list[j].hash => found[m] \notin T
                 => LastIn(Above(list), T, v)
<1> DEFINE ss == [i \in DOMAIN list |-> FollowUps(list[i].hash)]
           N == Len(found)
<1>1. Len(list) \in Nat /\ DOMAIN list = 1..Len(list) /\ N \in Nat
  BY OrderIs
<1>2. \A i \in 1..Len(list) :
         /\ ss[i] \in Seq(Entry)
         /\ \A j \in 1..Len(ss[i]) : \E m \in 1..N :
               ss[i][j] = found[m] /\ found[m].prev = list[i].hash
         /\ \A m \in 1..N : found[m].prev = list[i].hash =>
               \E j \in 1..Len(ss[i]) : ss[i][j] = found[m]
  <2> SUFFICES ASSUME NEW i \in 1..Len(list)
               PROVE  /\ ss[i] \in Seq(Entry)
                      /\ \A j \in 1..Len(ss[i]) : \E m \in 1..N :
                            ss[i][j] = found[m] /\ found[m].prev = list[i].hash
                      /\ \A m \in 1..N : found[m].prev = list[i].hash =>
                            \E j \in 1..Len(ss[i]) : ss[i][j] = found[m]
    OBVIOUS
  <2>1. ss[i] = FollowUps(list[i].hash)
    BY <1>1
  <2>2. PICK p : p = list[i].hash
    OBVIOUS
  <2>3. /\ FollowUps(p) \in Seq(Entry)
        /\ \A j \in 1..Len(FollowUps(p)) : \E m \in 1..Len(found) :
              FollowUps(p)[j] = found[m] /\ found[m].prev = p
        /\ \A m \in 1..Len(found) : found[m].prev = p =>
              \E j \in 1..Len(FollowUps(p)) : FollowUps(p)[j] = found[m]
    BY FollowUpsAre
  <2>4. PICK u : u = FollowUps(p)
    OBVIOUS
  <2>5. ss[i] = u
    BY <2>1, <2>2, <2>4
  <2> HIDE DEF ss, Entry
  <2>6. /\ u \in Seq(Entry)
        /\ \A j \in 1..Len(u) : \E m \in 1..N : u[j] = found[m] /\ found[m].prev = p
        /\ \A m \in 1..N : found[m].prev = p => \E j \in 1..Len(u) : u[j] = found[m]
    BY <2>3, <2>4
  <2> HIDE DEF N
  <2> QED
    BY <2>2, <2>5, <2>6
<1> HIDE DEF Entry
<1>3. ss \in Seq(Seq(Entry)) /\ Len(ss) = Len(list)
  BY <1>1, <1>2
<1>30. PICK tt \in Seq(Seq(Entry)) : tt = ss
  BY <1>3
<1>4. Above(list) = FlattenSeq(tt) /\ \A i \in 1..Len(list) : tt[i] = FollowUps(list[i].hash)
  BY <1>1, <1>30 DEF Above
<1>31. Len(tt) = Len(list)
  BY <1>3, <1>30
<1>32. \A i \in 1..Len(list) :
         /\ \A j \in 1..Len(tt[i]) : \E m \in 1..N :
               tt[i][j] = found[m] /\ found[m].prev = list[i].hash
         /\ \A m \in 1..N : found[m].prev = list[i].hash =>
               \E j \in 1..Len(tt[i]) : tt[i][j] = found[m]
  <2> HIDE DEF ss
  <2> QED
    BY <1>2, <1>30
<1> HIDE DEF ss
<1>50. \A k \in 1..Len(tt) :
          /\ Len(FlattenSeq(tt)) \in Nat /\ Len(Joined(tt, k - 1)) \in Nat /\ Len(tt[k]) \in Nat
          /\ Len(Joined(tt, k)) = Len(Joined(tt, k - 1)) + Len(tt[k])
          /\ Len(Joined(tt, k)) <= Len(FlattenSeq(tt))
          /\ \A j \in 1..Len(tt[k]) : FlattenSeq(tt)[Len(Joined(tt, k - 1)) + j] = tt[k][j]
  BY FlattenPlaces
<1>51. \A i \in 1..Len(FlattenSeq(tt)) : \E k \in 1..Len(tt) : \E j \in 1..Len(tt[k]) :
          FlattenSeq(tt)[i] = tt[k][j]
  BY MemberOfFlatten
<1>5. FlattenSeq(tt) \in Seq(Entry)
  <2>1. Len(tt) \in 0..Len(tt)
    BY <1>1, <1>31
  <2> QED
    BY <2>1, JoinedSteps
<1>6. ASSUME NEW i \in 1..Len(FlattenSeq(tt))
      PROVE  \E k \in 1..Len(list), m \in 1..N :
                 FlattenSeq(tt)[i] = found[m] /\ found[m].prev = list[k].hash
  <2>1. PICK k \in 1..Len(list) : \E j \in 1..Len(tt[k]) : FlattenSeq(tt)[i] = tt[k][j]
    BY <1>31, <1>6, <1>51
  <2> QED
    BY <1>32, <2>1, SMTT(60)
<1>7. ASSUME NEW k \in 1..Len(list), NEW m \in 1..N, found[m].prev = list[k].hash
      PROVE  \E i \in 1..Len(FlattenSeq(tt)) : FlattenSeq(tt)[i] = found[m]
  <2>1. /\ Len(FlattenSeq(tt)) \in Nat /\ Len(Joined(tt, k - 1)) \in Nat /\ Len(tt[k]) \in Nat
        /\ Len(Joined(tt, k)) = Len(Joined(tt, k - 1)) + Len(tt[k])
        /\ Len(Joined(tt, k)) <= Len(FlattenSeq(tt))
        /\ \A j \in 1..Len(tt[k]) : FlattenSeq(tt)[Len(Joined(tt, k - 1)) + j] = tt[k][j]
    BY <1>31, <1>50
  <2>2. PICK x \in Nat, y \in Nat : x = Len(Joined(tt, k - 1)) /\ y = Len(tt[k])
    BY <2>1
  <2>3. PICK j \in 1..y : tt[k][j] = found[m]
    BY <1>32, <1>7, <2>2
  <2>5. FlattenSeq(tt)[x + j] = found[m]
    BY <2>1, <2>2, <2>3
  <2>6. x + j \in 1..Len(FlattenSeq(tt))
    <3>1. PICK z \in Nat : z = Len(FlattenSeq(tt))
      BY <2>1
    <3>2. x + y <= z
      BY <2>1, <2>2, <3>1
    <3>3. j \in 1..y
      BY <2>3
    <3>4. x + j \in 1..z
      BY <3>2, <3>3
    <3> QED
      BY <3>1, <3>4
  <2>4. FlattenSeq(tt)[x + j] = found[m] /\ x + j \in 1..Len(FlattenSeq(tt))
    BY <2>5, <2>6
  <2> QED
    BY <2>4
<1>8. ASSUME NEW T, NEW v, NEW k \in 1..Len(list), LastIn(FollowUps(list[k].hash), T, v),
             \A j \in 1..Len(list), m \in 1..N :
                 j > k /\ found[m].prev = list[j].hash => found[m] \notin T
      PROVE  LastIn(FlattenSeq(tt), T, v)
  <2>1. LastIn(tt[k], T, v)
    BY <1>4, <1>8
  <2>2. \A j \in 1..Len(list) : j > k => \A i \in 1..Len(tt[j]) : tt[j][i] \notin T
    <3> SUFFICES ASSUME NEW j \in 1..Len(list), j > k, NEW i \in 1..Len(tt[j])
                 PROVE  tt[j][i] \notin T
      OBVIOUS
    <3>1. PICK m \in 1..N : tt[j][i] = found[m] /\ found[m].prev = list[j].hash
      BY <1>32
    <3>2. found[m] \notin T
      BY <1>8, <3>1
    <3> QED
      BY <3>1, <3>2
  <2> QED
    BY <1>31, <2>1, <2>2, FlattenLast
<1>9. \A T, v : \A k \in 1..Len(list) :
         /\ LastIn(FollowUps(list[k].hash), T, v)
         /\ \A j \in 1..Len(list), m \in 1..N :
               j > k /\ found[m].prev = list[j].hash => found[m] \notin T
         => LastIn(FlattenSeq(tt), T, v)
  BY <1>8
<1>10. PICK u : u = FlattenSeq(tt)
  OBVIOUS
<1>11. \A i \in 1..Len(u) : \E k \in 1..Len(list), m \in 1..N :
          u[i] = found[m] /\ found[m].prev = list[k].hash
  BY <1>6, <1>10
<1>12. \A k \in 1..Len(list), m \in 1..N : found[m].prev = list[k].hash =>
          \E i \in 1..Len(u) : u[i] = found[m]
  BY <1>7, <1>10
<1>13. Above(list) = u /\ u \in Seq(Entry)
  BY <1>4, <1>5, <1>10
<1>14. \A T, v : \A k \in 1..Len(list) :
          /\ LastIn(FollowUps(list[k].hash), T, v)
          /\ \A j \in 1..Len(list), m \in 1..Len(found) :
                j > k /\ found[m].prev = list[j].hash => found[m] \notin T
          => LastIn(Above(list), T, v)
  BY <1>4, <1>9
<1>15. /\ \A i \in 1..Len(Above(list)) : \E k \in 1..Len(list), m \in 1..Len(found) :
             Above(list)[i] = found[m] /\ found[m].prev = list[k].hash
       /\ \A k \in 1..Len(list), m \in 1..Len(found) : found[m].prev = list[k].hash =>
             \E i \in 1..Len(Above(list)) : Above(list)[i] = found[m]
  BY <1>11, <1>12, <1>13
<1> QED
  BY <1>13, <1>14, <1>15

-----------------------------------------------------------------------------
(* The followers of a block and of a height.                               *)

\* The follower of p that the walk goes to is the last with the longest chain.
LEMMA ChildBest ==
    ASSUME FoundTrue, NEW p, FollowUps(p) # <<>>
    PROVE  \E r, e : /\ IsBest(FollowUps(p), r, e) /\ e.prev = p
                     /\ e.hash = Chain!BestChild(p, Order)
<1> DEFINE N == Len(found)
           Up(k) == found[k].prev = p
           D == {n \in 0..N : \E k \in 1..N : Up(k) /\ found[k] \in Deep(n)}
<1>1. /\ N \in Nat /\ DOMAIN Order = 1..N /\ Len(Order) = N /\ Order \in Seq(All)
      /\ \A k \in 1..N : /\ found[k] \in Entry /\ Order[k] = found[k].hash
                         /\ Order[k] \in All /\ PrevOf(Order[k]) = found[k].prev
      /\ Follow[0] = All
  BY OrderIs, FollowSteps
<1>2. /\ FollowUps(p) \in Seq(Entry)
      /\ \A i \in 1..Len(FollowUps(p)) : \E k \in 1..N : FollowUps(p)[i] = found[k] /\ Up(k)
      /\ \A T : \A k \in 1..N :
            /\ Up(k) /\ found[k] \in T
            /\ \A j \in 1..N : Up(j) /\ found[j] \in T => j <= k
            => LastIn(FollowUps(p), T, found[k])
  BY FollowUpsAre
<1>3. \E k \in 1..N : Up(k)
  <2>1. PICK u \in Seq(Entry) : u = FollowUps(p)
    BY <1>2
  <2>2. 1 \in 1..Len(u)
    <3> HIDE DEF Entry
    <3>1. Len(u) \in Nat /\ (Len(u) = 0 => u = <<>>)
      OBVIOUS
    <3> QED
      BY <2>1, <3>1
  <2> QED
    BY <1>2, <2>1, <2>2
<1>4. \A n, e : e \in Deep(n) <=> e \in Entry /\ e.hash \in Follow[n]
  BY DEF Deep
<1> HIDE DEF Entry
<1>5. PICK r \in D : \A n \in D : n <= r
  <2>1. D \in SUBSET (0..N) /\ 0 \in D
    BY <1>1, <1>3, <1>4
  <2> HIDE DEF D, N
  <2> QED
    BY <1>1, <2>1, GreatestNumber
<1> DEFINE K == {k \in 1..N : Up(k) /\ found[k] \in Deep(r)}
<1>6. PICK k \in K : \A j \in K : j <= k
  <2>1. K \in SUBSET (0..N) /\ K # {}
    BY <1>1, <1>5
  <2> HIDE DEF K, N
  <2> QED
    BY <1>1, <2>1, GreatestNumber
<1>7. /\ r \in 0..N /\ \A n \in 0..N, j \in 1..N : Up(j) /\ found[j] \in Deep(n) => n <= r
      /\ k \in 1..N /\ Up(k) /\ found[k] \in Deep(r)
      /\ \A j \in 1..N : Up(j) /\ found[j] \in Deep(r) => j <= k
  BY <1>5, <1>6
<1> HIDE DEF D, K
<1>8. LastIn(FollowUps(p), Deep(r), found[k])
  BY <1>2, <1>7
<1>9. Deepest(FollowUps(p), r)
  BY <1>2, <1>7 DEF Deepest
<1>10. Chain!Children(p, Order) = {i \in 1..N : Up(i)}
  <2> DEFINE P == [c \in Blocks \cup {ZeroHeader} |->
                       IF c = ZeroHeader THEN ZeroHash ELSE Prev[c]]
  <2>1. \A i \in 1..N : P[Order[i]] = PrevOf(Order[i])
    BY <1>1, ChainPrev
  <2>2. Chain!Children(p, Order) = {i \in DOMAIN Order : P[Order[i]] = p}
    BY DEF Chain!Children
  <2> HIDE DEF P
  <2> QED
    BY <1>1, <2>1, <2>2
<1>11. Chain!BestPosition(Chain!Children(p, Order), Order, Order) = k
  <2>1. PICK hashes \in Seq(All) : hashes = Order
    BY <1>1
  <2>2. PICK P \in SUBSET (1..Len(hashes)) : P = Chain!Children(p, Order)
    BY <1>1, <1>10, <2>1
  <2>3. k \in P /\ \A j \in P : j \in 1..N /\ Up(j)
    BY <1>7, <1>10, <2>2
  <2>4. \A n : \A j \in 1..N : hashes[j] \in Follow[n] <=> found[j] \in Deep(n)
    BY <1>1, <1>4, <2>1
  <2>5. hashes[k] \in Follow[r]
    BY <1>7, <2>4
  <2>6. \A n \in 0..N, j \in P : hashes[j] \in Follow[n] => n <= r
    BY <1>7, <2>3, <2>4
  <2>7. \A j \in P : hashes[j] \in Follow[r] => j <= k
    BY <1>7, <2>3, <2>4
  <2>8. Chain!BestPosition(P, hashes, Order) = k
    BY <1>7, <2>3, <2>5, <2>6, <2>7, PositionIs
  <2> QED
    BY <2>1, <2>2, <2>8
<1>12. found[k].hash = Chain!BestChild(p, Order)
  BY <1>1, <1>7, <1>11 DEF Chain!BestChild
<1> QED
  BY <1>7, <1>8, <1>9, <1>12 DEF IsBest

\* Every member of list was found.
AllFound(list) ==
    list \in Seq(Entry) /\ \A i \in 1..Len(list) : \E m \in 1..Len(found) : list[i] = found[m]

\* The walk goes from the best block of one height to the best of the next.
LEMMA StepBest ==
    ASSUME FoundTrue, NEW list, AllFound(list), NEW r, NEW w, IsBest(list, r, w),
           Above(list) # <<>>
    PROVE  \E e : /\ IsBest(Above(list), r - 1, e) /\ e.prev = w.hash
                  /\ e.hash = Chain!BestChild(w.hash, Order)
<1> DEFINE N == Len(found)
<1>1. /\ N \in Nat
      /\ \A k \in 1..N : /\ found[k] \in Entry /\ Order[k] = found[k].hash
                         /\ Order[k] \in All /\ PrevOf(Order[k]) = found[k].prev
      /\ \A n \in 1..N : \A p : p \in Follow[n] <=> \E c \in Follow[n - 1] : Child(c, p)
  BY OrderIs, FollowSteps
<1>2. list \in Seq(Entry) /\ \A i \in 1..Len(list) : list[i] \in Entry
                             /\ \E m \in 1..N : list[i] = found[m]
  <2>1. list \in Seq(Entry)
    BY DEF AllFound
  <2>2. \A i \in 1..Len(list) : list[i] \in Entry
    <3> HIDE DEF Entry
    <3> QED
      BY <2>1
  <2> QED
    BY <2>1, <2>2 DEF AllFound
<1>3. /\ Above(list) \in Seq(Entry)
      /\ \A i \in 1..Len(Above(list)) : \E k \in 1..Len(list), m \in 1..N :
            Above(list)[i] = found[m] /\ found[m].prev = list[k].hash
      /\ \A T, v : \A k \in 1..Len(list) :
            /\ LastIn(FollowUps(list[k].hash), T, v)
            /\ \A j \in 1..Len(list), m \in 1..N :
                  j > k /\ found[m].prev = list[j].hash => found[m] \notin T
            => LastIn(Above(list), T, v)
  BY <1>2, AboveAre
<1>4. /\ r \in 0..N
      /\ \A n \in 0..N, i \in 1..Len(list) : list[i] \in Deep(n) => n <= r
  BY DEF IsBest, Deepest
<1>5. PICK k \in 1..Len(list) :
        /\ list[k] = w /\ w \in Deep(r)
        /\ \A j \in 1..Len(list) : list[j] \in Deep(r) => j <= k
  BY DEF IsBest, LastIn
<1>6. \A n, e : e \in Deep(n) <=> e \in Entry /\ e.hash \in Follow[n]
  BY DEF Deep
<1>7. ASSUME NEW n \in 0..N, NEW m \in 1..N, NEW i \in 1..Len(list),
             found[m].prev = list[i].hash, found[m] \in Deep(n)
      PROVE  n + 1 <= N /\ list[i] \in Deep(n + 1) /\ n + 1 <= r
  <2>1. n # N
    <3>1. Order[m] \in Follow[n]
      BY <1>1, <1>6, <1>7
    <3> QED
      BY <3>1, FollowEnds
  <2>2. n + 1 \in 1..N /\ (n + 1) - 1 = n /\ n + 1 \in 0..N
    BY <1>1, <2>1
  <2>3. found[m].hash \in Follow[n] /\ Child(found[m].hash, list[i].hash)
    BY <1>1, <1>6, <1>7 DEF Child
  <2>4. list[i].hash \in Follow[n + 1]
    BY <1>1, <2>2, <2>3
  <2>5. list[i] \in Deep(n + 1)
    BY <1>2, <1>6, <2>4
  <2> QED
    BY <1>4, <2>2, <2>5
<1> HIDE DEF Entry, N
<1>8. r \in 1..N /\ r - 1 \in 0..N /\ (r - 1) + 1 = r
  <2>1. PICK u \in Seq(Entry) : u = Above(list)
    BY <1>3
  <2>2. 1 \in 1..Len(u)
    <3>1. Len(u) \in Nat /\ (Len(u) = 0 => u = <<>>)
      OBVIOUS
    <3> QED
      BY <2>1, <3>1
  <2>3. PICK i \in 1..Len(list), m \in 1..N : found[m].prev = list[i].hash
    BY <1>3, <2>1, <2>2
  <2>4. found[m] \in Deep(0)
    <3>1. Follow[0] = All /\ found[m].hash \in All
      BY <1>1, FollowSteps DEF N
    <3> QED
      BY <1>1, <1>6, <3>1
  <2>5. 0 \in 0..N /\ 0 + 1 = 1
    BY <1>1
  <2>6. 1 <= r
    BY <1>7, <2>3, <2>4, <2>5
  <2> QED
    BY <1>1, <1>4, <2>6
<1> DEFINE p == w.hash
<1>9. \E m \in 1..N : found[m].prev = p /\ found[m] \in Deep(r - 1)
  <2>1. PICK c \in Follow[r - 1] : Child(c, p)
    BY <1>1, <1>5, <1>6, <1>8
  <2>2. PICK m \in 1..N : Order[m] = c /\ PrevOf(c) = p
    BY <2>1 DEF Child, N
  <2> QED
    BY <1>1, <1>6, <2>1, <2>2
<1>10. PICK m \in 1..N : found[m].prev = p /\ found[m] \in Deep(r - 1)
  BY <1>9
<1>11. PICK j \in 1..Len(FollowUps(p)) : FollowUps(p)[j] = found[m]
  <2>1. \A l \in 1..Len(found) : found[l].prev = p =>
              \E i \in 1..Len(FollowUps(p)) : FollowUps(p)[i] = found[l]
    BY FollowUpsAre
  <2> QED
    BY <1>10, <2>1 DEF N
<1>12. PICK q, e : /\ IsBest(FollowUps(p), q, e) /\ e.prev = p
                   /\ e.hash = Chain!BestChild(p, Order)
  <2>1. FollowUps(p) # <<>>
    <3>1. Len(<<>>) = 0
      OBVIOUS
    <3> QED
      BY <1>11, <3>1
  <2> QED
    BY <2>1, ChildBest
<1>13. /\ q \in 0..N /\ e \in Deep(q) /\ LastIn(FollowUps(p), Deep(q), e)
       /\ \A n \in 0..N, i \in 1..Len(FollowUps(p)) : FollowUps(p)[i] \in Deep(n) => n <= q
  BY <1>12 DEF IsBest, Deepest, LastIn, N
<1>14. r - 1 <= q
  BY <1>8, <1>10, <1>11, <1>13
<1>15. q + 1 <= r
  <2>1. PICK i \in 1..Len(FollowUps(p)) : FollowUps(p)[i] = e
    BY <1>13 DEF LastIn
  <2>2. \A y \in 1..Len(FollowUps(p)) : \E l \in 1..Len(found) :
           FollowUps(p)[y] = found[l] /\ found[l].prev = p
    BY FollowUpsAre
  <2>3. PICK l \in 1..N : e = found[l] /\ found[l].prev = p
    BY <2>1, <2>2 DEF N
  <2> QED
    BY <1>5, <1>7, <1>13, <2>3
<1>16. q = r - 1
  BY <1>4, <1>8, <1>13, <1>14, <1>15
<1>17. ASSUME NEW i \in 1..Len(list), NEW l \in 1..N, i > k, found[l].prev = list[i].hash
       PROVE  found[l] \notin Deep(r - 1)
  <2> SUFFICES ASSUME found[l] \in Deep(r - 1) PROVE FALSE
    OBVIOUS
  <2>1. list[i] \in Deep(r)
    BY <1>7, <1>8, <1>17
  <2>2. i <= k
    BY <1>5, <2>1
  <2> QED
    BY <1>17, <2>2
<1>18. LastIn(Above(list), Deep(r - 1), e)
  BY <1>3, <1>5, <1>13, <1>16, <1>17
<1>19. Deepest(Above(list), r - 1)
  <2>1. ASSUME NEW n \in 0..N, NEW i \in 1..Len(Above(list)), Above(list)[i] \in Deep(n)
        PROVE  n <= r - 1
    <3>1. PICK l \in 1..N, a \in 1..Len(list) :
              Above(list)[i] = found[l] /\ found[l].prev = list[a].hash
      BY <1>3
    <3>2. n + 1 <= r
      BY <1>7, <2>1, <3>1
    <3> QED
      BY <1>4, <3>2
  <2> QED
    BY <1>8, <2>1 DEF Deepest, N
<1> QED
  BY <1>12, <1>18, <1>19 DEF IsBest

-----------------------------------------------------------------------------
(* The heights, as they are built.                                         *)

\* A height, its blocks marked.
Mark(list) ==
    [i \in DOMAIN list |->
        [block |-> list[i],
         mainChain |-> \/ list[i].hash = Chain!Best(Hashes(list), Hashes(found))
                       \/ list[i].hash \in garbage]]
Heights == Seq([block : Entry, mainChain : BOOLEAN])

\* at[h]: the blocks of height h, up to the one that is looked at next.
LevelsAre(at) ==
    /\ at[1] = FollowUps(ZeroHash)
    /\ \A h \in 1..Len(byHeight) :
          at[h] # <<>> /\ byHeight[h] = Mark(at[h]) /\ at[h + 1] = Above(at[h])
    /\ level = at[Len(byHeight) + 1]

LevelsInv ==
    /\ byHeight \in Seq(Heights)
    /\ IF ScanDone THEN \E at \in [1..Len(byHeight) + 1 -> Seq(Entry)] : LevelsAre(at)
       ELSE byHeight = <<>>

\* What is marked depends on what is found only.
LEMMA SameMarks ==
    ASSUME UNCHANGED <<found, garbage>>
    PROVE  /\ \A p : FollowUps(p)' = FollowUps(p)
           /\ \A list : Above(list)' = Above(list) /\ Mark(list)' = Mark(list)
<1>1. \A p : FollowUps(p)' = FollowUps(p)
  BY DEF FollowUps
<1>2. \A list : Above(list)' = Above(list)
  BY <1>1 DEF Above
<1>3. \A list : Mark(list)' = Mark(list)
  BY DEF Mark
<1> QED
  BY <1>1, <1>2, <1>3

\* A step that leaves the heights and what is found alone keeps them.
LEMMA LevelsKept ==
    ASSUME LevelsInv, UNCHANGED <<found, garbage, level, byHeight>>, ScanDone, ScanDone'
    PROVE  LevelsInv'
<1>1. PICK at \in [1..Len(byHeight) + 1 -> Seq(Entry)] : LevelsAre(at)
  BY DEF LevelsInv
<1>2. LevelsAre(at)'
  BY <1>1, SameMarks DEF LevelsAre
<1>3. (byHeight \in Seq(Heights))'
  BY DEF LevelsInv, Heights
<1> QED
  BY <1>1, <1>2, <1>3 DEF LevelsInv

\* A marked height has the blocks of the list.
LEMMA MarkIs ==
    ASSUME NEW list \in Seq(Entry)
    PROVE  /\ Mark(list) \in Heights /\ DOMAIN Mark(list) = 1..Len(list)
           /\ Len(Mark(list)) = Len(list) /\ DOMAIN list = 1..Len(list)
           /\ \A i \in 1..Len(list) :
                 /\ Mark(list)[i].block = list[i]
                 /\ Mark(list)[i].mainChain <=>
                       \/ list[i].hash = Chain!Best(Hashes(list), Hashes(found))
                       \/ list[i].hash \in garbage
<1> DEFINE R(i) == [block |-> list[i],
                    mainChain |-> \/ list[i].hash = Chain!Best(Hashes(list), Hashes(found))
                                  \/ list[i].hash \in garbage]
<1> HIDE DEF Entry
<1>1. Len(list) \in Nat /\ DOMAIN list = 1..Len(list) /\ \A i \in 1..Len(list) : list[i] \in Entry
  OBVIOUS
<1>2. Mark(list) = [i \in 1..Len(list) |-> R(i)]
  BY <1>1 DEF Mark
<1>3. \A i \in 1..Len(list) : R(i) \in [block : Entry, mainChain : BOOLEAN]
  BY <1>1
<1>4. \A i \in 1..Len(list) : /\ R(i).block = list[i]
                              /\ R(i).mainChain <=>
                                    \/ list[i].hash = Chain!Best(Hashes(list), Hashes(found))
                                    \/ list[i].hash \in garbage
  OBVIOUS
<1> HIDE DEF R
<1>5. Mark(list) \in Seq([block : Entry, mainChain : BOOLEAN]) /\ Len(Mark(list)) = Len(list)
  BY <1>1, <1>2, <1>3
<1>6. DOMAIN Mark(list) = 1..Len(list) /\ \A i \in 1..Len(list) : Mark(list)[i] = R(i)
  BY <1>2
<1> QED
  BY <1>1, <1>4, <1>5, <1>6 DEF Heights

\* The first height is that of the blocks that follow none.
LEMMA StartLevelsStarts ==
    ASSUME FoundTrue, LevelsInv, StartLevels
    PROVE  LevelsInv'
<1>1. byHeight = <<>> /\ UNCHANGED <<found, byHeight>> /\ level' = FollowUps(ZeroHash) /\ ScanDone'
  BY DEF StartLevels, collectVars, LevelsInv, ScanDone
<1>2. Len(byHeight) = 0 /\ (byHeight \in Seq(Heights))'
  BY <1>1 DEF LevelsInv, Heights
<1> DEFINE at == [h \in 1..1 |-> FollowUps(ZeroHash)]
<1>3. FollowUps(ZeroHash) \in Seq(Entry) /\ FollowUps(ZeroHash)' = FollowUps(ZeroHash)
  <2>1. FollowUps(ZeroHash) \in Seq(Entry)
    BY FollowUpsAre
  <2>2. FollowUps(ZeroHash)' = FollowUps(ZeroHash)
    BY <1>1 DEF FollowUps
  <2> QED
    BY <2>1, <2>2
<1>4. PICK f \in [1..1 -> Seq(Entry)] : f[1] = FollowUps(ZeroHash)
  <2> HIDE DEF Entry
  <2>1. at \in [1..1 -> Seq(Entry)] /\ at[1] = FollowUps(ZeroHash)
    BY <1>3
  <2> QED
    BY <2>1
<1>5. LevelsAre(f)'
  <2>1. 1..Len(byHeight) = {} /\ Len(byHeight) + 1 = 1
    BY <1>2
  <2> QED
    BY <1>1, <1>3, <1>4, <2>1 DEF LevelsAre
<1>6. 1..Len(byHeight') + 1 = 1..1
  BY <1>1, <1>2
<1> QED
  BY <1>1, <1>2, <1>4, <1>5, <1>6 DEF LevelsInv

\* A height is put on those below it.
LEMMA NextLevelKeeps ==
    ASSUME FoundTrue, LevelsInv, NextLevel
    PROVE  LevelsInv'
<1>1. /\ step = "level" /\ level # <<>> /\ byHeight' = Append(byHeight, Mark(level))
      /\ level' = Above(level) /\ UNCHANGED <<found, garbage, step>>
  BY DEF NextLevel, Mark, scanVars
<1>2. ScanDone /\ ScanDone'
  BY <1>1 DEF ScanDone
<1>3. PICK at \in [1..Len(byHeight) + 1 -> Seq(Entry)] : LevelsAre(at)
  BY <1>2 DEF LevelsInv
<1>4. PICK H \in Nat : H = Len(byHeight)
  BY DEF LevelsInv
<1>5. /\ H + 1 \in 1..H + 1 /\ level = at[H + 1] /\ level \in Seq(Entry)
      /\ at \in [1..H + 1 -> Seq(Entry)]
  <2> HIDE DEF Entry
  <2> QED
    BY <1>3, <1>4 DEF LevelsAre
<1>6. Mark(level) \in Heights
  BY <1>5, MarkIs
<1>7. Above(level) \in Seq(Entry)
  BY <1>5, AboveAre
<1>8. /\ byHeight' \in Seq(Heights) /\ Len(byHeight') = H + 1
      /\ byHeight'[H + 1] = Mark(level)
      /\ \A h \in 1..H : byHeight'[h] = byHeight[h]
  <2>1. byHeight \in Seq(Heights)
    BY DEF LevelsInv
  <2> HIDE DEF Heights
  <2> QED
    BY <1>1, <1>4, <1>6, <2>1
<1> HIDE DEF Entry
<1>9. PICK up \in Seq(Entry) : up = Above(level)
  BY <1>7
<1> DEFINE f == [h \in 1..H + 2 |-> IF h = H + 2 THEN up ELSE at[h]]
<1>10. /\ f \in [1..H + 2 -> Seq(Entry)] /\ f[H + 2] = up
       /\ \A h \in 1..H + 1 : f[h] = at[h]
  BY <1>5
<1> HIDE DEF f
<1>11. /\ \A p : FollowUps(p)' = FollowUps(p)
       /\ \A list : Above(list)' = Above(list) /\ Mark(list)' = Mark(list)
  BY <1>1, SameMarks
<1>12. LevelsAre(f)'
  <2>1. f[1] = FollowUps(ZeroHash)
    <3>1. 1 \in 1..H + 1
      BY <1>4
    <3> QED
      BY <1>3, <1>10, <3>1 DEF LevelsAre
  <2>2. ASSUME NEW h \in 1..H + 1
        PROVE  f[h] # <<>> /\ byHeight'[h] = Mark(f[h]) /\ f[h + 1] = Above(f[h])
    <3>1. CASE h = H + 1
      <4>1. f[h] = level /\ h + 1 = H + 2
        BY <1>5, <1>10, <3>1
      <4> QED
        BY <1>1, <1>8, <1>9, <1>10, <3>1, <4>1
    <3>2. CASE h # H + 1
      <4>1. h \in 1..H /\ h + 1 \in 1..H + 1
        BY <1>4, <3>2
      <4> QED
        BY <1>3, <1>4, <1>8, <1>10, <4>1 DEF LevelsAre
    <3> QED
      BY <3>1, <3>2
  <2>3. Len(byHeight') + 1 = H + 2
    BY <1>8
  <2> QED
    BY <1>1, <1>8, <1>9, <1>10, <1>11, <2>1, <2>2, <2>3 DEF LevelsAre
<1>13. 1..Len(byHeight') + 1 = 1..H + 2
  BY <1>8
<1>14. \E g \in [1..Len(byHeight') + 1 -> Seq(Entry)] : LevelsAre(g)'
  BY <1>10, <1>12, <1>13
<1> QED
  BY <1>2, <1>8, <1>14 DEF LevelsInv, Heights, Entry

\* The heights stay as they are meant to be through every step of the dump.
LEMMA NextLevels == FilesInv /\ LevelsInv /\ [Next]_vars => LevelsInv'
<1> SUFFICES ASSUME FilesInv, LevelsInv, [Next]_vars PROVE LevelsInv'
  OBVIOUS
<1>0. FoundTrue
  BY FilesInvMeansTrue
<1>1. CASE StartLevels
  BY <1>0, <1>1, StartLevelsStarts
<1>2. CASE NextLevel
  BY <1>0, <1>2, NextLevelKeeps
<1>3. CASE Scan
  <2>1. step \in {"open", "magic", "block"} /\ step' \in {"open", "magic", "block"}
    BY <1>3 DEF Scan, ScanStep, OpenFile, moveNext, scanNextBlock
  <2>2. byHeight = <<>> /\ byHeight' = byHeight /\ ~ScanDone'
    BY <1>3, <2>1 DEF Scan, dumpVars, LevelsInv, ScanDone
  <2> QED
    BY <2>2 DEF LevelsInv, Heights
<1>4. CASE LevelsDone \/ SingleBlock \/ ContinueRun \/ StartRun \/ Finish
  <2>1. UNCHANGED <<found, garbage, level, byHeight>>
    BY <1>4 DEF LevelsDone, SingleBlock, ContinueRun, StartRun, Finish, dumpVars, scanVars
  <2>2. step \in {"level", "collect"}
    BY <1>4 DEF LevelsDone, SingleBlock, ContinueRun, StartRun, Finish, AtHeight
  <2>3. step' \in {"collect", "done", "aborted"}
    <3>1. CASE SingleBlock \/ ContinueRun
      BY <3>1 DEF SingleBlock, ContinueRun, AtHeight, scanVars
    <3>2. CASE LevelsDone \/ StartRun \/ Finish
      BY <3>2, Zenon DEF LevelsDone, StartRun, Finish, analyzeDoubleBlocks
    <3> QED
      BY <1>4, <3>1, <3>2
  <2> QED
    BY <2>1, <2>2, <2>3, LevelsKept DEF ScanDone
<1>5. CASE Daemon \/ UNCHANGED vars
  <2>1. UNCHANGED <<found, garbage, level, byHeight, step>>
    BY <1>5 DEF Daemon, DaemonWrites, vars, dumpVars, scanVars
  <2>2. CASE ScanDone
    BY <2>1, <2>2, LevelsKept DEF ScanDone
  <2>3. CASE ~ScanDone
    BY <2>1, <2>3 DEF LevelsInv, Heights, ScanDone
  <2> QED
    BY <2>2, <2>3
<1> QED
  BY <1>1, <1>2, <1>3, <1>4, <1>5 DEF Next, Dump

-----------------------------------------------------------------------------
(* The marks, and the walk that indexes.                                   *)

\* What each height has for its best block, and that the walk gets there.
LEMMA BestsAre ==
    ASSUME FoundTrue, byHeight \in Seq(Heights),
           NEW at \in [1..Len(byHeight) + 1 -> Seq(Entry)], LevelsAre(at),
           NEW h \in 1..Len(byHeight)
    PROVE  /\ AllFound(at[h])
           /\ \E i \in 1..Len(at[h]) :
                 /\ at[h][i].hash = Chain!Best(Hashes(at[h]), Hashes(found))
                 /\ at[h][i].prev = IF h = 1 THEN ZeroHash
                                    ELSE Chain!Best(Hashes(at[h - 1]), Hashes(found))
           /\ Chain!Best(Hashes(at[h]), Hashes(found)) =
                 Chain!BestChild(IF h = 1 THEN ZeroHash
                                 ELSE Chain!Best(Hashes(at[h - 1]), Hashes(found)), Order)
<1> DEFINE H == Len(byHeight)
           best(n) == Chain!Best(Hashes(at[n]), Hashes(found))
           below(n) == IF n = 1 THEN ZeroHash ELSE best(n - 1)
           Good(n) == /\ AllFound(at[n])
                      /\ \E r, e : /\ IsBest(at[n], r, e) /\ e.prev = below(n)
                                   /\ e.hash = Chain!BestChild(below(n), Order)
<1>1. /\ H \in Nat /\ at[1] = FollowUps(ZeroHash)
      /\ \A n \in 1..H : at[n] # <<>> /\ at[n + 1] = Above(at[n])
      /\ \A n \in 1..H + 1 : at[n] \in Seq(Entry)
  <2>1. H \in Nat
    OBVIOUS
  <2> HIDE DEF Entry
  <2> QED
    BY <2>1 DEF LevelsAre
<1>2. \A n \in 1..H : Good(n) => \E r, e : IsBest(at[n], r, e) /\ e.hash = best(n)
  <2> SUFFICES ASSUME NEW n \in 1..H, Good(n)
               PROVE  \E r, e : IsBest(at[n], r, e) /\ e.hash = best(n)
    OBVIOUS
  <2>1. PICK r, e : IsBest(at[n], r, e)
    OBVIOUS
  <2>2. PICK list \in Seq(Entry) : list = at[n]
    BY <1>1
  <2>3. Chain!Best(Hashes(list), Hashes(found)) = e.hash
    BY <2>1, <2>2, BestIs
  <2> QED
    BY <2>1, <2>2, <2>3
<1> DEFINE T == {n \in Nat : n + 1 <= H => Good(n + 1)}
<1>3. 0 \in T
  <2> SUFFICES ASSUME 1 <= H PROVE Good(1)
    <3>1. 0 + 1 = 1
      OBVIOUS
    <3> HIDE DEF Good
    <3> QED
      BY <3>1
  <2>1. 1 \in 1..H
    BY <1>1
  <2>2. FollowUps(ZeroHash) # <<>> /\ at[1] = FollowUps(ZeroHash)
    BY <1>1, <2>1
  <2>3. \E r, e : /\ IsBest(FollowUps(ZeroHash), r, e) /\ e.prev = ZeroHash
                  /\ e.hash = Chain!BestChild(ZeroHash, Order)
    BY <2>2, ChildBest
  <2>4. AllFound(FollowUps(ZeroHash))
    <3>1. /\ FollowUps(ZeroHash) \in Seq(Entry)
          /\ \A i \in 1..Len(FollowUps(ZeroHash)) : \E k \in 1..Len(found) :
                FollowUps(ZeroHash)[i] = found[k]
      BY FollowUpsAre
    <3> QED
      BY <3>1 DEF AllFound
  <2> QED
    BY <2>2, <2>3, <2>4
<1>4. ASSUME NEW n \in Nat, n \in T PROVE n + 1 \in T
  <2>1. PICK m : m = n + 1
    OBVIOUS
  <2> SUFFICES ASSUME m + 1 <= H PROVE Good(m + 1)
    <3> HIDE DEF Good
    <3> QED
      BY <2>1
  <2>2. m \in 1..H /\ m + 1 \in 1..H /\ m + 1 # 1 /\ (m + 1) - 1 = m
    BY <1>1, <2>1
  <2>3. Good(m)
    <3> HIDE DEF Good
    <3> QED
      BY <1>4, <2>1, <2>2
  <2>4. PICK r, w : IsBest(at[m], r, w) /\ w.hash = best(m)
    BY <1>2, <2>2, <2>3
  <2>5. PICK list \in Seq(Entry) : list = at[m]
    BY <1>1, <2>2
  <2>6. AllFound(list) /\ IsBest(list, r, w) /\ Above(list) # <<>> /\ at[m + 1] = Above(list)
    BY <1>1, <2>2, <2>3, <2>4, <2>5
  <2>7. PICK e : /\ IsBest(Above(list), r - 1, e) /\ e.prev = w.hash
                 /\ e.hash = Chain!BestChild(w.hash, Order)
    BY <2>6, StepBest
  <2>8. AllFound(at[m + 1])
    <3>1. /\ Above(list) \in Seq(Entry)
          /\ \A i \in 1..Len(Above(list)) : \E k \in 1..Len(list), l \in 1..Len(found) :
                Above(list)[i] = found[l]
      BY AboveAre
    <3> QED
      BY <2>6, <3>1 DEF AllFound
  <2>9. below(m + 1) = w.hash
    BY <2>2, <2>4
  <2> QED
    BY <2>6, <2>7, <2>8, <2>9
<1>5. Good(h)
  <2>1. h - 1 \in Nat /\ (h - 1) + 1 = h /\ h <= H
    BY <1>1
  <2> HIDE DEF Good, T
  <2>2. h - 1 \in T
    BY <1>3, <1>4, <2>1, Induction
  <2> QED
    BY <2>1, <2>2 DEF T
<1>6. PICK r, e : /\ IsBest(at[h], r, e) /\ e.prev = below(h)
                  /\ e.hash = Chain!BestChild(below(h), Order)
  BY <1>5
<1>7. PICK list \in Seq(Entry) : list = at[h]
  <2>1. h \in 1..H + 1
    BY <1>1
  <2> QED
    BY <1>1, <2>1
<1>8. best(h) = e.hash
  BY <1>6, <1>7, BestIs
<1>9. \E i \in 1..Len(at[h]) : at[h][i] = e
  BY <1>6 DEF IsBest, LastIn
<1> QED
  BY <1>5, <1>6, <1>8, <1>9

\* The walk goes through the best block of each height.
LEMMA WalkIs ==
    ASSUME FoundTrue, byHeight \in Seq(Heights),
           NEW at \in [1..Len(byHeight) + 1 -> Seq(Entry)], LevelsAre(at),
           NEW h \in 1..Len(byHeight)
    PROVE  /\ DOMAIN Walk = 1..Len(byHeight)
           /\ Walk[h] = Chain!Best(Hashes(at[h]), Hashes(found))
<1> DEFINE H == Len(byHeight)
           best(n) == Chain!Best(Hashes(at[n]), Hashes(found))
           up(p) == Chain!BestChild(p, Hashes(found))
           On(s, n) == Append(s, up(IF n = 1 THEN ZeroHash ELSE s[n - 1]))
           Rec(g) == g = [n \in 0..H |-> IF n = 0 THEN <<>> ELSE On(g[n - 1], n)]
           f == [n \in 0..H |-> [i \in 1..n |-> best(i)]]
<1>1. H \in Nat /\ \A n \in 1..H : best(n) = up(IF n = 1 THEN ZeroHash ELSE best(n - 1))
  <2>1. H \in Nat
    OBVIOUS
  <2>2. \A n \in 1..H : best(n) = up(IF n = 1 THEN ZeroHash ELSE best(n - 1))
    BY BestsAre DEF Order
  <2> QED
    BY <2>1, <2>2
<1> HIDE DEF best, up
<1>2. \A n \in 1..H : f[n] = On(f[n - 1], n)
  <2> SUFFICES ASSUME NEW n \in 1..H PROVE f[n] = On(f[n - 1], n)
    OBVIOUS
  <2> DEFINE X == {best(i) : i \in 1..H}
  <2>1. PICK m \in Nat : n = m + 1
    <3>1. n - 1 \in Nat /\ n = (n - 1) + 1
      BY <1>1
    <3> QED
      BY <3>1
  <2>2. n - 1 = m /\ m \in 0..H /\ n \in 0..H
    BY <1>1, <2>1
  <2>3. PICK s : s = [i \in 1..m |-> best(i)]
    OBVIOUS
  <2>4. f[n - 1] = s /\ f[n] = [i \in 1..m + 1 |-> best(i)]
    BY <2>1, <2>2, <2>3
  <2>5. \A i \in 1..m : best(i) \in X
    BY <2>2
  <2>6. up(IF n = 1 THEN ZeroHash ELSE s[n - 1]) = best(n)
    <3>1. CASE n = 1
      BY <1>1, <3>1
    <3>2. CASE n # 1
      <4>1. m \in 1..m
        BY <2>1, <3>2
      <4>2. s[n - 1] = best(n - 1)
        BY <2>2, <2>3, <4>1
      <4> QED
        BY <1>1, <3>2, <4>2
    <3> QED
      BY <3>1, <3>2
  <2>7. best(n) \in X
    OBVIOUS
  <2> HIDE DEF X
  <2>8. s \in Seq(X) /\ Len(s) = m /\ DOMAIN s = 1..m
    BY <2>3, <2>5
  <2>9. PICK b \in X : b = best(n)
    BY <2>7
  <2>10. /\ DOMAIN Append(s, b) = 1..m + 1 /\ Append(s, b)[m + 1] = b
         /\ \A i \in 1..m : Append(s, b)[i] = s[i]
         /\ Append(s, b) = [i \in 1..m + 1 |-> Append(s, b)[i]]
    <3>1. Append(s, b) \in Seq(X) /\ Len(Append(s, b)) = m + 1
      BY <2>8
    <3>2. DOMAIN Append(s, b) = 1..m + 1
      BY <3>1
    <3>3. Append(s, b) = [i \in 1..m + 1 |-> Append(s, b)[i]]
      <4>1. PICK u \in Seq(X) : u = Append(s, b)
        BY <3>1
      <4>2. u = [i \in 1..Len(u) |-> u[i]]
        OBVIOUS
      <4> QED
        BY <3>1, <4>1, <4>2
    <3> QED
      BY <2>8, <3>2, <3>3
  <2>11. \A i \in 1..m + 1 : Append(s, b)[i] = best(i)
    <3> SUFFICES ASSUME NEW i \in 1..m + 1 PROVE Append(s, b)[i] = best(i)
      OBVIOUS
    <3>1. CASE i \in 1..m
      BY <2>3, <2>10, <3>1
    <3>2. CASE i \notin 1..m
      <4>1. i = n
        BY <2>1, <3>2
      <4> QED
        BY <2>1, <2>9, <2>10, <4>1
    <3> QED
      BY <3>1, <3>2
  <2>12. Append(s, b) = f[n]
    BY <2>4, <2>10, <2>11
  <2> QED
    BY <2>4, <2>6, <2>9, <2>12
<1>3. f[0] = <<>>
  BY <1>1
<1> HIDE DEF On
<1>4. Rec(f)
  <2>1. \A n \in 0..H : n = 0 \/ n \in 1..H
    BY <1>1
  <2>2. \A n \in 0..H : f[n] = IF n = 0 THEN <<>> ELSE On(f[n - 1], n)
    BY <1>2, <1>3, <2>1
  <2>3. f = [n \in 0..H |-> f[n]]
    OBVIOUS
  <2> HIDE DEF f, H
  <2> QED
    BY <2>2, <2>3
<1> DEFINE walk == CHOOSE g : Rec(g)
<1>5. Walk = walk[H]
  BY DEF Walk, On, up
<1>6. Rec(walk)
  <2> HIDE DEF Rec, f
  <2> QED
    BY <1>4
<1> HIDE DEF walk, f
<1>7. walk[0] = <<>> /\ \A n \in 1..H : walk[n] = On(walk[n - 1], n)
  <2>1. 0 \in 0..H /\ \A n \in 1..H : n \in 0..H /\ n # 0
    BY <1>1
  <2> HIDE DEF H
  <2> QED
    BY <1>6, <2>1
<1> HIDE DEF Rec
<1> DEFINE T == {n \in Nat : n <= H => walk[n] = f[n]}
<1>8. 0 \in T
  BY <1>3, <1>7
<1>9. ASSUME NEW n \in Nat, n \in T PROVE n + 1 \in T
  <2> SUFFICES ASSUME n + 1 <= H PROVE walk[n + 1] = f[n + 1]
    OBVIOUS
  <2>1. PICK m : m = n + 1
    OBVIOUS
  <2>2. m \in 1..H /\ m - 1 = n /\ n <= H
    BY <1>1, <2>1
  <2>3. walk[n] = f[n]
    BY <1>9, <2>2
  <2> QED
    BY <1>2, <1>7, <2>1, <2>2, <2>3
<1>10. walk[H] = f[H]
  <2>1. H \in T
    <3> HIDE DEF T
    <3> QED
      BY <1>1, <1>8, <1>9, Induction
  <2> QED
    BY <1>1, <2>1
<1>11. DOMAIN f[H] = 1..H /\ f[H][h] = best(h)
  <2>1. H \in 0..H
    BY <1>1
  <2> QED
    BY <2>1 DEF f
<1> QED
  BY <1>5, <1>10, <1>11 DEF best

\* So the marked blocks are those of the walk.
LEMMA LevelsMeanMarked == FilesInv /\ LevelsInv => MarksTheIndexedChain
<1> SUFFICES ASSUME FilesInv, LevelsInv, Dumped,
                    NEW h \in DOMAIN byHeight
             PROVE  LET walk == Walk
                        marked == {e.block.hash : e \in {x \in ToSet(byHeight[h]) : x.mainChain}}
                    IN  walk[h] \in marked /\ marked \ garbage \subseteq {walk[h]}
  BY DEF MarksTheIndexedChain
<1>1. FoundTrue /\ ScanDone /\ byHeight \in Seq(Heights) /\ h \in 1..Len(byHeight)
  BY FilesInvMeansTrue DEF Dumped, ScanDone, LevelsInv
<1>2. PICK at \in [1..Len(byHeight) + 1 -> Seq(Entry)] : LevelsAre(at)
  BY <1>1 DEF LevelsInv
<1>3. PICK list \in Seq(Entry) : list = at[h]
  <2>1. h \in 1..Len(byHeight) + 1
    BY <1>1
  <2> HIDE DEF Entry
  <2> QED
    BY <1>2, <2>1
<1>4. byHeight[h] = Mark(list)
  BY <1>1, <1>2, <1>3 DEF LevelsAre
<1>5. PICK best : best = Chain!Best(Hashes(list), Hashes(found))
  OBVIOUS
<1>6. Walk[h] = best /\ \E i \in 1..Len(list) : list[i].hash = best
  BY <1>1, <1>2, <1>3, <1>5, WalkIs, BestsAre
<1>7. /\ DOMAIN Mark(list) = 1..Len(list)
      /\ \A i \in 1..Len(list) :
            /\ Mark(list)[i].block = list[i]
            /\ Mark(list)[i].mainChain <=> list[i].hash = best \/ list[i].hash \in garbage
  BY <1>5, MarkIs
<1> DEFINE marked == {e.block.hash : e \in {x \in ToSet(byHeight[h]) : x.mainChain}}
<1>8. \A b : b \in marked <=>
         \E i \in 1..Len(list) : list[i].hash = b /\ (b = best \/ b \in garbage)
  <2>1. ToSet(byHeight[h]) = {Mark(list)[i] : i \in 1..Len(list)}
    BY <1>4, <1>7 DEF ToSet
  <2> QED
    BY <1>7, <2>1
<1> HIDE DEF marked
<1>9. best \in marked /\ marked \ garbage \subseteq {best}
  BY <1>6, <1>8
<1> QED
  BY <1>6, <1>9 DEF marked

-----------------------------------------------------------------------------
(* Where the entries stand.                                                *)

\* No two entries name one place, and the scan is behind those of its file.
PlacesAre ==
    /\ \A i, j \in 1..Len(found) :
          found[i].file = found[j].file /\ found[i].at = found[j].at => i = j
    /\ \A i \in 1..Len(found) :
          /\ found[i].file \notin pending
          /\ Scanning /\ found[i].file = file => found[i].at < pos

\* Each entry is of a place of its own, as the scan goes through a file once and
\* forwards.
LEMMA PlacesKept == FilesInv /\ PlacesAre /\ [Next]_vars => PlacesAre'
<1> SUFFICES ASSUME FilesInv, PlacesAre, [Next]_vars PROVE PlacesAre'
  OBVIOUS
<1>1. /\ found \in Seq(Entry) /\ Len(found) \in Nat /\ DOMAIN found = 1..Len(found)
      /\ \A i \in 1..Len(found) : found[i].at \in Nat /\ found[i].file \in Files
      /\ Scanning => pos \in Nat /\ file \notin pending
      /\ step = "block" => NumberAt(file, pos) \in Nat \ {0}
  BY ScanPlace
<1> HIDE DEF Entry
<1>2. ASSUME NEW f \in Files, OpenFile(f) PROVE PlacesAre'
  BY <1>2 DEF OpenFile, PlacesAre
<1>3. CASE moveNext
  <2>1. /\ UNCHANGED <<pending, file, found>> /\ pos' = pos + 1 /\ Scanning
    BY <1>3 DEF moveNext, Scanning
  <2>2. \A i \in 1..Len(found) : found[i].file = file => found[i].at < pos + 1
    BY <1>1, <2>1 DEF PlacesAre
  <2> QED
    BY <2>1, <2>2 DEF PlacesAre
<1>4. CASE scanNextBlock
  <2>0. PICK q \in Nat : q = pos + 1
    BY <1>1, <1>4 DEF scanNextBlock, Scanning
  <2>1. PICK e : e = Scanned(q)
    OBVIOUS
  <2>2. /\ UNCHANGED <<pending, file>> /\ Scanning /\ step = "block"
        /\ pos' = q + NumberAt(file, pos) /\ found' = Keep(e)
        /\ e.file = file /\ e.at = q
    BY <1>4, <2>0, <2>1 DEF scanNextBlock, Scanning, Scanned
  <2>3. q < pos' /\ \A i \in 1..Len(found) : found[i].file = file => found[i].at < q
    BY <1>1, <2>0, <2>2 DEF PlacesAre
  <2>4. \A i \in 1..Len(found) : found[i].file = file => found[i].at < pos'
    BY <1>1, <2>0, <2>2, <2>3
  <2>5. CASE found' = found
    BY <2>2, <2>4, <2>5 DEF PlacesAre
  <2>6. CASE found' = Append(found, e)
    <3>1. /\ Len(found') = Len(found) + 1 /\ found'[Len(found) + 1] = e
          /\ \A i \in 1..Len(found) : found'[i] = found[i]
      BY <1>1, <2>6
    <3>2. \A i \in 1..Len(found') : i \in 1..Len(found) \/ i = Len(found) + 1
      BY <1>1, <3>1
    <3>3. ASSUME NEW i \in 1..Len(found') PROVE
              /\ found'[i].file \notin pending
              /\ found'[i].file = file => found'[i].at < pos'
      <4>1. CASE i \in 1..Len(found)
        BY <2>4, <3>1, <4>1 DEF PlacesAre
      <4>2. CASE i = Len(found) + 1
        BY <1>1, <2>2, <2>3, <3>1, <4>2
      <4> QED
        BY <3>2, <4>1, <4>2
    <3>4. \A i \in 1..Len(found) : found[i].file = e.file => found[i].at # e.at
      BY <1>1, <2>0, <2>2, <2>3
    <3>5. ASSUME NEW i \in 1..Len(found'), NEW j \in 1..Len(found'),
                 found'[i].file = found'[j].file, found'[i].at = found'[j].at
          PROVE  i = j
      <4>1. CASE i \in 1..Len(found) /\ j \in 1..Len(found)
        BY <3>1, <3>5, <4>1 DEF PlacesAre
      <4>2. CASE ~(i \in 1..Len(found) /\ j \in 1..Len(found))
        BY <3>1, <3>2, <3>4, <3>5, <4>2
      <4> QED
        BY <4>1, <4>2
    <3>7. pending' = pending /\ file' = file
      BY <2>2
    <3>8. \A i, j \in 1..Len(found') :
              found'[i].file = found'[j].file /\ found'[i].at = found'[j].at => i = j
      BY <3>5, Zenon
    <3>9. \A i \in 1..Len(found') :
              found'[i].file \notin pending /\ (found'[i].file = file => found'[i].at < pos')
      BY <3>3, Zenon
    <3>6. /\ \A i, j \in 1..Len(found') :
                found'[i].file = found'[j].file /\ found'[i].at = found'[j].at => i = j
          /\ \A i \in 1..Len(found') :
                found'[i].file \notin pending' /\ (found'[i].file = file' => found'[i].at < pos')
      BY <3>7, <3>8, <3>9, Zenon
    <3> QED
      BY <3>6, Zenon DEF PlacesAre
  <2>7. found' = found \/ found' = Append(found, e)
    BY <2>2 DEF Keep
  <2> QED
    BY <2>5, <2>6, <2>7
<1>5. CASE Daemon \/ NextLevel \/ SingleBlock \/ ContinueRun \/ UNCHANGED vars
  <2>1. UNCHANGED <<pending, file, pos, step, found>>
    BY <1>5 DEF Daemon, DaemonWrites, NextLevel, SingleBlock, ContinueRun, vars, scanVars
  <2> QED
    BY <2>1 DEF PlacesAre, Scanning
<1>6. CASE StartLevels \/ LevelsDone \/ StartRun \/ Finish
  <2>1. UNCHANGED <<pending, file, pos, found>>
    BY <1>6 DEF StartLevels, LevelsDone, StartRun, Finish
  <2>2. step' \in {"level", "collect", "done", "aborted"}
    BY <1>6, Zenon DEF StartLevels, LevelsDone, StartRun, Finish, analyzeDoubleBlocks
  <2> QED
    BY <2>1, <2>2 DEF PlacesAre, Scanning
<1> QED
  BY <1>2, <1>3, <1>4, <1>5, <1>6 DEF Next, Dump, Scan, ScanStep

LEMMA NoPlaces == Init => PlacesAre
BY DEF Init, ScanInit, PlacesAre, Scanning

\* A header of zeros that has become that of a block meanwhile: this block is
\* found nowhere else.
LEMMA LateHeader ==
    ASSUME FilesInv, PlacesAre, WrittenOnce, NEW i \in 1..Len(found),
           found[i].hash = ZeroHeader, NEW b \in Blocks,
           TokenAt(found[i].file, found[i].at) = Header(b)
    PROVE  ~FoundHash(b)
<1>1. PICK lay \in Layouts, old \in [Files -> Nat], n \in 0..4 :
          FilesAre(lay, n) /\ OldAre(lay, old) /\ ScanIs(lay, old)
  BY DEF FilesInv
<1> SUFFICES ASSUME NEW j \in 1..Len(found), found[j].hash = b PROVE FALSE
  BY DEF FoundHash
<1>2. /\ ZeroHeader \notin Blocks
      /\ \A m \in 1..Len(found) : /\ Noted(found[m], lay[found[m].file])
                                  /\ found[m].file \in Files
  BY <1>1, ScanPlace, FilesAssumption DEF ScanIs
<1>3. PICK f \in Files, g \in Files : f = found[i].file /\ g = found[j].file
  BY <1>2
<1>4. PICK k \in 1..Len(lay[f]) :
          found[i].at = Start(lay[f], k) + 2 /\ k = Len(lay[f])
  <2>1. Noted(found[i], lay[f])
    BY <1>2, <1>3
  <2>2. found[i].hash \notin Blocks
    BY <1>2
  <2>3. \A k \in 1..Len(lay[f]) : lay[f][k] \in Blocks
    BY <1>1, ReadsAre
  <2> QED
    BY <2>1, <2>2, <2>3 DEF Noted
<1>5. PICK m \in 1..Len(lay[g]) : found[j].at = Start(lay[g], m) + 2 /\ lay[g][m] = b
  <2>1. Noted(found[j], lay[g])
    BY <1>2, <1>3
  <2> QED
    BY <1>2, <2>1 DEF Noted
<1>6. lay[f][k] = b
  <2>1. /\ Start(lay[f], k) + 2 <= Len(disk[f]) =>
              TokenAt(f, Start(lay[f], k) + 2) = Header(lay[f][k])
        /\ Start(lay[f], k) + 2 > Len(disk[f]) =>
              TokenAt(f, Start(lay[f], k) + 2) = Number(0)
    BY <1>1, ReadsAre
  <2>2. Start(lay[f], k) + 2 \in Nat /\ Len(disk[f]) \in Nat
    <3>1. lay[f] \in Seq(Blocks) /\ Len(disk[f]) \in Nat
      BY <1>1, DiskIs
    <3>2. Start(lay[f], k) \in Nat
      BY <3>1, WrittenPlaces
    <3> QED
      BY <3>1, <3>2
  <2>3. Number(0) # Header(b)
    BY Kinds
  <2> QED
    BY <1>3, <1>4, <2>1, <2>2, <2>3, Kinds
<1>7. g = f /\ m = k
  <2>1. lay[f] \in Seq(Blocks) /\ lay[g] \in Seq(Blocks)
    BY <1>1, DiskIs
  <2>2. lay[f] # <<>> /\ Last(lay[f]) = b /\ m \in DOMAIN lay[g]
    BY <1>4, <1>6, <2>1 DEF Last
  <2> QED
    BY <1>4, <1>5, <2>2 DEF WrittenOnce
<1>8. i = j
  BY <1>3, <1>4, <1>5, <1>7 DEF PlacesAre
<1> QED
  BY <1>2, <1>8

-----------------------------------------------------------------------------
(* The walk through the heights.                                           *)

\* What the walk has below height h.
Below(h) == IF h = 1 THEN ZeroHash ELSE Walk[h - 1]

\* Block number i of height h.
At(h, i) == byHeight[h][i].block

\* The walk goes from a block to one that follows it, and each height has found
\* blocks that follow blocks of the height below.
LEMMA HeightsAre ==
    ASSUME FilesInv, LevelsInv, ScanDone, NEW h \in 1..Len(byHeight)
    PROVE  /\ DOMAIN Walk = 1..Len(byHeight) /\ Len(byHeight) \in Nat
           /\ \E m \in 1..Len(found) : Walk[h] = found[m].hash /\ found[m].prev = Below(h)
           /\ byHeight[h] \in Heights /\ Len(byHeight[h]) \in Nat
           /\ DOMAIN byHeight[h] = 1..Len(byHeight[h])
           /\ \A i \in 1..Len(byHeight[h]) :
                 /\ \E m \in 1..Len(found) : At(h, i) = found[m]
                 /\ byHeight[h][i].mainChain <=>
                       At(h, i).hash = Walk[h] \/ At(h, i).hash \in garbage
                 /\ h = 1 => At(h, i).prev = ZeroHash
                 /\ h # 1 => \E j \in 1..Len(byHeight[h - 1]) :
                                At(h, i).prev = At(h - 1, j).hash
<1>1. PICK at \in [1..Len(byHeight) + 1 -> Seq(Entry)] : LevelsAre(at)
  BY DEF LevelsInv
<1>2. FoundTrue /\ byHeight \in Seq(Heights) /\ Len(byHeight) \in Nat
  BY FilesInvMeansTrue DEF LevelsInv
<1>3. \A n \in 1..Len(byHeight) :
        /\ DOMAIN Walk = 1..Len(byHeight)
        /\ Walk[n] = Chain!Best(Hashes(at[n]), Hashes(found))
  BY <1>1, <1>2, WalkIs
<1>4. /\ AllFound(at[h])
      /\ \E i \in 1..Len(at[h]) : at[h][i].hash = Walk[h] /\ at[h][i].prev = Below(h)
  <2>1. h # 1 => h - 1 \in 1..Len(byHeight)
    BY <1>2
  <2> HIDE DEF Entry
  <2>2. /\ AllFound(at[h])
        /\ \E i \in 1..Len(at[h]) :
              /\ at[h][i].hash = Chain!Best(Hashes(at[h]), Hashes(found))
              /\ at[h][i].prev = IF h = 1 THEN ZeroHash
                                 ELSE Chain!Best(Hashes(at[h - 1]), Hashes(found))
    BY <1>1, <1>2, BestsAre
  <2> QED
    BY <1>3, <2>1, <2>2 DEF Below
<1>5. PICK list \in Seq(Entry) : list = at[h]
  BY <1>4 DEF AllFound
<1>6. \A n \in 1..Len(byHeight) : byHeight[n] = Mark(at[n]) /\ at[n + 1] = Above(at[n])
  BY <1>1 DEF LevelsAre
<1>7. /\ byHeight[h] \in Heights /\ Len(byHeight[h]) = Len(list)
      /\ DOMAIN byHeight[h] = 1..Len(list)
      /\ \A i \in 1..Len(list) :
            /\ At(h, i) = list[i]
            /\ byHeight[h][i].mainChain <=>
                  \/ list[i].hash = Chain!Best(Hashes(list), Hashes(found))
                  \/ list[i].hash \in garbage
  <2>1. byHeight[h] = Mark(list)
    BY <1>5, <1>6
  <2> QED
    BY <2>1, MarkIs DEF At
<1>8. ASSUME NEW i \in 1..Len(list)
      PROVE  /\ h = 1 => list[i].prev = ZeroHash
             /\ h # 1 => \E j \in 1..Len(byHeight[h - 1]) : list[i].prev = At(h - 1, j).hash
  <2>1. CASE h = 1
    <3>1. list = FollowUps(ZeroHash)
      BY <1>1, <1>5, <2>1 DEF LevelsAre
    <3>2. \A a \in 1..Len(FollowUps(ZeroHash)) : \E k \in 1..Len(found) :
             FollowUps(ZeroHash)[a] = found[k] /\ found[k].prev = ZeroHash
      BY <1>2, FollowUpsAre
    <3> QED
      BY <2>1, <3>1, <3>2
  <2>2. CASE h # 1
    <3>1. PICK g \in 1..Len(byHeight) : g = h - 1 /\ h = g + 1
      BY <1>2, <2>2
    <3>2. PICK low \in Seq(Entry) : low = at[g] /\ list = Above(low)
      <4>1. g \in 1..Len(byHeight) + 1
        BY <1>2
      <4> HIDE DEF Entry
      <4> QED
        BY <1>5, <1>6, <3>1, <4>1
    <3>3. \A a \in 1..Len(Above(low)) : \E k \in 1..Len(low), m \in 1..Len(found) :
             Above(low)[a] = found[m] /\ found[m].prev = low[k].hash
      BY <1>2, AboveAre
    <3>4. PICK k \in 1..Len(low) : list[i].prev = low[k].hash
      <4>1. PICK up : up = Above(low)
        OBVIOUS
      <4>2. \A a \in 1..Len(up) : \E k \in 1..Len(low), m \in 1..Len(found) :
               up[a] = found[m] /\ found[m].prev = low[k].hash
        BY <3>3, <4>1
      <4>3. up = list
        BY <3>2, <4>1
      <4> QED
        BY <4>2, <4>3
    <3>5. Len(byHeight[g]) = Len(low) /\ \A j \in 1..Len(low) : At(g, j) = low[j]
      <4>1. byHeight[g] = Mark(low)
        <5>1. byHeight[g] = Mark(at[g]) /\ low = at[g]
          BY <1>6, <3>2
        <5> QED
          BY <5>1
      <4> QED
        BY <4>1, MarkIs DEF At
    <3> QED
      BY <2>2, <3>1, <3>4, <3>5
  <2> QED
    BY <2>1, <2>2
<1>9. \A i \in 1..Len(list) : \E m \in 1..Len(found) : list[i] = found[m]
  BY <1>4, <1>5 DEF AllFound
<1>10. \E m \in 1..Len(found) : Walk[h] = found[m].hash /\ found[m].prev = Below(h)
  BY <1>4, <1>5, <1>9
<1>11. Len(list) \in Nat
  OBVIOUS
<1>12. \A i \in 1..Len(list) :
         byHeight[h][i].mainChain <=> At(h, i).hash = Walk[h] \/ At(h, i).hash \in garbage
  BY <1>3, <1>5, <1>7
<1>13. ASSUME NEW i \in 1..Len(byHeight[h])
       PROVE  /\ \E m \in 1..Len(found) : At(h, i) = found[m]
              /\ byHeight[h][i].mainChain <=>
                    At(h, i).hash = Walk[h] \/ At(h, i).hash \in garbage
              /\ h = 1 => At(h, i).prev = ZeroHash
              /\ h # 1 => \E j \in 1..Len(byHeight[h - 1]) :
                             At(h, i).prev = At(h - 1, j).hash
  <2>1. i \in 1..Len(list) /\ At(h, i) = list[i]
    BY <1>7
  <2>2. \E m \in 1..Len(found) : At(h, i) = found[m]
    BY <1>9, <2>1
  <2>3. byHeight[h][i].mainChain <=>
           At(h, i).hash = Walk[h] \/ At(h, i).hash \in garbage
    BY <1>12, <2>1
  <2>4. /\ h = 1 => At(h, i).prev = ZeroHash
        /\ h # 1 => \E j \in 1..Len(byHeight[h - 1]) : At(h, i).prev = At(h - 1, j).hash
    BY <1>8, <2>1
  <2> QED
    BY <2>2, <2>3, <2>4
<1> QED
  BY <1>2, <1>3, <1>7, <1>10, <1>11, <1>13

\* A block of the walk stands at its height only.
LEMMA OneHeight ==
    ASSUME FilesInv, LevelsInv, ScanDone, NEW k \in 1..Len(byHeight),
           NEW h \in 1..Len(byHeight), NEW i \in 1..Len(byHeight[h]),
           At(h, i).hash = Walk[k]
    PROVE  h = k
<1> DEFINE H == Len(byHeight)
           Only(n) == \A j \in 1..Len(byHeight[n]), m \in 1..H :
                         At(n, j).hash = Walk[m] => m = n
           T == {n \in Nat : n + 1 <= H => Only(n + 1)}
<1>1. H \in Nat
  BY HeightsAre
<1>2. ASSUME NEW n \in 1..H
      PROVE  /\ Walk[n] \in All /\ PrevOf(Walk[n]) = Below(n)
             /\ \A j \in 1..Len(byHeight[n]) :
                   At(n, j).hash \in All /\ At(n, j).prev = PrevOf(At(n, j).hash)
  <2>1. FoundTrue
    BY FilesInvMeansTrue
  <2>2. \A m \in 1..Len(found) : found[m].hash \in All /\ found[m].prev = PrevOf(found[m].hash)
    BY <2>1, OrderIs
  <2>3. \E m \in 1..Len(found) : Walk[n] = found[m].hash /\ found[m].prev = Below(n)
    BY HeightsAre
  <2>4. \A j \in 1..Len(byHeight[n]) : \E m \in 1..Len(found) : At(n, j) = found[m]
    BY HeightsAre
  <2> QED
    BY <2>2, <2>3, <2>4
<1>3. ZeroHash \notin All
  BY FilesAssumption DEF All
<1>4. 0 \in T
  <2> SUFFICES ASSUME 1 <= H, NEW j \in 1..Len(byHeight[1]), NEW m \in 1..H,
                      At(1, j).hash = Walk[m]
               PROVE  m = 1
    OBVIOUS
  <2>1. 1 \in 1..H
    BY <1>1
  <2>2. At(1, j).prev = ZeroHash
    BY <2>1, HeightsAre
  <2>3. Below(m) = ZeroHash
    BY <1>2, <2>1, <2>2
  <2>4. m # 1 => m - 1 \in 1..H
    BY <1>1
  <2> QED
    BY <1>2, <1>3, <2>3, <2>4 DEF Below
<1>5. ASSUME NEW n \in Nat, n \in T PROVE n + 1 \in T
  <2>1. PICK g \in Nat : g = n + 1
    OBVIOUS
  <2> SUFFICES ASSUME g + 1 <= H, NEW j \in 1..Len(byHeight[g + 1]), NEW m \in 1..H,
                      At(g + 1, j).hash = Walk[m]
               PROVE  m = g + 1
    BY <2>1
  <2>2. PICK u \in 1..H : u = g + 1 /\ g = u - 1 /\ u # 1 /\ g \in 1..H
    BY <1>1, <2>1
  <2>3. Only(g)
    BY <1>1, <1>5, <2>1, <2>2
  <2>4. PICK l \in 1..Len(byHeight[g]) : At(u, j).prev = At(g, l).hash
    <3>1. \A a \in 1..Len(byHeight[u]) : u # 1 =>
             \E l \in 1..Len(byHeight[u - 1]) : At(u, a).prev = At(u - 1, l).hash
      BY HeightsAre
    <3>2. j \in 1..Len(byHeight[u]) /\ u # 1 /\ u - 1 = g
      BY <2>2
    <3> HIDE DEF H, Only, T
    <3> QED
      BY <3>1, <3>2
  <2>5. Below(m) = At(g, l).hash /\ At(g, l).hash \in All
    <3>1. At(u, j).hash = Walk[m] /\ At(u, j).prev = PrevOf(At(u, j).hash)
      BY <1>2, <2>2
    <3>2. PrevOf(Walk[m]) = Below(m)
      BY <1>2
    <3>3. At(g, l).hash \in All
      BY <1>2, <2>2
    <3> QED
      BY <2>4, <3>1, <3>2, <3>3
  <2>6. m # 1 /\ m - 1 \in 1..H /\ Walk[m - 1] = At(g, l).hash
    <3>1. m # 1
      BY <1>3, <2>5 DEF Below
    <3>2. Walk[m - 1] = At(g, l).hash
      BY <2>5, <3>1 DEF Below
    <3>3. m - 1 \in 1..H
      BY <1>1, <3>1
    <3> QED
      BY <3>1, <3>2, <3>3
  <2>7. m - 1 = g
    BY <2>3, <2>6
  <2> QED
    BY <1>1, <2>7
<1>6. Only(h)
  <2>1. h - 1 \in Nat /\ (h - 1) + 1 = h /\ h <= H
    BY <1>1
  <2> HIDE DEF Only, T, H
  <2>2. h - 1 \in T
    BY <1>4, <1>5, <2>1, Induction
  <2> QED
    BY <2>1, <2>2 DEF T
<1> QED
  BY <1>6

-----------------------------------------------------------------------------
(* The walk is a chain, and what is on it and off it.                      *)

\* What is known of found blocks.
LEMMA FoundAre ==
    ASSUME FilesInv
    PROVE  /\ ZeroHash \notin All /\ ZeroHeader \notin Blocks
           /\ \A b \in All : PrevOf(b) \in Blocks \cup {ZeroHash}
           /\ \A m \in 1..Len(found) :
                 found[m].hash \in All /\ found[m].prev = PrevOf(found[m].hash)
           /\ FoundOnce
<1>1. FoundTrue
  BY FilesInvMeansTrue
<1>2. FoundOnce
  BY DEF FilesInv, ScanIs
<1> QED
  BY <1>1, <1>2, OrderIs, FilesAssumption DEF All, PrevOf

\* But for a header of zeros, the walk is a chain.
LEMMA WalkCloses ==
    ASSUME FilesInv, LevelsInv, ScanDone, NEW k \in 1..Len(byHeight)
    PROVE  /\ ToSet(Walk) \ {ZeroHeader} \subseteq Blocks
           /\ \A b \in ToSet(Walk) \ {ZeroHeader} :
                 Prev[b] \in (ToSet(Walk) \ {ZeroHeader}) \cup {ZeroHash}
           /\ Walk[k] \in ToSet(Walk)
           /\ Walk[k] = ZeroHeader => Len(byHeight) = 1
<1>1. Len(byHeight) \in Nat /\ DOMAIN Walk = 1..Len(byHeight)
  BY HeightsAre
<1>2. /\ ZeroHash \notin All /\ ZeroHeader \notin Blocks
      /\ \A b \in All : PrevOf(b) \in Blocks \cup {ZeroHash}
  BY FoundAre
<1>3. \A n \in 1..Len(byHeight) : Walk[n] \in All /\ PrevOf(Walk[n]) = Below(n)
  <2>1. \A n \in 1..Len(byHeight) :
           \E m \in 1..Len(found) : Walk[n] = found[m].hash /\ found[m].prev = Below(n)
    BY HeightsAre
  <2> QED
    BY <2>1, FoundAre
<1>4. ToSet(Walk) = {Walk[n] : n \in 1..Len(byHeight)}
  BY <1>1 DEF ToSet
<1>5. ASSUME NEW b \in ToSet(Walk) \ {ZeroHeader}
      PROVE  b \in Blocks /\ Prev[b] \in (ToSet(Walk) \ {ZeroHeader}) \cup {ZeroHash}
  <2>1. PICK n \in 1..Len(byHeight) : b = Walk[n]
    BY <1>4
  <2>2. b \in Blocks /\ Prev[b] = Below(n)
    BY <1>3, <2>1 DEF All, PrevOf
  <2>3. b \in All /\ PrevOf(b) = Prev[b]
    BY <1>2, <2>2 DEF All, PrevOf
  <2>4. CASE n # 1
    <3>1. n - 1 \in 1..Len(byHeight) /\ Below(n) = Walk[n - 1]
      BY <1>1, <2>4 DEF Below
    <3> QED
      BY <1>2, <1>3, <1>4, <2>2, <2>3, <3>1
  <2>5. CASE n = 1
    BY <2>2, <2>5 DEF Below
  <2> QED
    BY <2>2, <2>4, <2>5
<1>6. ASSUME Walk[k] = ZeroHeader PROVE Len(byHeight) = 1
  <2>1. k = 1
    <3>1. Below(k) = ZeroHash
      BY <1>3, <1>6 DEF PrevOf
    <3>2. k # 1 => k - 1 \in 1..Len(byHeight) /\ Below(k) = Walk[k - 1]
      BY <1>1 DEF Below
    <3> QED
      BY <1>2, <1>3, <3>1, <3>2
  <2>2. CASE Len(byHeight) # 1
    <3>1. 2 \in 1..Len(byHeight) /\ 2 # 1 /\ 2 - 1 = 1
      BY <1>1, <2>1, <2>2
    <3>2. Below(2) = ZeroHeader
      BY <1>6, <2>1, <3>1 DEF Below
    <3>3. PrevOf(Walk[2]) = Below(2) /\ Walk[2] \in All
      BY <1>3, <3>1
    <3> QED
      BY <1>2, <3>2, <3>3, FilesAssumption
  <2> QED
    BY <2>2
<1> QED
  BY <1>4, <1>5, <1>6

\* A block without a mark is not one of the walk.
LEMMA UnmarkedIsOff ==
    ASSUME FilesInv, LevelsInv, PlacesAre, WrittenOnce, ScanDone,
           NEW h \in 1..Len(byHeight), NEW i \in 1..Len(byHeight[h]),
           ~byHeight[h][i].mainChain, NEW b \in Blocks, ReadFrom(b, At(h, i))
    PROVE  b \notin ToSet(Walk)
<1> SUFFICES ASSUME b \in ToSet(Walk) PROVE FALSE
  OBVIOUS
<1>1. DOMAIN Walk = 1..Len(byHeight)
  BY HeightsAre
<1>2. PICK k \in 1..Len(byHeight) : Walk[k] = b
  BY <1>1 DEF ToSet
<1>3. FoundHash(b)
  <2>1. \E m \in 1..Len(found) : Walk[k] = found[m].hash
    BY HeightsAre
  <2> QED
    BY <1>2, <2>1 DEF FoundHash
<1>4. CASE b = At(h, i).hash
  <2>1. h = k
    BY <1>2, <1>4, OneHeight
  <2>2. byHeight[h][i].mainChain <=> At(h, i).hash = Walk[h] \/ At(h, i).hash \in garbage
    BY HeightsAre
  <2> QED
    BY <1>2, <1>4, <2>1, <2>2
<1>5. CASE At(h, i).hash = ZeroHeader /\ TokenAt(At(h, i).file, At(h, i).at) = Header(b)
  <2>1. PICK m \in 1..Len(found) : At(h, i) = found[m]
    BY HeightsAre
  <2> QED
    BY <1>3, <1>5, <2>1, LateHeader
<1> QED
  BY <1>4, <1>5 DEF ReadFrom

\* A marked block that spends something another block spends as well is one of
\* the walk, if no mark was unset.
LEMMA MarkedIsOn ==
    ASSUME FilesInv, LevelsInv, ValidSpends, ScanDone, garbage = {},
           NEW h \in 1..Len(byHeight), NEW i \in 1..Len(byHeight[h]),
           byHeight[h][i].mainChain, NEW b \in Blocks, ReadFrom(b, At(h, i)),
           NEW g \in 1..Len(byHeight), NEW j \in 1..Len(byHeight[g]),
           NEW c \in Blocks, c # b, ReadFrom(c, At(g, j)),
           NEW t \in ToSet(Contents[c]), Inputs[t] # <<>>
    PROVE  b \in ToSet(Walk)
<1>1. At(h, i).hash = Walk[h] /\ Walk[h] \in ToSet(Walk)
  <2>1. byHeight[h][i].mainChain <=> At(h, i).hash = Walk[h] \/ At(h, i).hash \in garbage
    BY HeightsAre
  <2> QED
    BY <2>1, WalkCloses
<1>2. CASE b = At(h, i).hash
  BY <1>1, <1>2
<1>3. CASE At(h, i).hash = ZeroHeader /\ TokenAt(At(h, i).file, At(h, i).at) = Header(b)
  <2>1. Len(byHeight) = 1
    BY <1>1, <1>3, WalkCloses
  <2>2. g = 1
    BY <2>1
  <2>3. At(g, j).prev = ZeroHash /\ \E n \in 1..Len(found) : At(g, j) = found[n]
    BY <2>2, HeightsAre
  <2>4. PICK n \in 1..Len(found) : At(g, j) = found[n]
    BY <2>3
  <2>5. PICK m \in 1..Len(found) : At(h, i) = found[m]
    BY HeightsAre
  <2>6. CASE c = At(g, j).hash
    <3>1. PrevOf(c) = ZeroHash
      BY <2>3, <2>4, <2>6, FoundAre
    <3>2. Prev[c] = ZeroHash
      BY <3>1, FoundAre DEF PrevOf
    <3> QED
      BY <3>2 DEF ValidSpends
  <2>7. CASE At(g, j).hash = ZeroHeader /\ TokenAt(At(g, j).file, At(g, j).at) = Header(c)
    <3>1. m = n
      BY <1>3, <2>4, <2>5, <2>7, FoundAre DEF FoundOnce
    <3>2. Header(b) = Header(c)
      BY <1>3, <2>4, <2>5, <2>7, <3>1
    <3> QED
      BY <3>2, Kinds
  <2> QED
    BY <2>6, <2>7 DEF ReadFrom
<1> QED
  BY <1>2, <1>3 DEF ReadFrom

\* A transaction that spent the coinbase of a block off the walk is in no block
\* of the walk.
LEMMA OrphanIsOff ==
    ASSUME FilesInv, LevelsInv, ValidSpends, ScanDone, NEW k \in 1..Len(byHeight),
           NEW c \in Blocks, c \notin ToSet(Walk), NEW o, o.tx \in ToSet(Contents[c]),
           Inputs[o.tx] = <<>>, NEW t, o \in ToSet(Inputs[t])
    PROVE  \A b \in ToSet(Walk) \ {ZeroHeader} : t \notin ToSet(Contents[b])
<1> SUFFICES ASSUME NEW b \in ToSet(Walk) \ {ZeroHeader}, t \in ToSet(Contents[b]) PROVE FALSE
  OBVIOUS
<1> DEFINE C == ToSet(Walk) \ {ZeroHeader}
<1>1. C \in SUBSET Blocks /\ \A x \in C : Prev[x] \in C \cup {ZeroHash}
  BY WalkCloses
<1>2. b \in C
  OBVIOUS
<1> HIDE DEF C
<1>3. PICK d \in C : o.tx \in ToSet(Contents[d])
  BY <1>1, <1>2 DEF ValidSpends
<1>4. d = c
  BY <1>1, <1>3 DEF ValidSpends
<1> QED
  BY <1>3, <1>4 DEF C

-----------------------------------------------------------------------------
(* What the blocks spend.                                                  *)

\* What input k of transaction j of block x spends, and what all the inputs of
\* these blocks spend.
Spend(x, j, k) ==
    [out |-> x.transactions[j].inputs[k].from, tx |-> x.transactions[j], block |-> x.hash,
     mainChain |-> x.mainChain]
Spends(blocks) ==
    UNION {UNION {{Spend(x, j, k) : k \in DOMAIN x.transactions[j].inputs} :
                     j \in DOMAIN x.transactions} : x \in blocks}

\* Transactions that were read right.
LEMMA RightAre ==
    ASSUME NEW txs, NEW b, Right(txs, b)
    PROVE  /\ Len(txs) \in Nat /\ DOMAIN txs = 1..Len(txs)
           /\ \A j \in DOMAIN txs :
                 /\ b \in Blocks /\ txs[j].hash \in ToSet(Contents[b]) /\ txs[j].hash \in Txs
                 /\ txs[j].inputs = InputTokens(txs[j].hash)
                 /\ DOMAIN txs[j].inputs = 1..Len(txs[j].inputs)
                 /\ Len(txs[j].inputs) \in Nat \ {0}
<1>1. Len(txs) \in Nat /\ DOMAIN txs = 1..Len(txs)
  BY DEF Right
<1>2. ASSUME NEW j \in DOMAIN txs
      PROVE  /\ b \in Blocks /\ txs[j].hash \in ToSet(Contents[b]) /\ txs[j].hash \in Txs
             /\ txs[j].inputs = InputTokens(txs[j].hash)
             /\ DOMAIN txs[j].inputs = 1..Len(txs[j].inputs)
             /\ Len(txs[j].inputs) \in Nat \ {0}
  <2>1. /\ b \in Blocks /\ txs[j].hash \in ToSet(Contents[b])
        /\ txs[j].inputs = InputTokens(txs[j].hash)
    BY <1>1, <1>2 DEF Right
  <2>2. txs[j].hash \in Txs
    BY <2>1, BodyListsAre DEF ToSet
  <2>3. PICK t \in Txs : t = txs[j].hash
    BY <2>2
  <2>4. InputTokens(t) \in Seq(Token) /\ Len(InputTokens(t)) \in Nat \ {0}
    BY InputTokensAre
  <2>5. DOMAIN InputTokens(t) = 1..Len(InputTokens(t))
    <3> HIDE DEF Token
    <3> QED
      BY <2>4
  <2> QED
    BY <2>1, <2>2, <2>3, <2>4, <2>5
<1> QED
  BY <1>1, <1>2

\* The spends of a block that was read right.
LEMMA SpendsOfAre ==
    ASSUME NEW blocks, NEW x \in blocks, Right(x.transactions, x.hash)
    PROVE  SpendsOf(x) \in Seq(Spends(blocks))
<1> DEFINE T == Spends(blocks)
           txs == x.transactions
           list(j) == [k \in DOMAIN txs[j].inputs |-> Spend(x, j, k)]
<1>1. /\ Len(txs) \in Nat /\ DOMAIN txs = 1..Len(txs)
      /\ \A j \in DOMAIN txs : /\ DOMAIN txs[j].inputs = 1..Len(txs[j].inputs)
                               /\ Len(txs[j].inputs) \in Nat
  BY RightAre
<1>2. \A j \in DOMAIN txs : \A k \in DOMAIN txs[j].inputs : Spend(x, j, k) \in T
  BY DEF Spends
<1> HIDE DEF T
<1>3. ASSUME NEW j \in DOMAIN txs PROVE list(j) \in Seq(T)
  <2>1. PICK n \in Nat : n = Len(txs[j].inputs) /\ DOMAIN txs[j].inputs = 1..n
    BY <1>1
  <2>2. \A k \in 1..n : Spend(x, j, k) \in T
    BY <1>2, <2>1
  <2> HIDE DEF txs
  <2>3. [k \in 1..n |-> Spend(x, j, k)] \in Seq(T)
    BY <2>2
  <2> QED
    BY <2>1, <2>3
<1>4. SpendsOf(x) = FlattenSeq([j \in DOMAIN txs |-> list(j)])
  BY DEF SpendsOf, Spend
<1>5. PICK n \in Nat : n = Len(txs) /\ DOMAIN txs = 1..n
  BY <1>1
<1> HIDE DEF list, txs
<1>6. PICK ss : ss = [j \in 1..n |-> list(j)]
  OBVIOUS
<1>7. ss \in Seq(Seq(T))
  BY <1>3, <1>5, <1>6
<1>8. FlattenSeq(ss) \in Seq(T)
  <2>1. Len(ss) \in 0..Len(ss)
    BY <1>7
  <2> QED
    BY <1>7, <2>1, JoinedSteps
<1> QED
  BY <1>4, <1>5, <1>6, <1>8 DEF T

\* The spends of the branches, all of whose blocks were read right.
LEMMA SpendsAre ==
    ASSUME NEW S, NEW branches \in Seq(Seq(S)), NEW blocks,
           blocks = ToSet(AllBlocksOf(branches)),
           \A x \in blocks : Right(x.transactions, x.hash)
    PROVE  SpendsIn(branches) \in Seq(Spends(blocks)) /\ blocks \subseteq S
<1>1. PICK all \in Seq(S) : all = AllBlocksOf(branches)
  <2>1. Len(branches) \in 0..Len(branches)
    OBVIOUS
  <2> QED
    BY <2>1, JoinedSteps DEF AllBlocksOf
<1>2. PICK n \in Nat : n = Len(all) /\ DOMAIN all = 1..n
  OBVIOUS
<1>3. \A i \in 1..n : all[i] \in blocks /\ all[i] \in S
  BY <1>1, <1>2 DEF ToSet
<1>4. blocks \subseteq S
  BY <1>1, <1>2, <1>3 DEF ToSet
<1>5. \A i \in 1..n : SpendsOf(all[i]) \in Seq(Spends(blocks))
  BY <1>3, SpendsOfAre
<1> DEFINE T == Spends(blocks)
           list(i) == SpendsOf(all[i])
<1>6. SpendsIn(branches) = FlattenSeq([i \in 1..n |-> list(i)])
  BY <1>1, <1>2 DEF SpendsIn
<1> HIDE DEF list, T
<1>7. PICK ss : ss = [i \in 1..n |-> list(i)]
  OBVIOUS
<1>8. ss \in Seq(Seq(T))
  BY <1>5, <1>7 DEF list, T
<1>9. FlattenSeq(ss) \in Seq(T)
  <2>1. Len(ss) \in 0..Len(ss)
    BY <1>8
  <2> QED
    BY <1>8, <2>1, JoinedSteps
<1> QED
  BY <1>4, <1>6, <1>7, <1>9 DEF T

\* A spend by transaction t of block x.
SpendBy(s, x, t) ==
    /\ s.block = x.hash /\ s.mainChain = x.mainChain /\ x.hash \in Blocks
    /\ t \in Txs /\ t \in ToSet(Contents[x.hash])
    /\ s.tx.hash = t /\ s.tx.inputs = InputTokens(t)
    /\ s.out # ZeroHash => s.out \in ToSet(Inputs[t])

\* What an input token spends.
LEMMA InputTokensSpend ==
    ASSUME NEW t \in Txs, NEW k \in 1..Len(InputTokens(t))
    PROVE  IF Inputs[t] = <<>> THEN InputTokens(t)[k].from = ZeroHash
           ELSE /\ InputTokens(t)[k].from \in ToSet(Inputs[t])
                /\ InputTokens(t)[k].from # ZeroHash
<1>1. CASE Inputs[t] = <<>>
  <2>1. InputTokens(t) = <<[kind |-> "input", from |-> ZeroHash, by |-> t]>>
    BY <1>1 DEF InputTokens
  <2>2. k = 1
    BY <2>1
  <2> QED
    BY <1>1, <2>1, <2>2
<1>2. CASE Inputs[t] # <<>>
  <2>1. InputTokens(t) = [i \in DOMAIN Inputs[t] |->
                             [kind |-> "input", from |-> Inputs[t][i], by |-> t]]
    BY <1>2 DEF InputTokens
  <2>2. Len(InputTokens(t)) = Len(Inputs[t]) /\ DOMAIN Inputs[t] = 1..Len(Inputs[t])
    <3>1. Inputs[t] \in Seq([tx : Txs, n : Nat])
      BY FilesAssumption
    <3>2. DOMAIN Inputs[t] = 1..Len(Inputs[t])
      BY <3>1
    <3> QED
      BY <1>2, <3>2, InputTokensAre
  <2>3. k \in DOMAIN Inputs[t] /\ InputTokens(t)[k].from = Inputs[t][k]
    BY <2>1, <2>2
  <2>4. Inputs[t][k] # ZeroHash
    BY <2>3, FilesAssumption
  <2> QED
    BY <1>2, <2>3, <2>4 DEF ToSet
<1> QED
  BY <1>1, <1>2

LEMMA SpendIs ==
    ASSUME NEW blocks, \A x \in blocks : Right(x.transactions, x.hash), NEW s \in Spends(blocks)
    PROVE  \E x \in blocks, t \in Txs : SpendBy(s, x, t)
<1>1. PICK x \in blocks : \E j \in DOMAIN x.transactions :
          \E k \in DOMAIN x.transactions[j].inputs : s = Spend(x, j, k)
  BY DEF Spends
<1>2. PICK j \in DOMAIN x.transactions :
          \E k \in DOMAIN x.transactions[j].inputs : s = Spend(x, j, k)
  BY <1>1
<1>3. PICK k \in DOMAIN x.transactions[j].inputs : s = Spend(x, j, k)
  BY <1>2
<1>4. /\ x.hash \in Blocks /\ x.transactions[j].hash \in Txs
      /\ x.transactions[j].hash \in ToSet(Contents[x.hash])
      /\ x.transactions[j].inputs = InputTokens(x.transactions[j].hash)
      /\ k \in 1..Len(x.transactions[j].inputs)
  BY RightAre
<1>5. PICK t \in Txs : t = x.transactions[j].hash
  BY <1>4
<1>6. s.out = InputTokens(t)[k].from /\ k \in 1..Len(InputTokens(t))
  BY <1>3, <1>4, <1>5 DEF Spend
<1>7. s.out # ZeroHash => s.out \in ToSet(Inputs[t])
  BY <1>6, InputTokensSpend
<1>8. /\ s.block = x.hash /\ s.mainChain = x.mainChain
      /\ s.tx.hash = t /\ s.tx.inputs = InputTokens(t)
  BY <1>3, <1>4, <1>5 DEF Spend
<1> QED
  BY <1>4, <1>5, <1>7, <1>8 DEF SpendBy

-----------------------------------------------------------------------------
(* What the comparison adds to the report.                                 *)

\* An output spent twice, as it is noted down.
LEMMA TwiceAre ==
    ASSUME NEW T, NEW spends \in Seq(T), NEW o, Marked(o, spends) # {},
           NEW d \in SpentTwice(o, spends)
    PROVE  \E r \in T : \E s \in T :
              /\ r.mainChain /\ r.out = o /\ s.out = o
              /\ s.tx.hash # r.tx.hash /\ s.block # r.block
              /\ d = [out |-> o, tx |-> r.tx, block |-> r.block,
                      alsoTx |-> s.tx, alsoBlock |-> s.block]
<1>1. DOMAIN spends = 1..Len(spends) /\ Len(spends) \in Nat
  OBVIOUS
<1>2. \A i \in Spending(o, spends) : spends[i] \in T /\ spends[i].out = o
  BY <1>1 DEF Spending
<1>3. Marked(o, spends) \in SUBSET Nat /\ Marked(o, spends) \subseteq Spending(o, spends)
  BY <1>1 DEF Marked, Spending
<1>4. \E i \in Marked(o, spends) : \A j \in Marked(o, spends) : i <= j
  BY <1>3, LeastNumber
<1>5. First(Marked(o, spends)) \in Marked(o, spends)
  BY <1>4 DEF First
<1>6. PICK r \in T : /\ r = spends[First(Marked(o, spends))] /\ r.out = o /\ r.mainChain
  BY <1>2, <1>3, <1>5 DEF Marked
<1>7. PICK i \in Spending(o, spends) :
        /\ spends[i].tx.hash # r.tx.hash /\ spends[i].block # r.block
        /\ d = [out |-> o, tx |-> r.tx, block |-> r.block,
                alsoTx |-> spends[i].tx, alsoBlock |-> spends[i].block]
  BY <1>6 DEF SpentTwice
<1> QED
  BY <1>2, <1>6, <1>7

\* A transaction that spent a lost coinbase, as it is noted down.
LEMMA OrphanedAre ==
    ASSUME NEW T, NEW spends \in Seq(T), NEW o, NEW coinbases,
           NEW d \in Orphaned(o, spends, coinbases),
           \A s \in T : /\ DOMAIN s.tx.inputs = 1..Len(s.tx.inputs)
                        /\ Len(s.tx.inputs) \in Nat
    PROVE  \E s \in T : \E k \in 1..Len(s.tx.inputs) :
              /\ s.tx.inputs[k].from # ZeroHash /\ s.tx.inputs[k].from.tx \in coinbases
              /\ d = [tx |-> s.tx, block |-> s.block, coinbase |-> s.tx.inputs[k].from.tx]
<1> DEFINE hits(tx) == {k \in DOMAIN tx.inputs : /\ tx.inputs[k].from # ZeroHash
                                                 /\ tx.inputs[k].from.tx \in coinbases}
<1>1. DOMAIN spends = 1..Len(spends)
  OBVIOUS
<1>2. PICK i \in Spending(o, spends) :
        /\ hits(spends[i].tx) # {}
        /\ d = [tx |-> spends[i].tx, block |-> spends[i].block,
                coinbase |-> spends[i].tx.inputs[Final(hits(spends[i].tx))].from.tx]
  BY DEF Orphaned
<1>3. PICK s \in T : s = spends[i]
  BY <1>1 DEF Spending
<1>4. PICK n \in Nat : n = Len(s.tx.inputs) /\ DOMAIN s.tx.inputs = 1..n
  OBVIOUS
<1>5. PICK H : H = hits(s.tx)
  OBVIOUS
<1>6. H \in SUBSET (0..n) /\ H # {}
  <2>1. H # {}
    BY <1>2, <1>3, <1>5, Zenon
  <2>2. H \subseteq DOMAIN s.tx.inputs
    BY <1>5, Zenon
  <2>3. 1..n \subseteq 0..n
    OBVIOUS
  <2> QED
    BY <1>4, <2>1, <2>2, <2>3, Zenon
<1>7. \E k \in H : \A j \in H : j <= k
  BY <1>6, GreatestNumber
<1>8. Final(H) \in H
  BY <1>7 DEF Final
<1>9. /\ Final(H) \in 1..Len(s.tx.inputs)
      /\ s.tx.inputs[Final(H)].from # ZeroHash
      /\ s.tx.inputs[Final(H)].from.tx \in coinbases
  BY <1>4, <1>5, <1>8
<1> QED
  BY <1>2, <1>3, <1>5, <1>9

\* The coinbases of blocks off the walk.
Lost == {c \in Txs : /\ Inputs[c] = <<>>
                     /\ \E b \in Blocks \ ToSet(Walk) : c \in ToSet(Contents[b])}

\* Where a collected block comes from.
Collected(x) ==
    \E h \in 1..Len(byHeight) : \E i \in 1..Len(byHeight[h]) :
        /\ x.mainChain = byHeight[h][i].mainChain /\ ReadFrom(x.hash, At(h, i))

\* The coinbases of the collected blocks without a mark are lost.
LEMMA CoinbasesAreLost ==
    ASSUME FilesInv, LevelsInv, PlacesAre, WrittenOnce, ScanDone,
           NEW branches, NEW blocks, blocks = ToSet(AllBlocksOf(branches)),
           \A x \in blocks : Collected(x) /\ Right(x.transactions, x.hash)
    PROVE  CoinbasesLost(branches) \subseteq Lost
<1> SUFFICES ASSUME NEW c \in CoinbasesLost(branches) PROVE c \in Lost
  OBVIOUS
<1>1. PICK x \in blocks : /\ ~x.mainChain
                          /\ \E tx \in ToSet(x.transactions) :
                                c = tx.hash /\ tx.inputs[1].from = ZeroHash
  BY DEF CoinbasesLost
<1>2. PICK j \in DOMAIN x.transactions :
        c = x.transactions[j].hash /\ x.transactions[j].inputs[1].from = ZeroHash
  BY <1>1 DEF ToSet
<1>3. /\ x.hash \in Blocks /\ c \in ToSet(Contents[x.hash]) /\ c \in Txs
      /\ x.transactions[j].inputs = InputTokens(c)
      /\ Len(InputTokens(c)) \in Nat \ {0}
  BY <1>2, RightAre
<1>4. Inputs[c] = <<>>
  <2>1. 1 \in 1..Len(InputTokens(c)) /\ InputTokens(c)[1].from = ZeroHash
    BY <1>2, <1>3
  <2> QED
    BY <1>3, <2>1, InputTokensSpend
<1>5. x.hash \notin ToSet(Walk)
  <2>1. PICK h \in 1..Len(byHeight) : \E i \in 1..Len(byHeight[h]) :
          x.mainChain = byHeight[h][i].mainChain /\ ReadFrom(x.hash, At(h, i))
    BY DEF Collected
  <2>2. PICK i \in 1..Len(byHeight[h]) :
          x.mainChain = byHeight[h][i].mainChain /\ ReadFrom(x.hash, At(h, i))
    BY <2>1
  <2> QED
    BY <1>1, <1>3, <2>2, UnmarkedIsOff
<1> QED
  BY <1>3, <1>4, <1>5 DEF Lost

\* What ReportIsTrue says of one double spend and of one orphan.
TwiceTrue(d) ==
    /\ d.tx # d.alsoTx /\ d.block # d.alsoBlock
    /\ d.tx \in ToSet(Contents[d.block]) /\ d.alsoTx \in ToSet(Contents[d.alsoBlock])
    /\ d.out \in ToSet(Inputs[d.tx]) \cap ToSet(Inputs[d.alsoTx])
    /\ garbage = {} => d.block \in ToSet(Walk)
OrphanTrue(d) ==
    /\ d.tx \in ToSet(Contents[d.block])
    /\ Inputs[d.coinbase] = <<>> /\ \E o \in ToSet(Inputs[d.tx]) : o.tx = d.coinbase
    /\ \A b \in ToSet(Walk) \ {ZeroHeader} : d.tx \notin ToSet(Contents[b])

LEMMA ReportIs ==
    ReportIsTrue <=> /\ \A d \in doubleSpends : TwiceTrue(d)
                     /\ \A d \in orphans : OrphanTrue(d)
BY DEF ReportIsTrue, TwiceTrue, OrphanTrue

\* What spends a block that was read right.
LEMMA TwiceIsTrue ==
    ASSUME FilesInv, LevelsInv, ValidSpends, ScanDone, NEW blocks,
           \A x \in blocks : Collected(x) /\ Right(x.transactions, x.hash),
           NEW spends \in Seq(Spends(blocks)), NEW o, o # ZeroHash, Marked(o, spends) # {},
           NEW d \in SpentTwice(o, spends)
    PROVE  TwiceTrue([d EXCEPT !.tx = @.hash, !.alsoTx = @.hash])
<1> DEFINE e == [d EXCEPT !.tx = @.hash, !.alsoTx = @.hash]
           T == Spends(blocks)
<1>1. PICK r \in T, s \in T :
        /\ r.mainChain /\ r.out = o /\ s.out = o
        /\ s.tx.hash # r.tx.hash /\ s.block # r.block
        /\ d = [out |-> o, tx |-> r.tx, block |-> r.block,
                alsoTx |-> s.tx, alsoBlock |-> s.block]
  <2> HIDE DEF T
  <2> QED
    BY TwiceAre DEF T
<1>2. /\ e.out = o /\ e.tx = r.tx.hash /\ e.block = r.block
      /\ e.alsoTx = s.tx.hash /\ e.alsoBlock = s.block
  BY <1>1
<1>3. PICK x \in blocks, t \in Txs : SpendBy(r, x, t)
  BY SpendIs
<1>4. PICK y \in blocks, u \in Txs : SpendBy(s, y, u)
  BY SpendIs
<1> HIDE DEF T, e
<1>5. /\ e.tx # e.alsoTx /\ e.block # e.alsoBlock
      /\ e.tx \in ToSet(Contents[e.block]) /\ e.alsoTx \in ToSet(Contents[e.alsoBlock])
      /\ e.out \in ToSet(Inputs[e.tx]) /\ e.out \in ToSet(Inputs[e.alsoTx])
  BY <1>1, <1>2, <1>3, <1>4 DEF SpendBy
<1>6. ASSUME garbage = {} PROVE x.hash \in ToSet(Walk)
  <2>1. PICK h \in 1..Len(byHeight) : \E i \in 1..Len(byHeight[h]) :
          x.mainChain = byHeight[h][i].mainChain /\ ReadFrom(x.hash, At(h, i))
    BY DEF Collected
  <2>2. PICK i \in 1..Len(byHeight[h]) :
          x.mainChain = byHeight[h][i].mainChain /\ ReadFrom(x.hash, At(h, i))
    BY <2>1
  <2>3. PICK g \in 1..Len(byHeight) :
          \E j \in 1..Len(byHeight[g]) : ReadFrom(y.hash, At(g, j))
    BY DEF Collected
  <2>4. PICK j \in 1..Len(byHeight[g]) : ReadFrom(y.hash, At(g, j))
    BY <2>3
  <2>5. /\ byHeight[h][i].mainChain /\ x.hash \in Blocks /\ y.hash \in Blocks
        /\ y.hash # x.hash /\ u \in ToSet(Contents[y.hash])
    BY <1>1, <1>3, <1>4, <2>2 DEF SpendBy
  <2>6. Inputs[u] # <<>>
    <3>1. o \in ToSet(Inputs[u])
      BY <1>1, <1>4 DEF SpendBy
    <3>2. ToSet(<<>>) = {}
      BY DEF ToSet
    <3> QED
      BY <3>1, <3>2
  <2> QED
    BY <1>6, <2>2, <2>4, <2>5, <2>6, MarkedIsOn
<1>7. e.block = x.hash
  BY <1>2, <1>3 DEF SpendBy
<1> QED
  BY <1>5, <1>6, <1>7 DEF TwiceTrue, e

LEMMA OrphanIsTrue ==
    ASSUME FilesInv, LevelsInv, ValidSpends, ScanDone, NEW blocks,
           \A x \in blocks : Collected(x) /\ Right(x.transactions, x.hash),
           NEW spends \in Seq(Spends(blocks)), NEW o, NEW coinbases, coinbases \subseteq Lost,
           NEW d \in Orphaned(o, spends, coinbases)
    PROVE  OrphanTrue([d EXCEPT !.tx = @.hash])
<1> DEFINE e == [d EXCEPT !.tx = @.hash]
           T == Spends(blocks)
<1>1. \A s \in T : \E x \in blocks, t \in Txs : SpendBy(s, x, t)
  BY SpendIs
<1>2. ASSUME NEW s \in T
      PROVE  DOMAIN s.tx.inputs = 1..Len(s.tx.inputs) /\ Len(s.tx.inputs) \in Nat
  <2>1. PICK t \in Txs : s.tx.inputs = InputTokens(t)
    BY <1>1 DEF SpendBy
  <2>2. InputTokens(t) \in Seq(Token)
    BY InputTokensAre
  <2>3. DOMAIN InputTokens(t) = 1..Len(InputTokens(t)) /\ Len(InputTokens(t)) \in Nat
    <3> HIDE DEF Token
    <3> QED
      BY <2>2
  <2> QED
    BY <2>1, <2>3
<1>3. PICK s \in T : \E k \in 1..Len(s.tx.inputs) :
        /\ s.tx.inputs[k].from # ZeroHash /\ s.tx.inputs[k].from.tx \in coinbases
        /\ d = [tx |-> s.tx, block |-> s.block, coinbase |-> s.tx.inputs[k].from.tx]
  <2> HIDE DEF T
  <2>1. spends \in Seq(T)
    BY DEF T
  <2> QED
    BY <1>2, <2>1, OrphanedAre
<1>31. PICK k \in 1..Len(s.tx.inputs) :
        /\ s.tx.inputs[k].from # ZeroHash /\ s.tx.inputs[k].from.tx \in coinbases
        /\ d = [tx |-> s.tx, block |-> s.block, coinbase |-> s.tx.inputs[k].from.tx]
  BY <1>3
<1>4. /\ e.tx = s.tx.hash /\ e.block = s.block /\ e.coinbase = s.tx.inputs[k].from.tx
  BY <1>31
<1>5. PICK x \in blocks, t \in Txs : SpendBy(s, x, t)
  BY <1>1
<1> HIDE DEF e, T
<1>6. PICK p : p = s.tx.inputs[k].from
  OBVIOUS
<1>7. p \in ToSet(Inputs[t])
  <2>1. s.tx.inputs = InputTokens(t)
    BY <1>5 DEF SpendBy
  <2>2. k \in 1..Len(InputTokens(t)) /\ InputTokens(t)[k].from = p /\ p # ZeroHash
    BY <1>31, <1>6, <2>1
  <2> QED
    BY <2>2, InputTokensSpend
<1>8. PICK c \in Blocks : c \notin ToSet(Walk) /\ p.tx \in ToSet(Contents[c])
                          /\ Inputs[p.tx] = <<>>
  BY <1>31, <1>6 DEF Lost
<1>9. PICK h \in 1..Len(byHeight) : TRUE
  BY DEF Collected
<1>10. \A b \in ToSet(Walk) \ {ZeroHeader} : t \notin ToSet(Contents[b])
  BY <1>7, <1>8, <1>9, OrphanIsOff
<1>11. e.tx = t /\ e.block = x.hash /\ e.coinbase = p.tx /\ t \in ToSet(Contents[x.hash])
  BY <1>4, <1>5, <1>6 DEF SpendBy
<1> QED
  BY <1>7, <1>8, <1>10, <1>11 DEF OrphanTrue, e

\* The comparison adds to the report what is true.
LEMMA ComparisonIsTrue ==
    ASSUME FilesInv, LevelsInv, PlacesAre, ValidSpends, WrittenOnce, ScanDone,
           NEW S, doubleBlocks \in Seq(Seq(S)),
           \A x \in S : /\ Collected(x)
                        /\ Faulty(x.transactions) \/ Right(x.transactions, x.hash),
           reorgedCoinbases \subseteq Lost, ReportIsTrue,
           NEW next, analyzeDoubleBlocks(next)
    PROVE  /\ reorgedCoinbases' \subseteq Lost
           /\ \A d \in doubleSpends' : TwiceTrue(d)
           /\ \A d \in orphans' : OrphanTrue(d)
<1> DEFINE blocks == ToSet(AllBlocksOf(doubleBlocks))
           spends == SpendsIn(doubleBlocks)
           outs == {spends[i].out : i \in DOMAIN spends} \ {ZeroHash}
           lost == reorgedCoinbases \cup CoinbasesLost(doubleBlocks)
           twice == UNION {SpentTwice(o, spends) : o \in {p \in outs : Marked(p, spends) # {}}}
           orphaned == UNION {Orphaned(o, spends, lost) :
                                 o \in {p \in outs : Marked(p, spends) = {}}}
           faulty == \E block \in blocks : \E tx \in ToSet(block.transactions) : tx.inputs = <<>>
<1>1. \/ reorgedCoinbases' = reorgedCoinbases /\ doubleSpends' = doubleSpends
         /\ orphans' = orphans
      \/ /\ ~faulty /\ reorgedCoinbases' = lost
         /\ doubleSpends' = doubleSpends \cup
                {[d EXCEPT !.tx = @.hash, !.alsoTx = @.hash] : d \in twice}
         /\ orphans' = orphans \cup {[d EXCEPT !.tx = @.hash] : d \in orphaned}
  BY Zenon DEF analyzeDoubleBlocks, results
<1>2. CASE reorgedCoinbases' = reorgedCoinbases /\ doubleSpends' = doubleSpends
           /\ orphans' = orphans
  BY <1>2, ReportIs
<1>3. CASE /\ ~faulty /\ reorgedCoinbases' = lost
           /\ doubleSpends' = doubleSpends \cup
                  {[d EXCEPT !.tx = @.hash, !.alsoTx = @.hash] : d \in twice}
           /\ orphans' = orphans \cup {[d EXCEPT !.tx = @.hash] : d \in orphaned}
  <2>0. blocks \subseteq S
    <3>1. PICK all \in Seq(S) : all = AllBlocksOf(doubleBlocks)
      <4>1. Len(doubleBlocks) \in 0..Len(doubleBlocks)
        OBVIOUS
      <4> QED
        BY <4>1, JoinedSteps DEF AllBlocksOf
    <3>2. \A i \in DOMAIN all : all[i] \in S
      OBVIOUS
    <3> QED
      BY <3>1, <3>2 DEF ToSet
  <2>1. \A x \in blocks : Collected(x) /\ Right(x.transactions, x.hash)
    <3>1. \A x \in blocks : ~Faulty(x.transactions)
      BY <1>3 DEF Faulty, ToSet
    <3> QED
      BY <2>0, <3>1
  <2>2. spends \in Seq(Spends(blocks))
    BY <2>1, SpendsAre
  <2>3. CoinbasesLost(doubleBlocks) \subseteq Lost
    BY <2>1, CoinbasesAreLost
  <2>4. lost \subseteq Lost
    BY <2>3
  <2> HIDE DEF blocks, spends, lost
  <2>5. ASSUME NEW d \in twice
        PROVE  TwiceTrue([d EXCEPT !.tx = @.hash, !.alsoTx = @.hash])
    <3>1. PICK o \in outs : Marked(o, spends) # {} /\ d \in SpentTwice(o, spends)
      OBVIOUS
    <3> QED
      BY <2>1, <2>2, <3>1, TwiceIsTrue
  <2>6. ASSUME NEW d \in orphaned PROVE OrphanTrue([d EXCEPT !.tx = @.hash])
    <3>1. PICK o \in outs : d \in Orphaned(o, spends, lost)
      OBVIOUS
    <3> QED
      BY <2>1, <2>2, <2>4, <3>1, OrphanIsTrue
  <2> HIDE DEF twice, orphaned
  <2>7. \A d \in doubleSpends' : TwiceTrue(d)
    BY <1>3, <2>5, ReportIs
  <2>8. \A d \in orphans' : OrphanTrue(d)
    BY <1>3, <2>6, ReportIs
  <2> QED
    BY <1>3, <2>4, <2>7, <2>8
<1> QED
  BY <1>1, <1>2, <1>3

-----------------------------------------------------------------------------
(* The branches.                                                           *)

LEMMA Widen ==
    ASSUME NEW S, NEW T, S \subseteq T, NEW branches \in Seq(Seq(S))
    PROVE  branches \in Seq(Seq(T))
<1>1. \A s \in Seq(S) : s \in Seq(T)
  <2> SUFFICES ASSUME NEW s \in Seq(S) PROVE s \in Seq(T)
    OBVIOUS
  <2>1. s = [i \in 1..Len(s) |-> s[i]] /\ Len(s) \in Nat /\ \A i \in 1..Len(s) : s[i] \in T
    OBVIOUS
  <2> QED
    BY <2>1
<1>2. PICK n \in Nat : n = Len(branches) /\ \A i \in 1..n : branches[i] \in Seq(S)
  OBVIOUS
<1>3. branches = [i \in 1..n |-> branches[i]]
  BY <1>2
<1>4. \A i \in 1..n : branches[i] \in Seq(T)
  BY <1>1, <1>2
<1> QED
  BY <1>3, <1>4

\* A block is placed at the end of branches, or in one of its own.
LEMMA PlaceIs ==
    ASSUME NEW S, NEW branches \in Seq(Seq(S)), NEW j, NEW x \in S
    PROVE  Place(branches, j, x) \in Seq(Seq(S))
<1>1. \A s \in Seq(S) : Append(s, x) \in Seq(S)
  OBVIOUS
<1>2. <<x>> \in Seq(S)
  BY One
<1>3. PICK n \in Nat : n = Len(branches) /\ DOMAIN branches = 1..n
                       /\ \A i \in 1..n : branches[i] \in Seq(S)
  OBVIOUS
<1>4. CASE j \notin DOMAIN branches
  <2>1. Append(branches, <<x>>) \in Seq(Seq(S))
    BY <1>2
  <2> QED
    BY <1>4, <2>1 DEF Place
<1>5. CASE j \in DOMAIN branches
  <2> DEFINE b(k) == IF Last(branches[k]).hash = x.prev THEN Append(branches[k], x)
                     ELSE branches[k]
  <2>1. \A k \in 1..n : b(k) \in Seq(S)
    BY <1>1, <1>3
  <2>2. Place(branches, j, x) = [k \in 1..n |-> b(k)]
    BY <1>3, <1>5 DEF Place
  <2> HIDE DEF b
  <2> QED
    BY <2>1, <2>2
<1> QED
  BY <1>4, <1>5

\* The branches, entry by entry.
LEMMA PlaceSteps ==
    ASSUME NEW S, NEW branches \in Seq(Seq(S)), NEW entries, Len(entries) \in Nat,
           \A j \in 1..Len(entries) : Read(entries[j]) \in S
    PROVE  \E g : /\ g[0] = branches /\ PlaceAll(branches, entries) = g[Len(entries)]
                  /\ \A i \in 1..Len(entries) : g[i] = Place(g[i - 1], i, Read(entries[i]))
                  /\ \A i \in 0..Len(entries) : g[i] \in Seq(Seq(S))
<1> DEFINE X == Seq(Seq(S))
           To(x, j) == LET block == Read(entries[j]) IN Place(x, j, block)
           G == [y \in Nat \X X |-> IF y[1] \in 1..Len(entries) THEN To(y[2], y[1]) ELSE y[2]]
           Rec(g, n) == g = [j \in 0..n |-> IF j = 0 THEN branches ELSE To(g[j - 1], j)]
<1>1. PICK n \in Nat : n = Len(entries)
  OBVIOUS
<1>2. \A x \in X, j \in 1..n : To(x, j) \in X
  BY <1>1, PlaceIs
<1>3. PlaceAll(branches, entries) = (CHOOSE g : Rec(g, n))[n]
  BY <1>1 DEF PlaceAll
<1> HIDE DEF X, To
<1>4. G \in [Nat \X X -> X]
  BY <1>1, <1>2
<1>5. branches \in X
  BY DEF X
<1>6. PICK h : Iterated(h, X, branches, G, n)
  <2> HIDE DEF G
  <2> QED
    BY <1>4, <1>5, Iterates
<1>7. h \in [0..n -> X] /\ h[0] = branches /\ \A i \in 1..n : h[i] = G[<<i, h[i - 1]>>]
  BY <1>6 DEF Iterated
<1>8. Rec(h, n)
  <2>1. \A i \in 1..n : h[i] = To(h[i - 1], i)
    <3> SUFFICES ASSUME NEW i \in 1..n PROVE h[i] = To(h[i - 1], i)
      OBVIOUS
    <3>1. i - 1 \in 0..n /\ i \in Nat
      OBVIOUS
    <3>2. <<i, h[i - 1]>> \in Nat \X X
      BY <1>7, <3>1
    <3> QED
      BY <1>1, <1>7, <3>2
  <2>2. h = [i \in 0..n |-> h[i]] /\ \A i \in 0..n : i = 0 \/ i \in 1..n
    BY <1>7
  <2>3. \A i \in 0..n : h[i] = IF i = 0 THEN branches ELSE To(h[i - 1], i)
    BY <1>7, <2>1, <2>2
  <2> QED
    BY <2>2, <2>3
<1> DEFINE g == CHOOSE f : Rec(f, n)
<1>9. Rec(g, n)
  <2> HIDE DEF Rec
  <2> QED
    BY <1>8
<1> HIDE DEF g
<1>10. g[0] = branches /\ \A i \in 1..n : g[i] = To(g[i - 1], i)
  <2>1. 0 \in 0..n /\ \A i \in 1..n : i \in 0..n /\ i # 0
    OBVIOUS
  <2> QED
    BY <1>9, <2>1
<1> DEFINE T == {i \in Nat : i <= n => g[i] \in X}
<1>11. 0 \in T
  BY <1>5, <1>10
<1>12. ASSUME NEW i \in Nat, i \in T PROVE i + 1 \in T
  <2> SUFFICES ASSUME i + 1 <= n PROVE g[i + 1] \in X
    OBVIOUS
  <2>1. PICK m \in 1..n : m = i + 1 /\ m - 1 = i
    OBVIOUS
  <2>2. g[i] \in X
    BY <1>12
  <2>3. g[m] = To(g[i], m)
    BY <1>10, <2>1
  <2> QED
    BY <1>2, <2>1, <2>2, <2>3
<1>13. ASSUME NEW i \in 0..n PROVE g[i] \in X
  <2>1. i \in Nat /\ i <= n
    OBVIOUS
  <2> HIDE DEF T
  <2>2. i \in T
    BY <1>11, <1>12, <2>1, Induction
  <2> QED
    BY <2>1, <2>2 DEF T
<1>14. PlaceAll(branches, entries) = g[n]
  BY <1>3 DEF g
<1>15. \A i \in 1..n : g[i] = Place(g[i - 1], i, Read(entries[i]))
  BY <1>10 DEF To
<1> QED
  BY <1>1, <1>10, <1>13, <1>14, <1>15 DEF X

\* All that the branches hold is read from the entries or was there.
LEMMA PlaceAllIs ==
    ASSUME NEW S, NEW branches \in Seq(Seq(S)), NEW entries, Len(entries) \in Nat,
           \A j \in 1..Len(entries) : Read(entries[j]) \in S
    PROVE  PlaceAll(branches, entries) \in Seq(Seq(S))
<1>1. Len(entries) \in 0..Len(entries)
  OBVIOUS
<1> QED
  BY <1>1, PlaceSteps

\* A block as it was collected.
Fits(x) == /\ Collected(x)
           /\ Faulty(x.transactions) \/ Right(x.transactions, x.hash)

\* The branches hold collected blocks.
Branches(branches) == \E S : branches \in Seq(Seq(S)) /\ \A x \in S : Fits(x)

LEMMA NoBranches == Branches(<<>>) /\ Branches(<<>>)'
<1>1. PICK S : S = {}
  OBVIOUS
<1>2. <<>> \in Seq(Seq(S)) /\ (\A x \in S : Fits(x)) /\ (\A x \in S : Fits(x)')
  BY <1>1
<1> QED
  BY <1>2, Zenon DEF Branches

LEMMA HeightIsCollected ==
    ASSUME FilesInv, LevelsInv, ScanDone, NEW h \in 1..Len(byHeight),
           NEW branches, Branches(branches)
    PROVE  Branches(PlaceAll(branches, byHeight[h]))
<1>1. PICK S : branches \in Seq(Seq(S)) /\ \A x \in S : Fits(x)
  BY DEF Branches
<1>2. Len(byHeight[h]) \in Nat
  BY HeightsAre
<1> DEFINE R == S \cup {Read(byHeight[h][i]) : i \in 1..Len(byHeight[h])}
<1>3. PlaceAll(branches, byHeight[h]) \in Seq(Seq(R))
  <2>1. S \subseteq R /\ \A i \in 1..Len(byHeight[h]) : Read(byHeight[h][i]) \in R
    OBVIOUS
  <2> HIDE DEF R
  <2>2. branches \in Seq(Seq(R))
    BY <1>1, <2>1, Widen
  <2> QED
    BY <1>2, <2>1, <2>2, PlaceAllIs
<1>4. ASSUME NEW i \in 1..Len(byHeight[h]) PROVE Fits(Read(byHeight[h][i]))
  <2>1. PICK m \in 1..Len(found) : At(h, i) = found[m]
    BY HeightsAre
  <2>2. PICK x : x = readBlock(found[m].file, found[m].at)
    OBVIOUS
  <2>3. ReadFrom(x.hash, found[m]) /\ (Faulty(x.transactions) \/ Right(x.transactions, x.hash))
    BY <2>2, EntryRead
  <2>4. PICK y : y = Read(byHeight[h][i])
    OBVIOUS
  <2>5. y.hash = x.hash /\ y.transactions = x.transactions
        /\ y.mainChain = byHeight[h][i].mainChain
    BY <2>1, <2>2, <2>4 DEF Read, WithMark, At
  <2>6. Collected(y)
    BY <2>1, <2>3, <2>5 DEF Collected
  <2> QED
    BY <2>3, <2>4, <2>5, <2>6 DEF Fits
<1>5. \A x \in R : Fits(x)
  BY <1>1, <1>4
<1> HIDE DEF R
<1> QED
  BY <1>3, <1>5 DEF Branches

\* A header stays where it is while the daemon writes on.
LEMMA HeaderStays ==
    ASSUME FilesInv, DaemonWrites, NEW f \in Files, NEW p, NEW b, TokenAt(f, p) = Header(b)
    PROVE  TokenAt(f, p)' = Header(b)
<1>1. PICK lay \in Layouts, n \in 0..4 : FilesAre(lay, n)
  BY DEF FilesInv
<1>2. \A q \in DOMAIN disk[f] : q \in DOMAIN disk'[f] /\ disk'[f][q] = disk[f][q]
  BY <1>1, FilesGrow
<1>3. p \in DOMAIN disk[f] /\ disk[f][p] = Header(b)
  BY Kinds DEF TokenAt
<1> QED
  BY <1>2, <1>3 DEF TokenAt

\* What was collected stays so.
LEMMA BranchesStay ==
    ASSUME FilesInv, LevelsInv, ScanDone, UNCHANGED <<found, byHeight>>,
           DaemonWrites \/ UNCHANGED disk, NEW branches, Branches(branches)
    PROVE  Branches(branches)'
<1>1. ASSUME NEW h \in 1..Len(byHeight), NEW i \in 1..Len(byHeight[h]), NEW b,
             ReadFrom(b, At(h, i))
      PROVE  ReadFrom(b, At(h, i))'
  <2>1. PICK m \in 1..Len(found) : At(h, i) = found[m]
    BY HeightsAre
  <2>2. found[m].file \in Files
    BY ScanPlace
  <2>3. At(h, i)' = At(h, i)
    BY DEF At
  <2>4. \A f \in Files : \A p : TokenAt(f, p) = Header(b) => TokenAt(f, p)' = Header(b)
    BY HeaderStays DEF TokenAt
  <2> QED
    BY <1>1, <2>1, <2>2, <2>3, <2>4 DEF ReadFrom
<1>2. \A x : Fits(x) => Fits(x)'
  <2> SUFFICES ASSUME NEW x, Fits(x) PROVE Fits(x)'
    OBVIOUS
  <2>1. Collected(x)'
    BY <1>1 DEF Fits, Collected
  <2> QED
    BY <2>1 DEF Fits, Faulty, Right
<1> QED
  BY <1>2 DEF Branches

-----------------------------------------------------------------------------
(* The report.                                                             *)

\* The report, and what it is made from.
Comparing == step \in {"collect", "done", "aborted"}
ReportInv ==
    IF Comparing
    THEN Branches(doubleBlocks) /\ reorgedCoinbases \subseteq Lost /\ ReportIsTrue
    ELSE doubleBlocks = <<>> /\ reorgedCoinbases = {} /\ doubleSpends = {} /\ orphans = {}

\* What is lost and what is true depend on the blocks by height only.
LEMMA SameTruth ==
    ASSUME UNCHANGED <<found, byHeight, garbage>>
    PROVE  /\ Lost' = Lost
           /\ \A d : (TwiceTrue(d) => TwiceTrue(d)') /\ (OrphanTrue(d) => OrphanTrue(d)')
<1>1. Walk' = Walk
  BY DEF Walk
<1>2. Lost' = Lost
  BY <1>1 DEF Lost
<1>3. \A d : TwiceTrue(d) => TwiceTrue(d)'
  BY <1>1 DEF TwiceTrue
<1>4. \A d : OrphanTrue(d) => OrphanTrue(d)'
  BY <1>1 DEF OrphanTrue
<1> QED
  BY <1>2, <1>3, <1>4

LEMMA ReportThen ==
    ASSUME UNCHANGED <<found, byHeight, garbage>>,
           \A d \in doubleSpends' : TwiceTrue(d), \A d \in orphans' : OrphanTrue(d)
    PROVE  ReportIsTrue'
<1>1. /\ \A d \in doubleSpends' : TwiceTrue(d)'
      /\ \A d \in orphans' : OrphanTrue(d)'
  BY SameTruth
<1> QED
  BY <1>1 DEF ReportIsTrue, TwiceTrue, OrphanTrue

\* A step that leaves the report alone.
LEMMA ReportStays ==
    ASSUME FilesInv, LevelsInv, ScanDone, ReportInv, Comparing, Comparing',
           UNCHANGED <<found, byHeight, garbage, reorgedCoinbases, doubleSpends, orphans>>,
           DaemonWrites \/ UNCHANGED disk, Branches(doubleBlocks')
    PROVE  ReportInv'
<1>1. reorgedCoinbases' \subseteq Lost'
  BY SameTruth DEF ReportInv
<1>2. ReportIsTrue'
  <2>1. /\ \A d \in doubleSpends' : TwiceTrue(d)
        /\ \A d \in orphans' : OrphanTrue(d)
    BY ReportIs DEF ReportInv
  <2> QED
    BY <2>1, ReportThen
<1>3. Branches(doubleBlocks)'
  <2>1. PICK b : b = doubleBlocks'
    OBVIOUS
  <2>2. Branches(b)'
    BY <2>1, BranchesStay
  <2> QED
    BY <2>1, <2>2 DEF Branches
<1> QED
  BY <1>1, <1>2, <1>3 DEF ReportInv

\* A step that compares.
LEMMA ReportGrows ==
    ASSUME FilesInv, LevelsInv, PlacesAre, ValidSpends, WrittenOnce, ScanDone, ReportInv,
           Comparing, Comparing', UNCHANGED <<found, byHeight, garbage, disk>>,
           NEW next, analyzeDoubleBlocks(next), Branches(doubleBlocks')
    PROVE  ReportInv'
<1>1. PICK S : doubleBlocks \in Seq(Seq(S)) /\ \A x \in S : Fits(x)
  BY DEF ReportInv, Branches
<1>2. \A x \in S : /\ Collected(x)
                   /\ Faulty(x.transactions) \/ Right(x.transactions, x.hash)
  BY <1>1 DEF Fits
<1>3. reorgedCoinbases \subseteq Lost /\ ReportIsTrue
  BY DEF ReportInv
<1>4. /\ reorgedCoinbases' \subseteq Lost
      /\ \A d \in doubleSpends' : TwiceTrue(d)
      /\ \A d \in orphans' : OrphanTrue(d)
  BY <1>1, <1>2, <1>3, ComparisonIsTrue
<1>5. ReportIsTrue' /\ reorgedCoinbases' \subseteq Lost'
  BY <1>4, ReportThen, SameTruth
<1>6. Branches(doubleBlocks)'
  <2>1. PICK b : b = doubleBlocks'
    OBVIOUS
  <2>2. Branches(b)'
    BY <2>1, BranchesStay
  <2> QED
    BY <2>1, <2>2 DEF Branches
<1> QED
  BY <1>5, <1>6 DEF ReportInv

LEMMA NextReports ==
    ASSUME ValidSpends, WrittenOnce
    PROVE  FilesInv /\ LevelsInv /\ PlacesAre /\ ReportInv /\ [Next]_vars => ReportInv'
<1> SUFFICES ASSUME FilesInv, LevelsInv, PlacesAre, ReportInv, [Next]_vars PROVE ReportInv'
  OBVIOUS
<1>1. Comparing => ScanDone
  BY DEF Comparing, ScanDone
<1>2. CASE Scan \/ StartLevels \/ NextLevel
  <2>1. ~Comparing /\ ~Comparing'
    BY <1>2 DEF Scan, ScanStep, OpenFile, moveNext, scanNextBlock, StartLevels, NextLevel,
                scanVars, Comparing
  <2>2. UNCHANGED <<doubleBlocks, reorgedCoinbases, doubleSpends, orphans>>
    BY <1>2 DEF Scan, StartLevels, NextLevel, dumpVars, collectVars, results
  <2> QED
    BY <2>1, <2>2 DEF ReportInv
<1>3. CASE LevelsDone
  <2>1. ~Comparing /\ Comparing'
        /\ UNCHANGED <<doubleBlocks, reorgedCoinbases, doubleSpends, orphans>>
    BY <1>3 DEF LevelsDone, Comparing, dumpVars, collectVars, results
  <2>2. /\ doubleBlocks' = <<>> /\ reorgedCoinbases' = {} /\ doubleSpends' = {}
        /\ orphans' = {}
    BY <2>1 DEF ReportInv
  <2>3. ReportIsTrue'
    BY <2>2 DEF ReportIsTrue
  <2>4. Branches(doubleBlocks)'
    BY <2>2, NoBranches DEF Branches
  <2> QED
    BY <2>1, <2>2, <2>3, <2>4 DEF ReportInv
<1>4. CASE Daemon \/ UNCHANGED vars
  <2>1. UNCHANGED <<step, found, byHeight, garbage, doubleBlocks, reorgedCoinbases,
                    doubleSpends, orphans>>
    BY <1>4 DEF Daemon, DaemonWrites, vars, dumpVars, scanVars, collectVars, results
  <2>2. DaemonWrites \/ UNCHANGED disk
    BY <1>4 DEF Daemon, vars, fileVars
  <2>3. CASE Comparing
    <3>1. Comparing' /\ Branches(doubleBlocks')
      BY <2>1, <2>3 DEF Comparing, ReportInv
    <3> QED
      BY <1>1, <2>1, <2>2, <2>3, <3>1, ReportStays
  <2>4. CASE ~Comparing
    BY <2>1, <2>4 DEF Comparing, ReportInv
  <2> QED
    BY <2>3, <2>4
<1>5. ASSUME AtHeight
      PROVE  Comparing /\ ScanDone /\ height \in 1..Len(byHeight) /\ Branches(doubleBlocks)
  BY <1>1, <1>5 DEF AtHeight, Comparing, ReportInv, LevelsInv
<1>6. CASE SingleBlock
  <2>1. /\ UNCHANGED <<step, disk, found, byHeight, garbage, doubleBlocks, reorgedCoinbases,
                       doubleSpends, orphans>>
        /\ AtHeight
    BY <1>6 DEF SingleBlock, scanVars, fileVars, results
  <2>2. Comparing' /\ Branches(doubleBlocks')
    BY <1>5, <2>1 DEF Comparing
  <2> QED
    BY <1>5, <2>1, <2>2, ReportStays
<1>7. CASE ContinueRun
  <2>1. /\ UNCHANGED <<step, disk, found, byHeight, garbage, reorgedCoinbases,
                       doubleSpends, orphans>>
        /\ AtHeight /\ doubleBlocks' = PlaceAll(doubleBlocks, byHeight[height])
    BY <1>7 DEF ContinueRun, scanVars, fileVars, results
  <2>2. Comparing'
    BY <1>5, <2>1 DEF Comparing
  <2>3. Branches(doubleBlocks')
    BY <1>5, <2>1, HeightIsCollected
  <2> QED
    BY <1>5, <2>1, <2>2, <2>3, ReportStays
<1>8. CASE StartRun
  <2>1. /\ UNCHANGED <<disk, found, byHeight, garbage>>
        /\ AtHeight /\ doubleBlocks' = PlaceAll(<<>>, byHeight[height])
        /\ analyzeDoubleBlocks("collect")
    BY <1>8 DEF StartRun, fileVars
  <2>2. Comparing'
    BY <2>1, Zenon DEF analyzeDoubleBlocks, Comparing
  <2>3. Branches(doubleBlocks')
    BY <1>5, <2>1, HeightIsCollected, NoBranches
  <2> QED
    BY <1>5, <2>1, <2>2, <2>3, ReportGrows
<1>9. CASE Finish
  <2>1. /\ UNCHANGED <<disk, found, byHeight, garbage, doubleBlocks>>
        /\ step = "collect" /\ analyzeDoubleBlocks("done")
    BY <1>9 DEF Finish, fileVars
  <2>2. Comparing'
    BY <2>1, Zenon DEF analyzeDoubleBlocks, Comparing
  <2>3. Comparing /\ ScanDone /\ Branches(doubleBlocks')
    BY <1>1, <2>1 DEF Comparing, ReportInv
  <2> QED
    BY <2>1, <2>2, <2>3, ReportGrows
<1> QED
  BY <1>2, <1>3, <1>4, <1>6, <1>7, <1>8, <1>9 DEF Next, Dump

LEMMA NoReport == Init => ReportInv
BY DEF Init, ScanInit, ReportInv, Comparing

-----------------------------------------------------------------------------
(* The blocks that were stored when the scan began.                        *)

\* What is read of block b, when all of it is.
ReadWhole(x, b) ==
    /\ x.hash = b /\ b \in Blocks
    /\ Right(x.transactions, x.hash)
    /\ ToSet(Contents[x.hash]) \subseteq {x.transactions[j].hash : j \in DOMAIN x.transactions}

\* A block that was wholly written when the scan began is read whole, although
\* the daemon goes on writing.
LEMMA StoredRead ==
    ASSUME FilesInv, WrittenOnce, NEW i \in 1..Len(found), found[i].hash \in stored,
           NEW x, x = readBlock(found[i].file, found[i].at)
    PROVE  ReadWhole(x, found[i].hash)
<1>1. PICK lay \in Layouts, old \in [Files -> Nat], n \in 0..4 :
          FilesAre(lay, n) /\ OldAre(lay, old) /\ ScanIs(lay, old)
  BY DEF FilesInv
<1>2. PICK e, b : e = found[i] /\ b = e.hash
  OBVIOUS
<1>3. PICK f \in Files, blocks \in Seq(Blocks) :
          /\ f = e.file /\ blocks = lay[f] /\ Noted(e, blocks)
          /\ disk[f] \in Seq(Token) /\ Prefix(f, blocks) /\ Len(disk[f]) \in Nat
  <2>1. found[i].file \in Files /\ Noted(found[i], lay[found[i].file])
    BY <1>1, ScanPlace DEF ScanIs
  <2>2. lay[found[i].file] \in Seq(Blocks) /\ Prefix(found[i].file, lay[found[i].file])
        /\ Len(disk[found[i].file]) \in Nat
    BY <1>1, <2>1, DiskIs
  <2>3. disk[found[i].file] \in Seq(Token)
    BY <2>2 DEF Prefix
  <2> HIDE DEF Token
  <2> QED
    BY <1>2, <2>1, <2>2, <2>3
<1>4. b \in Blocks /\ b # ZeroHeader /\ b \in stored
  BY <1>1, <1>2, FilesAssumption DEF OldAre
<1>5. PICK k \in 1..Len(blocks) : e.at = Start(blocks, k) + 2 /\ b = blocks[k]
  BY <1>2, <1>3, <1>4 DEF Noted
<1> DEFINE s == Start(blocks, k)
           m == Len(Body(b))
           d == Len(disk[f])
<1>6. /\ Len(blocks) \in Nat /\ s \in Nat \ {0} /\ m \in Nat
      /\ Start(blocks, k + 1) = s + m + 3
      /\ \A j \in 1..m : Written(blocks)[s + 2 + j] = Body(b)[j]
  <2>1. Len(blocks) \in Nat
    BY WholesAre
  <2>2. b = blocks[k]
    BY <1>5
  <2>3. /\ Start(blocks, k) \in Nat \ {0} /\ Len(Body(blocks[k])) \in Nat
        /\ Start(blocks, k + 1) = Start(blocks, k) + Len(Body(blocks[k])) + 3
        /\ \A j \in 1..Len(Body(blocks[k])) :
              Written(blocks)[Start(blocks, k) + 2 + j] = Body(blocks[k])[j]
    BY WrittenPlaces
  <2> QED
    BY <2>1, <2>2, <2>3
<1>7. Start(blocks, k + 1) <= d + 1
  <2>1. CASE k + 1 <= Len(blocks)
    <3>1. k + 1 \in 1..Len(blocks)
      BY <1>6, <2>1
    <3> QED
      BY <1>3, <3>1 DEF Prefix
  <2>2. CASE k = Len(blocks) /\ f # growing
    <3>1. disk[f] = Written(blocks)
      BY <1>1, <1>3, <2>2, DiskIs
    <3> QED
      BY <2>2, <3>1, <1>3, StartEnds, <1>6
  <2>3. CASE k = Len(blocks) /\ f = growing
    <3>1. blocks # <<>> /\ Last(blocks) = b
      BY <1>5, <1>6, <2>3 DEF Last
    <3>2. PICK g \in Files : \E l \in 1..old[g] : b = lay[g][l]
      BY <1>1, <1>4 DEF OldAre
    <3>3. PICK l \in 1..old[g] : b = lay[g][l]
      BY <3>2
    <3>4. old[g] \in Nat /\ old[g] <= Len(lay[g]) /\ lay[g] \in Seq(Blocks)
          /\ Start(lay[g], old[g] + 1) <= Len(disk[g]) + 1
      BY <1>1, DiskIs DEF OldAre
    <3>5. l \in DOMAIN lay[g]
      BY <3>4
    <3>6. g = f /\ l = Len(lay[g])
      BY <1>1, <1>3, <3>1, <3>3, <3>5 DEF WrittenOnce
    <3>7. old[g] = k
      BY <1>3, <1>6, <2>3, <3>4, <3>6
    <3> QED
      BY <1>3, <3>4, <3>6, <3>7
  <2> QED
    BY <1>6, <2>1, <2>2, <2>3
<1>8. PICK p \in Nat, q \in Nat : p = e.at /\ p = s + 2 /\ q = p + 1
  <2>1. e.at = s + 2 /\ s \in Nat
    BY <1>5, <1>6
  <2>2. \A a \in Nat : a + 2 \in Nat /\ (a + 2) + 1 \in Nat
    OBVIOUS
  <2> HIDE DEF s, m, d
  <2> QED
    BY <2>1, <2>2
<1> HIDE DEF s, m, d
<1>9. Stands(f, q, Body(b))
  <2>1. d \in Nat /\ p + m <= d
    BY <1>3, <1>6, <1>7, <1>8 DEF d
  <2>2. q \in Nat \ {0} /\ q + Len(Body(b)) <= Len(disk[f]) + 1
    <3>1. q \in Nat \ {0} /\ q + m <= d + 1
      <4>1. m \in Nat
        BY <1>6
      <4>2. \A u, v, w \in Nat : u + v <= w => u + 1 \in Nat \ {0} /\ (u + 1) + v <= w + 1
        OBVIOUS
      <4> QED
        BY <1>8, <2>1, <4>1, <4>2
    <3> QED
      BY <3>1 DEF d, m
  <2>3. \A j \in 1..Len(disk[f]) : disk[f][j] = Written(blocks)[j]
    BY <1>3 DEF Prefix
  <2>4. ASSUME NEW j \in 1..m PROVE disk[f][q - 1 + j] = Body(b)[j]
    <3>1. q - 1 + j = s + 2 + j /\ s + 2 + j \in 1..d
      BY <1>6, <1>8, <2>1
    <3> QED
      BY <1>6, <2>3, <3>1 DEF d
  <2> QED
    BY <1>3, <2>2, <2>4 DEF Stands, m
<1>10. x.transactions = [j \in 1..Len(Contents[b]) |-> ReadAs(b, p + 2, j)]
  BY <1>2, <1>3, <1>4, <1>8, <1>9, BlockRead
<1>11. x.hash = b
  <2>1. ReadFrom(x.hash, found[i])
    BY EntryRead
  <2> QED
    BY <1>2, <1>4, <2>1 DEF ReadFrom
<1>12. PICK l \in Nat \ {0} : l = Len(Contents[b]) /\ DOMAIN Contents[b] = 1..l
  BY <1>4, BodyListsAre
<1>13. /\ DOMAIN x.transactions = 1..l
       /\ \A j \in 1..l : x.transactions[j].hash = Contents[b][j]
  BY <1>10, <1>12 DEF ReadAs
<1>14. Right(x.transactions, x.hash)
  <2>1. Faulty(x.transactions) \/ Right(x.transactions, x.hash)
    BY EntryRead
  <2>2. \A j \in 1..l : x.transactions[j].inputs = InputTokens(Contents[b][j])
    BY <1>10, <1>12 DEF ReadAs
  <2>3. \A j \in 1..l : Len(InputTokens(Contents[b][j])) # 0
    BY <1>4, <1>12, BodyListsAre, InputTokensAre
  <2>4. ~Faulty(x.transactions)
    BY <1>13, <2>2, <2>3 DEF Faulty
  <2> QED
    BY <2>1, <2>4
<1> QED
  <2>1. ToSet(Contents[b]) \subseteq {x.transactions[j].hash : j \in DOMAIN x.transactions}
    BY <1>12, <1>13 DEF ToSet
  <2> QED
    BY <1>2, <1>4, <1>11, <1>14, <2>1 DEF ReadWhole

\* A block stands at one height only.
LEMMA SameHeight ==
    ASSUME FilesInv, LevelsInv, ScanDone, NEW k \in 1..Len(byHeight),
           NEW j \in 1..Len(byHeight[k]), NEW h \in 1..Len(byHeight),
           NEW i \in 1..Len(byHeight[h]), At(h, i).hash = At(k, j).hash
    PROVE  h = k
<1> DEFINE H == Len(byHeight)
           Only(n) == \A l \in 1..Len(byHeight[n]), m \in 1..H : \A u \in 1..Len(byHeight[m]) :
                         At(n, l).hash = At(m, u).hash => m = n
           T == {n \in Nat : n + 1 <= H => Only(n + 1)}
<1>1. H \in Nat
  BY HeightsAre
<1>2. ASSUME NEW n \in 1..H, NEW l \in 1..Len(byHeight[n])
      PROVE  At(n, l).hash \in All /\ At(n, l).prev = PrevOf(At(n, l).hash)
  <2>1. PICK m \in 1..Len(found) : At(n, l) = found[m]
    BY HeightsAre
  <2> QED
    BY <2>1, FoundAre
<1>3. ZeroHash \notin All
  BY FoundAre
<1>4. 0 \in T
  <2> SUFFICES ASSUME 1 <= H, NEW l \in 1..Len(byHeight[1]), NEW m \in 1..H,
                      NEW u \in 1..Len(byHeight[m]), At(1, l).hash = At(m, u).hash
               PROVE  m = 1
    OBVIOUS
  <2>1. 1 \in 1..H
    BY <1>1
  <2>2. At(m, u).prev = ZeroHash
    <3>1. At(1, l).prev = ZeroHash
      BY <2>1, HeightsAre
    <3>2. At(m, u).prev = PrevOf(At(m, u).hash)
      BY <1>2
    <3>3. At(1, l).prev = PrevOf(At(1, l).hash)
      BY <1>2, <2>1
    <3> QED
      BY <3>1, <3>2, <3>3
  <2>3. ASSUME m # 1 PROVE FALSE
    <3>1. m - 1 \in 1..H
      BY <1>1, <2>3
    <3>2. PICK v \in 1..Len(byHeight[m - 1]) : At(m, u).prev = At(m - 1, v).hash
      BY <2>3, HeightsAre
    <3> QED
      BY <1>2, <1>3, <2>2, <3>1, <3>2
  <2> QED
    BY <2>3
<1>5. ASSUME NEW n \in Nat, n \in T PROVE n + 1 \in T
  <2>1. PICK g \in Nat : g = n + 1
    OBVIOUS
  <2> SUFFICES ASSUME g + 1 <= H, NEW l \in 1..Len(byHeight[g + 1]), NEW m \in 1..H,
                      NEW u \in 1..Len(byHeight[m]), At(g + 1, l).hash = At(m, u).hash
               PROVE  m = g + 1
    BY <2>1
  <2>2. PICK w \in 1..H : w = g + 1 /\ g = w - 1 /\ w # 1 /\ g \in 1..H
    BY <1>1, <2>1
  <2>3. Only(g)
    BY <1>1, <1>5, <2>1, <2>2
  <2>4. PICK v \in 1..Len(byHeight[g]) : At(w, l).prev = At(g, v).hash
    <3>1. l \in 1..Len(byHeight[w])
      BY <2>2
    <3>2. \E v \in 1..Len(byHeight[w - 1]) : At(w, l).prev = At(w - 1, v).hash
      BY <2>2, <3>1, HeightsAre
    <3> QED
      BY <2>2, <3>2
  <2>5. At(m, u).prev = At(g, v).hash /\ At(g, v).hash \in All
    BY <1>2, <2>2, <2>4
  <2>6. m # 1
    BY <1>3, <2>5, HeightsAre
  <2>7. m - 1 \in 1..H
    BY <1>1, <2>6
  <2>8. PICK y \in 1..Len(byHeight[m - 1]) : At(m, u).prev = At(m - 1, y).hash
    BY <2>6, HeightsAre
  <2>9. m - 1 = g
    BY <2>3, <2>5, <2>7, <2>8
  <2> QED
    BY <1>1, <2>9
<1>6. Only(k)
  <2>1. k - 1 \in Nat /\ (k - 1) + 1 = k /\ k <= H
    BY <1>1
  <2> HIDE DEF Only, T, H
  <2>2. k - 1 \in T
    BY <1>4, <1>5, <2>1, Induction
  <2> QED
    BY <2>1, <2>2 DEF T
<1> QED
  BY <1>6

-----------------------------------------------------------------------------
(* What the branches hold.                                                 *)

\* Every member of one of the lists is in what they are joined to.
LEMMA FlattenHas ==
    ASSUME NEW S, NEW ss \in Seq(Seq(S)), NEW k \in 1..Len(ss), NEW j \in 1..Len(ss[k])
    PROVE  \E i \in 1..Len(FlattenSeq(ss)) : FlattenSeq(ss)[i] = ss[k][j]
<1>0. /\ Len(FlattenSeq(ss)) \in Nat /\ Len(Joined(ss, k - 1)) \in Nat /\ Len(ss[k]) \in Nat
      /\ Len(Joined(ss, k)) = Len(Joined(ss, k - 1)) + Len(ss[k])
      /\ Len(Joined(ss, k)) <= Len(FlattenSeq(ss))
  BY FlattenPlaces
<1>1. PICK a \in Nat, b \in Nat, n \in Nat :
        /\ a = Len(Joined(ss, k - 1)) /\ b = Len(ss[k]) /\ n = Len(FlattenSeq(ss))
        /\ a + b <= n
  BY <1>0
<1>2. FlattenSeq(ss)[a + j] = ss[k][j]
  BY <1>1, FlattenPlaces
<1>3. a + j \in 1..n
  <2>1. \A x, y, z \in Nat : \A u \in 1..y : x + y <= z => x + u \in 1..z
    OBVIOUS
  <2>2. j \in 1..b
    BY <1>1
  <2> QED
    BY <1>1, <2>1, <2>2
<1> QED
  BY <1>1, <1>2, <1>3

LEMMA MembersAre ==
    ASSUME NEW S, NEW branches \in Seq(Seq(S)), NEW k \in DOMAIN branches,
           NEW n \in DOMAIN branches[k]
    PROVE  branches[k][n] \in ToSet(AllBlocksOf(branches))
<1>1. k \in 1..Len(branches) /\ branches[k] \in Seq(S) /\ n \in 1..Len(branches[k])
  OBVIOUS
<1>2. PICK i \in 1..Len(FlattenSeq(branches)) : FlattenSeq(branches)[i] = branches[k][n]
  BY <1>1, FlattenHas
<1>3. FlattenSeq(branches) \in Seq(S)
  BY <1>1, FlattenPlaces
<1>4. i \in DOMAIN FlattenSeq(branches)
  BY <1>3
<1> QED
  BY <1>2, <1>4 DEF AllBlocksOf, ToSet

\* Everything that the blocks of the branches spend is compared.
LEMMA SpendsHave ==
    ASSUME NEW S, NEW branches \in Seq(Seq(S)), NEW blocks,
           blocks = ToSet(AllBlocksOf(branches)),
           \A y \in blocks : Right(y.transactions, y.hash),
           NEW x \in blocks, NEW j \in DOMAIN x.transactions,
           NEW k \in DOMAIN x.transactions[j].inputs
    PROVE  \E i \in DOMAIN SpendsIn(branches) : SpendsIn(branches)[i] = Spend(x, j, k)
<1> DEFINE T == Spends(blocks)
           txs == x.transactions
           list(l) == [u \in DOMAIN txs[l].inputs |-> Spend(x, l, u)]
<1>1. /\ Len(txs) \in Nat /\ DOMAIN txs = 1..Len(txs)
      /\ \A l \in DOMAIN txs : /\ DOMAIN txs[l].inputs = 1..Len(txs[l].inputs)
                               /\ Len(txs[l].inputs) \in Nat
  BY RightAre
<1>2. \A l \in DOMAIN txs : \A u \in DOMAIN txs[l].inputs : Spend(x, l, u) \in T
  BY DEF Spends
<1>3. SpendsOf(x) = FlattenSeq([l \in DOMAIN txs |-> list(l)])
  BY DEF SpendsOf, Spend
<1>4. SpendsIn(branches) \in Seq(T) /\ \A y \in blocks : SpendsOf(y) \in Seq(T)
  BY SpendsAre, SpendsOfAre
<1> HIDE DEF T
<1>5. ASSUME NEW l \in DOMAIN txs PROVE list(l) \in Seq(T) /\ Len(list(l)) = Len(txs[l].inputs)
  <2>1. PICK n \in Nat : n = Len(txs[l].inputs) /\ DOMAIN txs[l].inputs = 1..n
    BY <1>1
  <2>2. \A u \in 1..n : Spend(x, l, u) \in T
    BY <1>2, <2>1
  <2> HIDE DEF txs
  <2>3. [u \in 1..n |-> Spend(x, l, u)] \in Seq(T) /\ Len([u \in 1..n |-> Spend(x, l, u)]) = n
    BY <2>2
  <2> QED
    BY <2>1, <2>3
<1>6. list(j)[k] = Spend(x, j, k) /\ k \in 1..Len(list(j))
  BY <1>1, <1>5
<1>7. PICK n \in Nat : n = Len(txs) /\ DOMAIN txs = 1..n
  BY <1>1
<1> HIDE DEF list, txs
<1>8. PICK ss : ss = [l \in 1..n |-> list(l)]
  OBVIOUS
<1>9. ss \in Seq(Seq(T)) /\ Len(ss) = n /\ j \in 1..n
  BY <1>5, <1>7, <1>8 DEF txs
<1>10. PICK u \in 1..Len(SpendsOf(x)) : SpendsOf(x)[u] = Spend(x, j, k)
  <2>1. j \in 1..Len(ss) /\ k \in 1..Len(ss[j]) /\ ss[j][k] = Spend(x, j, k)
    BY <1>6, <1>8, <1>9
  <2>2. \E u \in 1..Len(FlattenSeq(ss)) : FlattenSeq(ss)[u] = ss[j][k]
    BY <1>9, <2>1, FlattenHas
  <2> QED
    BY <1>3, <1>7, <1>8, <2>1, <2>2
<1>11. PICK all \in Seq(S) : all = AllBlocksOf(branches)
  <2>1. Len(branches) \in 0..Len(branches)
    OBVIOUS
  <2> QED
    BY <2>1, JoinedSteps DEF AllBlocksOf
<1>12. PICK N \in Nat : N = Len(all) /\ DOMAIN all = 1..N
  OBVIOUS
<1>13. PICK v \in 1..N : all[v] = x
  BY <1>11, <1>12 DEF ToSet
<1>14. PICK tt : tt = [i \in 1..N |-> SpendsOf(all[i])]
  OBVIOUS
<1>15. \A i \in 1..N : SpendsOf(all[i]) \in Seq(T)
  BY <1>4, <1>11, <1>12 DEF ToSet
<1>16. tt \in Seq(Seq(T)) /\ Len(tt) = N
  BY <1>14, <1>15
<1>17. SpendsIn(branches) = FlattenSeq(tt)
  BY <1>11, <1>12, <1>14 DEF SpendsIn
<1>18. PICK i \in 1..Len(FlattenSeq(tt)) : FlattenSeq(tt)[i] = tt[v][u]
  <2>1. v \in 1..Len(tt) /\ tt[v] = SpendsOf(x)
    BY <1>13, <1>14, <1>16
  <2>2. u \in 1..Len(tt[v])
    BY <1>10, <2>1
  <2> HIDE DEF T
  <2> QED
    BY <1>16, <2>1, <2>2, FlattenHas
<1>19. tt[v][u] = Spend(x, j, k)
  BY <1>10, <1>13, <1>14
<1>20. DOMAIN SpendsIn(branches) = 1..Len(SpendsIn(branches))
  BY <1>4
<1> QED
  BY <1>17, <1>18, <1>19, <1>20

-----------------------------------------------------------------------------
\* x is block number i of height h, read whole.
Full(x, h, i) ==
    /\ x.hash = At(h, i).hash /\ x.mainChain = byHeight[h][i].mainChain
    /\ Right(x.transactions, x.hash)
    /\ ToSet(Contents[x.hash]) \subseteq {x.transactions[j].hash : j \in DOMAIN x.transactions}

\* The branches have it, and one of them ends with this block.
Has(branches, h, i) ==
    \E k \in DOMAIN branches : \E n \in DOMAIN branches[k] : Full(branches[k][n], h, i)
Ends(branches, hash) ==
    \E k \in DOMAIN branches : branches[k] # <<>> /\ Last(branches[k]).hash = hash

\* With x put at the end of every branch that ends with its predecessor, or as
\* a branch of its own, the branches are as they become.
Puts(branches, j, x, after) ==
    /\ \A h, i : Has(branches, h, i) => Has(after, h, i)
    /\ j \notin DOMAIN branches \/ Ends(branches, x.prev) =>
          Ends(after, x.hash) /\ \A h, i : Full(x, h, i) => Has(after, h, i)
    /\ \A hash : Ends(branches, hash) /\ (j \notin DOMAIN branches \/ x.prev # hash)
                 => Ends(after, hash)
    /\ Len(branches) \in Nat
    /\ j \notin DOMAIN branches => Len(after) = Len(branches) + 1

\* Place loses no block, and only the predecessor of what it puts on a branch is
\* the end of none afterwards.
LEMMA PlaceKeeps ==
    ASSUME NEW S, NEW branches \in Seq(Seq(S)), NEW j, NEW x \in S
    PROVE  Puts(branches, j, x, Place(branches, j, x))
<1>0. PICK after : after = Place(branches, j, x)
  OBVIOUS
<1> SUFFICES Puts(branches, j, x, after)
  BY <1>0
<1>1. PICK n \in Nat : n = Len(branches) /\ DOMAIN branches = 1..n
                       /\ \A k \in 1..n : branches[k] \in Seq(S)
  OBVIOUS
<1>2. \A s \in Seq(S) : /\ Append(s, x) # <<>> /\ Last(Append(s, x)) = x
                        /\ \E m \in DOMAIN Append(s, x) : Append(s, x)[m] = x
                        /\ \A m \in DOMAIN s : m \in DOMAIN Append(s, x)
                                               /\ Append(s, x)[m] = s[m]
  <2> SUFFICES ASSUME NEW s \in Seq(S)
               PROVE  /\ Append(s, x) # <<>> /\ Last(Append(s, x)) = x
                      /\ \E m \in DOMAIN Append(s, x) : Append(s, x)[m] = x
                      /\ \A m \in DOMAIN s : m \in DOMAIN Append(s, x)
                                             /\ Append(s, x)[m] = s[m]
    OBVIOUS
  <2>1. PICK l \in Nat : l = Len(s) /\ DOMAIN s = 1..l
    OBVIOUS
  <2>2. Len(Append(s, x)) = l + 1 /\ DOMAIN Append(s, x) = 1..(l + 1)
        /\ Append(s, x)[l + 1] = x
    BY <2>1
  <2>3. \A m \in 1..l : m \in 1..(l + 1) /\ Append(s, x)[m] = s[m]
    BY <2>1
  <2>4. l + 1 \in 1..(l + 1) /\ Append(s, x) # <<>>
    BY <2>2
  <2> QED
    BY <2>1, <2>2, <2>3, <2>4 DEF Last
<1>3. CASE j \notin DOMAIN branches
  <2>1. after = Append(branches, <<x>>)
    BY <1>0, <1>3 DEF Place
  <2>2. /\ Len(after) = n + 1 /\ DOMAIN after = 1..(n + 1) /\ after[n + 1] = <<x>>
        /\ \A k \in 1..n : after[k] = branches[k] /\ k \in 1..(n + 1)
        /\ n + 1 \in 1..(n + 1)
    <3>1. <<x>> \in Seq(S)
      BY One
    <3> QED
      BY <1>1, <2>1, <3>1
  <2>3. <<x>> # <<>> /\ 1 \in DOMAIN <<x>> /\ <<x>>[1] = x /\ Last(<<x>>) = x
    BY DEF Last
  <2>4. \A h, i : Has(branches, h, i) => Has(after, h, i)
    BY <1>1, <2>2 DEF Has
  <2>5. Ends(after, x.hash)
    BY <2>2, <2>3 DEF Ends
  <2>6. \A h, i : Full(x, h, i) => Has(after, h, i)
    BY <2>2, <2>3 DEF Has
  <2>7. \A hash : Ends(branches, hash) => Ends(after, hash)
    BY <1>1, <2>2 DEF Ends
  <2>8. Len(branches) \in Nat /\ Len(after) = Len(branches) + 1
    BY <1>1, <2>2
  <2> QED
    BY <2>4, <2>5, <2>6, <2>7, <2>8, Zenon DEF Puts
<1>4. CASE j \in DOMAIN branches
  <2>1. /\ DOMAIN after = 1..n
        /\ \A k \in 1..n : after[k] = IF Last(branches[k]).hash = x.prev
                                      THEN Append(branches[k], x) ELSE branches[k]
    BY <1>0, <1>1, <1>4 DEF Place
  <2>2. \A h, i : Has(branches, h, i) => Has(after, h, i)
    <3> SUFFICES ASSUME NEW h, NEW i, Has(branches, h, i) PROVE Has(after, h, i)
      OBVIOUS
    <3>1. PICK k \in 1..n : \E m \in DOMAIN branches[k] : Full(branches[k][m], h, i)
      BY <1>1 DEF Has
    <3>2. PICK m \in DOMAIN branches[k] : Full(branches[k][m], h, i)
      BY <3>1
    <3>3. m \in DOMAIN after[k] /\ after[k][m] = branches[k][m]
      BY <1>1, <1>2, <2>1
    <3> QED
      BY <2>1, <3>2, <3>3 DEF Has
  <2>3. Ends(branches, x.prev) =>
            Ends(after, x.hash) /\ \A h, i : Full(x, h, i) => Has(after, h, i)
    <3> SUFFICES ASSUME Ends(branches, x.prev)
                 PROVE  Ends(after, x.hash) /\ \A h, i : Full(x, h, i) => Has(after, h, i)
      OBVIOUS
    <3>1. PICK k \in 1..n : Last(branches[k]).hash = x.prev
      BY <1>1 DEF Ends
    <3>2. after[k] = Append(branches[k], x) /\ k \in DOMAIN after
      BY <2>1, <3>1
    <3>3. after[k] # <<>> /\ Last(after[k]) = x
      BY <1>1, <1>2, <3>2
    <3>4. PICK m \in DOMAIN after[k] : after[k][m] = x
      BY <1>1, <1>2, <3>2
    <3> QED
      BY <3>2, <3>3, <3>4 DEF Ends, Has
  <2>4. \A hash : Ends(branches, hash) /\ x.prev # hash => Ends(after, hash)
    BY <1>1, <2>1 DEF Ends
  <2> QED
    BY <1>1, <1>4, <2>2, <2>3, <2>4, Zenon DEF Puts
<1> QED
  BY <1>3, <1>4

-----------------------------------------------------------------------------
\* The blocks of a height find their places: each that ends a branch of its own
\* or follows the end of a branch that no other of them follows.
LEMMA PlaceAllKeeps ==
    ASSUME NEW S, NEW branches \in Seq(Seq(S)), NEW entries, Len(entries) \in Nat,
           \A j \in 1..Len(entries) : Read(entries[j]) \in S,
           \/ branches = <<>>
           \/ \A i, j \in 1..Len(entries) :
                 /\ Ends(branches, Read(entries[i]).prev)
                 /\ Read(entries[i]).prev # Read(entries[j]).hash
                 /\ i # j => Read(entries[i]).prev # Read(entries[j]).prev,
           NEW after, after = PlaceAll(branches, entries)
    PROVE  /\ \A h, i : Has(branches, h, i) => Has(after, h, i)
           /\ \A j \in 1..Len(entries) :
                 /\ Ends(after, Read(entries[j]).hash)
                 /\ \A h, i : Full(Read(entries[j]), h, i) => Has(after, h, i)
<1> DEFINE X(j) == Read(entries[j])
<1>1. PICK n \in Nat : n = Len(entries)
  OBVIOUS
<1>2. PICK g : /\ g[0] = branches /\ after = g[n]
               /\ \A i \in 1..n : g[i] = Place(g[i - 1], i, X(i))
               /\ \A i \in 0..n : g[i] \in Seq(Seq(S))
  BY <1>1, PlaceSteps
<1>3. \A j \in 1..n : X(j) \in S
  BY <1>1
<1>4. branches # <<>> => \A i, j \in 1..n :
          /\ Ends(branches, X(i).prev) /\ X(i).prev # X(j).hash
          /\ i # j => X(i).prev # X(j).prev
  BY <1>1
<1> HIDE DEF X
<1> DEFINE Placed(m) == \A j \in 1..m : /\ Ends(g[m], X(j).hash)
                                        /\ \A h, i : Full(X(j), h, i) => Has(g[m], h, i)
           Kept(m) == \A h, i : Has(branches, h, i) => Has(g[m], h, i)
           Open(m) == IF branches = <<>> THEN Len(g[m]) = m
                      ELSE \A j \in 1..n : j > m => Ends(g[m], X(j).prev)
           T == {m \in Nat : m <= n => Placed(m) /\ Kept(m) /\ Open(m)}
<1>5. 0 \in T
  <2>1. Placed(0) /\ Kept(0)
    BY <1>2
  <2>2. Open(0)
    BY <1>2, <1>4
  <2> QED
    BY <2>1, <2>2
<1>6. ASSUME NEW m \in Nat, m \in T PROVE m + 1 \in T
  <2> SUFFICES ASSUME m + 1 <= n PROVE Placed(m + 1) /\ Kept(m + 1) /\ Open(m + 1)
    OBVIOUS
  <2>1. PICK u \in 1..n : u = m + 1 /\ m = u - 1 /\ m \in 0..n /\ u > m
    OBVIOUS
  <2>2. Placed(m) /\ Kept(m) /\ Open(m)
    BY <1>6, <2>1
  <2>3. PICK before \in Seq(Seq(S)), x \in S :
          before = g[m] /\ x = X(u) /\ g[u] = Place(before, u, x)
    <3>1. g[m] \in Seq(Seq(S)) /\ X(u) \in S /\ g[u] = Place(g[m], u, X(u))
      BY <1>2, <1>3, <2>1
    <3> QED
      BY <3>1
  <2>4. /\ \A h, i : Has(before, h, i) => Has(g[u], h, i)
        /\ u \notin DOMAIN before \/ Ends(before, x.prev) =>
              Ends(g[u], x.hash) /\ \A h, i : Full(x, h, i) => Has(g[u], h, i)
        /\ \A hash : Ends(before, hash) /\ (u \notin DOMAIN before \/ x.prev # hash)
                     => Ends(g[u], hash)
        /\ Len(before) \in Nat
        /\ u \notin DOMAIN before => Len(g[u]) = Len(before) + 1
    <3>1. Puts(before, u, x, g[u])
      BY <2>3, PlaceKeeps
    <3> QED
      BY <3>1 DEF Puts
  <2>5. branches = <<>> => u \notin DOMAIN before /\ Len(before) = m
    <3> SUFFICES ASSUME branches = <<>> PROVE u \notin DOMAIN before /\ Len(before) = m
      OBVIOUS
    <3>1. Len(before) = m
      BY <2>2, <2>3
    <3>2. DOMAIN before = 1..m
      BY <3>1
    <3> QED
      BY <2>1, <3>1, <3>2
  <2>6. branches # <<>> => \A j \in 1..n : j >= u => Ends(before, X(j).prev)
    <3>1. branches # <<>> => \A j \in 1..n : j > m => Ends(before, X(j).prev)
      BY <2>2, <2>3
    <3>2. \A j \in 1..n : j >= u => j > m
      BY <2>1
    <3> QED
      BY <3>1, <3>2
  <2>7. u \notin DOMAIN before \/ Ends(before, x.prev)
    <3>1. u >= u
      OBVIOUS
    <3> QED
      BY <2>3, <2>5, <2>6, <3>1
  <2>8. \A hash : Ends(before, hash) /\ (branches = <<>> \/ x.prev # hash) => Ends(g[u], hash)
    BY <2>4, <2>5
  <2>9. Kept(u)
    BY <2>2, <2>3, <2>4
  <2>10. Placed(u)
    <3> SUFFICES ASSUME NEW j \in 1..u
                 PROVE  /\ Ends(g[u], X(j).hash)
                        /\ \A h, i : Full(X(j), h, i) => Has(g[u], h, i)
      OBVIOUS
    <3>1. CASE j = u
      BY <2>3, <2>4, <2>7, <3>1
    <3>2. CASE j # u
      <4>1. j \in 1..m /\ j \in 1..n
        BY <2>1, <3>2
      <4>2. Ends(before, X(j).hash) /\ \A h, i : Full(X(j), h, i) => Has(before, h, i)
        BY <2>2, <2>3, <4>1
      <4>3. branches = <<>> \/ x.prev # X(j).hash
        BY <1>4, <2>3, <4>1
      <4> QED
        BY <2>4, <2>8, <4>2, <4>3
    <3> QED
      BY <3>1, <3>2
  <2>11. Open(u)
    <3>1. CASE branches = <<>>
      BY <2>1, <2>4, <2>5, <3>1
    <3>2. CASE branches # <<>>
      <4> SUFFICES ASSUME NEW j \in 1..n, j > u PROVE Ends(g[u], X(j).prev)
        BY <3>2
      <4>1. Ends(before, X(j).prev) /\ j # u
        BY <2>6, <3>2
      <4>2. x.prev # X(j).prev
        BY <1>4, <2>3, <3>2, <4>1
      <4> QED
        BY <2>8, <4>1, <4>2
    <3> QED
      BY <3>1, <3>2
  <2> HIDE DEF Placed, Kept, Open
  <2> QED
    BY <2>1, <2>9, <2>10, <2>11
<1>7. n \in T
  <2> HIDE DEF T
  <2> QED
    BY <1>5, <1>6, Induction
<1>8. Placed(n) /\ Kept(n)
  <2>1. n <= n
    OBVIOUS
  <2> HIDE DEF Placed, Kept, Open
  <2> QED
    BY <1>7, <2>1
<1> QED
  BY <1>1, <1>2, <1>8 DEF X

-----------------------------------------------------------------------------
\* The block that the walk goes through stands at its height.
LEMMA WalkStands ==
    ASSUME FilesInv, LevelsInv, ScanDone, NEW h \in 1..Len(byHeight)
    PROVE  \E i \in 1..Len(byHeight[h]) : At(h, i).hash = Walk[h]
<1>1. FoundTrue /\ byHeight \in Seq(Heights)
  BY FilesInvMeansTrue DEF LevelsInv
<1>2. PICK at \in [1..Len(byHeight) + 1 -> Seq(Entry)] : LevelsAre(at)
  BY DEF LevelsInv
<1>3. PICK list \in Seq(Entry) : list = at[h]
  <2>1. h \in 1..Len(byHeight) + 1
    BY <1>1
  <2> HIDE DEF Entry
  <2> QED
    BY <1>2, <2>1
<1>4. byHeight[h] = Mark(list)
  BY <1>2, <1>3 DEF LevelsAre
<1>5. \E i \in 1..Len(list) : list[i].hash = Walk[h]
  BY <1>1, <1>2, <1>3, WalkIs, BestsAre
<1>6. Len(byHeight[h]) = Len(list) /\ \A i \in 1..Len(list) : At(h, i) = list[i]
  BY <1>4, MarkIs DEF At
<1> QED
  BY <1>5, <1>6

\* What is read for block number i of height h.
LEMMA HeightRead ==
    ASSUME FilesInv, LevelsInv, WrittenOnce, ScanDone, NEW h \in 1..Len(byHeight),
           NEW i \in 1..Len(byHeight[h]), NEW y, y = Read(byHeight[h][i])
    PROVE  /\ At(h, i).hash \in All /\ At(h, i).prev = PrevOf(At(h, i).hash)
           /\ At(h, i).hash # ZeroHeader => y.hash = At(h, i).hash /\ y.prev = At(h, i).prev
           /\ At(h, i).hash \in stored => Full(y, h, i)
           /\ Fits(y)
<1>1. PICK m \in 1..Len(found) : At(h, i) = found[m]
  BY HeightsAre
<1>2. PICK x : x = readBlock(found[m].file, found[m].at)
  OBVIOUS
<1>3. ReadFrom(x.hash, found[m]) /\ (Faulty(x.transactions) \/ Right(x.transactions, x.hash))
  BY <1>2, EntryRead
<1>4. /\ y.hash = x.hash /\ y.transactions = x.transactions /\ y.prev = x.prev
      /\ y.mainChain = byHeight[h][i].mainChain
  BY <1>1, <1>2 DEF Read, WithMark, At
<1>5. Fits(y)
  <2>1. Collected(y)
    BY <1>1, <1>3, <1>4 DEF Collected
  <2> QED
    BY <1>3, <1>4, <2>1 DEF Fits
<1>6. At(h, i).hash \in All /\ At(h, i).prev = PrevOf(At(h, i).hash)
  BY <1>1, FoundAre
<1>7. ASSUME At(h, i).hash # ZeroHeader
      PROVE  y.hash = At(h, i).hash /\ y.prev = At(h, i).prev
  <2>1. x.hash = At(h, i).hash
    BY <1>1, <1>3, <1>7 DEF ReadFrom
  <2>2. PICK f, p : f = found[m].file /\ p = found[m].at
    OBVIOUS
  <2>3. x.hash = HeaderAt(f, p).hash /\ x.prev = HeaderAt(f, p).prev
    BY <1>2, <2>2 DEF readBlock
  <2>4. x.prev = Prev[x.hash]
    BY <1>7, <2>1, <2>3 DEF HeaderAt
  <2> QED
    BY <1>4, <1>6, <1>7, <2>1, <2>4 DEF PrevOf
<1>8. ASSUME At(h, i).hash \in stored PROVE Full(y, h, i)
  <2>1. found[m].hash \in stored
    BY <1>1, <1>8
  <2>2. ReadWhole(x, found[m].hash)
    BY <1>2, <2>1, StoredRead
  <2> QED
    BY <1>1, <1>4, <2>2 DEF Full, ReadWhole
<1> QED
  BY <1>5, <1>6, <1>7, <1>8

\* No two blocks of height h follow the same one.
NoTwins(h) == \A i, j \in 1..Len(byHeight[h]) : At(h, i).prev = At(h, j).prev => i = j

\* Every block of height h that is not a header of zeros ends a branch.
EndsAll(branches, h) ==
    \A i \in 1..Len(byHeight[h]) :
        At(h, i).hash # ZeroHeader => Ends(branches, At(h, i).hash)

\* The branches have the stored blocks of height h.
HasAll(branches, h) ==
    \A i \in 1..Len(byHeight[h]) : At(h, i).hash \in stored => Has(branches, h, i)

\* A height is collected whole, when it is the first of its branches or no two
\* of its blocks follow the same one.
LEMMA HeightPlaced ==
    ASSUME FilesInv, LevelsInv, WrittenOnce, ScanDone, NEW h \in 1..Len(byHeight),
           NEW branches, Branches(branches),
           branches = <<>> \/ (h # 1 /\ NoTwins(h) /\ EndsAll(branches, h - 1)),
           NEW after, after = PlaceAll(branches, byHeight[h])
    PROVE  /\ \A g, i : Has(branches, g, i) => Has(after, g, i)
           /\ EndsAll(after, h) /\ HasAll(after, h)
<1> DEFINE X(i) == Read(byHeight[h][i])
<1>1. PICK n \in Nat : n = Len(byHeight[h])
  BY HeightsAre
<1>2. \A i \in 1..n :
        /\ At(h, i).hash \in All /\ At(h, i).prev = PrevOf(At(h, i).hash)
        /\ At(h, i).hash # ZeroHeader => X(i).hash = At(h, i).hash /\ X(i).prev = At(h, i).prev
        /\ At(h, i).hash \in stored => Full(X(i), h, i)
  BY <1>1, HeightRead
<1>3. PICK S : branches \in Seq(Seq(S)) /\ \A i \in 1..n : X(i) \in S
  <2>1. PICK S : branches \in Seq(Seq(S))
    BY DEF Branches
  <2>2. PICK R : R = S \cup {X(i) : i \in 1..n}
    OBVIOUS
  <2>3. S \subseteq R /\ \A i \in 1..n : X(i) \in R
    BY <2>2
  <2> HIDE DEF X
  <2>4. branches \in Seq(Seq(R))
    BY <2>1, <2>3, Widen
  <2> QED
    BY <2>3, <2>4
<1>4. ASSUME h # 1, NoTwins(h), EndsAll(branches, h - 1), NEW i \in 1..n, NEW j \in 1..n
      PROVE  /\ Ends(branches, X(i).prev) /\ X(i).prev # X(j).hash
             /\ i # j => X(i).prev # X(j).prev
  <2>1. h - 1 \in 1..Len(byHeight) /\ h - 1 # h
    BY <1>4
  <2>2. ASSUME NEW k \in 1..n
        PROVE  /\ X(k).hash = At(h, k).hash /\ X(k).prev = At(h, k).prev
               /\ \E l \in 1..Len(byHeight[h - 1]) :
                     At(h, k).prev = At(h - 1, l).hash /\ At(h - 1, l).hash # ZeroHeader
    <3>1. PICK l \in 1..Len(byHeight[h - 1]) : At(h, k).prev = At(h - 1, l).hash
      BY <1>1, <1>4, HeightsAre
    <3>2. At(h - 1, l).hash \in All
      <4>1. PICK m \in 1..Len(found) : At(h - 1, l) = found[m]
        BY <2>1, HeightsAre
      <4> QED
        BY <4>1, FoundAre
    <3>3. At(h, k).prev # ZeroHash /\ At(h, k).hash # ZeroHeader
      BY <1>2, <3>1, <3>2, FoundAre DEF PrevOf
    <3>4. At(h, k).prev \in Blocks
      BY <1>2, <3>3, FoundAre
    <3>5. At(h - 1, l).hash # ZeroHeader
      BY <3>1, <3>4, FoundAre
    <3> QED
      BY <1>2, <3>1, <3>3, <3>5
  <2>3. Ends(branches, X(i).prev)
    BY <1>4, <2>2 DEF EndsAll
  <2>4. X(i).prev # X(j).hash
    <3>1. PICK l \in 1..Len(byHeight[h - 1]) : At(h, i).prev = At(h - 1, l).hash
      BY <2>2
    <3>2. At(h - 1, l).hash # At(h, j).hash
      BY <1>1, <2>1, SameHeight
    <3> QED
      BY <2>2, <3>1, <3>2
  <2>5. i # j => X(i).prev # X(j).prev
    BY <1>1, <1>4, <2>2 DEF NoTwins
  <2> QED
    BY <2>3, <2>4, <2>5
<1> HIDE DEF X
<1>5. /\ \A g, i : Has(branches, g, i) => Has(after, g, i)
      /\ \A j \in 1..n : /\ Ends(after, X(j).hash)
                         /\ \A g, i : Full(X(j), g, i) => Has(after, g, i)
  <2>1. \/ branches = <<>>
        \/ \A i, j \in 1..n :
              /\ Ends(branches, X(i).prev) /\ X(i).prev # X(j).hash
              /\ i # j => X(i).prev # X(j).prev
    BY <1>4
  <2> QED
    BY <1>1, <1>3, <2>1, PlaceAllKeeps DEF X
<1>6. EndsAll(after, h)
  BY <1>1, <1>2, <1>5 DEF EndsAll
<1>7. HasAll(after, h)
  BY <1>1, <1>2, <1>5 DEF HasAll
<1> QED
  BY <1>5, <1>6, <1>7

-----------------------------------------------------------------------------
(* What the comparison finds.                                              *)

\* What ForksReported says of one pair of heights, of what is reported.
Off(h) == ({e.block.hash : e \in ToSet(byHeight[h])} \cap stored) \ {Walk[h]}
Spenders(b, o) == {t \in ToSet(Contents[b]) : o \in ToSet(Inputs[t])}
Spent(b) == UNION {ToSet(Inputs[t]) : t \in ToSet(Contents[b])}
NamedIn(o, ds) == UNION {{d.tx, d.alsoTx} : d \in {x \in ds : x.out = o}}
Reported(l, h, ds, os) ==
    \A b \in Off(h) :
        /\ Walk[l] \in stored =>
              \A o \in Spent(b) \cap Spent(Walk[l]) :
                  Cardinality(Spenders(b, o) \cup Spenders(Walk[l], o)) > 1 =>
                      Spenders(b, o) \cup Spenders(Walk[l], o) \subseteq NamedIn(o, ds)
        /\ garbage = {} =>
              \A o \in Spent(b), c \in Off(l) :
                  o.tx = Contents[c][1] => Spenders(b, o) \subseteq {d.tx : d \in os}

\* A block off the walk.
LEMMA OffIs ==
    ASSUME FilesInv, LevelsInv, ScanDone, NEW h \in 1..Len(byHeight), NEW b \in Off(h)
    PROVE  /\ b \in stored /\ b \in Blocks /\ b \notin ToSet(Walk)
           /\ \E i \in 1..Len(byHeight[h]) : At(h, i).hash = b
<1>1. DOMAIN byHeight[h] = 1..Len(byHeight[h]) /\ DOMAIN Walk = 1..Len(byHeight)
  BY HeightsAre
<1>2. PICK i \in 1..Len(byHeight[h]) : At(h, i).hash = b
  BY <1>1 DEF Off, ToSet, At
<1>3. b \in stored /\ b # Walk[h]
  BY DEF Off
<1>4. b \in Blocks
  BY <1>3 DEF FilesInv, OldAre
<1>5. ASSUME b \in ToSet(Walk) PROVE FALSE
  <2>1. PICK k \in 1..Len(byHeight) : b = Walk[k]
    BY <1>1, <1>5 DEF ToSet
  <2>2. h = k
    BY <1>2, <2>1, OneHeight
  <2> QED
    BY <1>3, <2>1, <2>2
<1> QED
  BY <1>2, <1>3, <1>4, <1>5

\* Spend number n is that of output o by transaction t of block b.
SpentAt(n, t, b, o, spends) ==
    /\ n \in Spending(o, spends) /\ spends[n].block = b
    /\ spends[n].tx.hash = t /\ spends[n].tx.inputs = InputTokens(t)

\* A block spends an output once.
LEMMA OneSpender ==
    ASSUME ValidBlocks, NEW b \in Blocks, NEW o, NEW t \in Spenders(b, o)
    PROVE  Spenders(b, o) = {t}
<1>1. ASSUME NEW u \in Spenders(b, o) PROVE u = t
  <2>1. /\ t \in ToSet(Contents[b]) /\ o \in ToSet(Inputs[t])
        /\ u \in ToSet(Contents[b]) /\ o \in ToSet(Inputs[u])
    BY DEF Spenders
  <2> QED
    BY <2>1 DEF ValidBlocks
<1> QED
  BY <1>1

\* That transaction t of block b spends output o is compared.
Compared(b, t, o, mark, spends) ==
    /\ b \in Blocks /\ t \in Txs /\ o # ZeroHash /\ Inputs[t] # <<>>
    /\ o \in {spends[n].out : n \in DOMAIN spends}
    /\ \E n : SpentAt(n, t, b, o, spends) /\ spends[n].mainChain = mark

\* What a collected block spends is compared.
LEMMA SpendFound ==
    ASSUME NEW S, NEW branches \in Seq(Seq(S)),
           \A x \in ToSet(AllBlocksOf(branches)) : Right(x.transactions, x.hash),
           NEW h, NEW i, Has(branches, h, i), NEW b, b = At(h, i).hash,
           NEW t \in ToSet(Contents[b]), NEW o \in ToSet(Inputs[t]),
           NEW spends, spends = SpendsIn(branches)
    PROVE  Compared(b, t, o, byHeight[h][i].mainChain, spends)
<1>1. PICK k \in DOMAIN branches : \E m \in DOMAIN branches[k] : Full(branches[k][m], h, i)
  BY DEF Has
<1>2. PICK m \in DOMAIN branches[k] : Full(branches[k][m], h, i)
  BY <1>1
<1>3. PICK x : x = branches[k][m] /\ x \in ToSet(AllBlocksOf(branches)) /\ Full(x, h, i)
  BY <1>2, MembersAre
<1>4. PICK j \in DOMAIN x.transactions : x.transactions[j].hash = t
  BY <1>3 DEF Full
<1>5. /\ b \in Blocks /\ t \in Txs /\ x.transactions[j].inputs = InputTokens(t)
      /\ x.hash = b /\ x.mainChain = byHeight[h][i].mainChain
  BY <1>3, <1>4, RightAre DEF Full
<1>6. DOMAIN Inputs[t] = 1..Len(Inputs[t])
  <2>1. Inputs[t] \in Seq([tx : Txs, n : Nat])
    BY <1>5, FilesAssumption
  <2> QED
    BY <2>1
<1>7. PICK u \in DOMAIN Inputs[t] : Inputs[t][u] = o
  BY DEF ToSet
<1>8. Inputs[t] # <<>> /\ o # ZeroHash
  BY <1>5, <1>7, FilesAssumption
<1>9. u \in DOMAIN InputTokens(t) /\ InputTokens(t)[u].from = o
  BY <1>7, <1>8 DEF InputTokens
<1>10. PICK n \in DOMAIN spends : spends[n] = Spend(x, j, u)
  <2>1. PICK blocks : blocks = ToSet(AllBlocksOf(branches))
    OBVIOUS
  <2>2. u \in DOMAIN x.transactions[j].inputs /\ x \in blocks
    BY <1>3, <1>5, <1>9, <2>1
  <2>3. \A y \in blocks : Right(y.transactions, y.hash)
    BY <2>1
  <2> QED
    BY <2>1, <2>2, <2>3, SpendsHave
<1>11. n \in Spending(o, spends)
  BY <1>5, <1>9, <1>10 DEF Spending, Spend
<1>12. /\ spends[n].tx.hash = t /\ spends[n].tx.inputs = InputTokens(t)
       /\ spends[n].block = b /\ spends[n].mainChain = byHeight[h][i].mainChain
  BY <1>4, <1>5, <1>10 DEF Spend
<1>13. SpentAt(n, t, b, o, spends)
  BY <1>11, <1>12 DEF SpentAt
<1>14. o \in {spends[l].out : l \in DOMAIN spends}
  BY <1>11 DEF Spending
<1> QED
  BY <1>5, <1>8, <1>12, <1>13, <1>14 DEF Compared

\* What the stored blocks of height h spend is compared.
AllCompared(h, spends) ==
    \A i \in 1..Len(byHeight[h]) : \A b \in stored : At(h, i).hash = b =>
        \A o : \A t \in Spenders(b, o) :
            Compared(b, t, o, byHeight[h][i].mainChain, spends)

\* It is, if the height is collected.
LEMMA HeightCompared ==
    ASSUME NEW S, NEW branches \in Seq(Seq(S)),
           \A x \in ToSet(AllBlocksOf(branches)) : Right(x.transactions, x.hash),
           NEW h, HasAll(branches, h), NEW spends, spends = SpendsIn(branches)
    PROVE  AllCompared(h, spends)
<1> SUFFICES ASSUME NEW i \in 1..Len(byHeight[h]), NEW b \in stored, At(h, i).hash = b,
                    NEW o, NEW t \in Spenders(b, o)
             PROVE  Compared(b, t, o, byHeight[h][i].mainChain, spends)
  BY DEF AllCompared
<1>1. t \in ToSet(Contents[b]) /\ o \in ToSet(Inputs[t])
  BY DEF Spenders
<1>2. Has(branches, h, i)
  BY DEF HasAll
<1> QED
  BY <1>1, <1>2, SpendFound

\* The first marked spend is one.
LEMMA FirstMarked ==
    ASSUME NEW T, NEW spends \in Seq(T), NEW o, Marked(o, spends) # {}
    PROVE  First(Marked(o, spends)) \in Marked(o, spends)
<1>1. Marked(o, spends) \in SUBSET Nat
  <2>1. DOMAIN spends = 1..Len(spends)
    OBVIOUS
  <2> QED
    BY <2>1 DEF Marked, Spending
<1>2. \E i \in Marked(o, spends) : \A j \in Marked(o, spends) : i <= j
  BY <1>1, LeastNumber
<1> QED
  BY <1>2 DEF First

\* Every spend by another transaction in another block than the first marked
\* one is noted down with it.
LEMMA TwiceNoted ==
    ASSUME NEW spends, NEW o, NEW main, main = spends[First(Marked(o, spends))],
           NEW n \in Spending(o, spends), spends[n].tx.hash # main.tx.hash,
           spends[n].block # main.block
    PROVE  [out |-> o, tx |-> main.tx, block |-> main.block,
            alsoTx |-> spends[n].tx, alsoBlock |-> spends[n].block] \in SpentTwice(o, spends)
BY DEF SpentTwice

\* What a list has is of what it is a list of.
LEMMA Members ==
    ASSUME NEW T, NEW s \in Seq(T)
    PROVE  \A i \in DOMAIN s : s[i] \in T
OBVIOUS

\* What was read of these blocks is right, and what spends o twice is in ds.
AllRight(blocks) == \A x \in blocks : Right(x.transactions, x.hash)
AllNoted(o, spends, ds) ==
    \A d \in SpentTwice(o, spends) : [d EXCEPT !.tx = @.hash, !.alsoTx = @.hash] \in ds

\* The transactions of two heights that spend the same output.
LEMMA TwiceMade ==
    ASSUME ValidBlocks, NEW blocks, AllRight(blocks),
           NEW spends \in Seq(Spends(blocks)), NEW b \in Blocks, NEW w \in Blocks,
           NEW o, NEW t \in Spenders(b, o), NEW u \in Spenders(w, o), t # u,
           NEW n, SpentAt(n, t, b, o, spends),
           NEW m, SpentAt(m, u, w, o, spends), spends[m].mainChain,
           NEW ds, AllNoted(o, spends, ds)
    PROVE  {t, u} \subseteq NamedIn(o, ds)
<1>0. \A i \in DOMAIN spends : spends[i] \in Spends(blocks)
  BY Members, Zenon
<1>1. Marked(o, spends) # {}
  BY DEF Marked, SpentAt
<1>2. PICK k \in Marked(o, spends) : k = First(Marked(o, spends))
  BY <1>1, FirstMarked
<1>3. PICK main : main = spends[k] /\ main \in Spends(blocks) /\ main.out = o
  <2>1. k \in DOMAIN spends /\ spends[k].out = o
    BY DEF Marked, Spending
  <2> QED
    BY <1>0, <2>1
<1>4. PICK x \in blocks, v \in Txs : SpendBy(main, x, v)
  BY <1>3, SpendIs DEF AllRight
<1>5. /\ n \in Spending(o, spends) /\ spends[n].tx.hash = t /\ spends[n].block = b
      /\ m \in Spending(o, spends) /\ spends[m].tx.hash = u /\ spends[m].block = w
  BY DEF SpentAt
<1>6. PICK y \in blocks, t1 \in Txs : SpendBy(spends[m], y, t1)
  <2>1. spends[m] \in Spends(blocks)
    BY <1>0, <1>5 DEF Spending
  <2> QED
    BY <2>1, SpendIs DEF AllRight
<1>7. o # ZeroHash
  <2>1. u \in Txs /\ o \in ToSet(Inputs[u])
    BY <1>5, <1>6 DEF SpendBy, Spenders
  <2> QED
    BY <2>1, FilesAssumption DEF ToSet
<1>8. v \in ToSet(Contents[main.block]) /\ o \in ToSet(Inputs[v]) /\ main.tx.hash = v
      /\ main.block \in Blocks
  BY <1>3, <1>4, <1>7 DEF SpendBy
<1>9. ASSUME NEW c \in Blocks, NEW z \in Spenders(c, o), z # v PROVE c # main.block
  <2>1. z \in ToSet(Contents[c]) /\ o \in ToSet(Inputs[z])
    BY DEF Spenders
  <2> QED
    BY <1>8, <1>9, <2>1 DEF ValidBlocks
<1>10. ASSUME NEW i \in Spending(o, spends), spends[i].tx.hash # v, spends[i].block # main.block
       PROVE  {v, spends[i].tx.hash} \subseteq NamedIn(o, ds)
  <2>1. PICK d : /\ d = [out |-> o, tx |-> main.tx, block |-> main.block,
                         alsoTx |-> spends[i].tx, alsoBlock |-> spends[i].block]
                 /\ d \in SpentTwice(o, spends)
    BY <1>2, <1>3, <1>8, <1>10, TwiceNoted
  <2>2. PICK e \in ds : e = [d EXCEPT !.tx = @.hash, !.alsoTx = @.hash]
    BY <2>1 DEF AllNoted
  <2>3. e.out = o /\ e.tx = v /\ e.alsoTx = spends[i].tx.hash
    BY <1>8, <2>1, <2>2
  <2> QED
    BY <2>3 DEF NamedIn
<1>11. t # v => {v, t} \subseteq NamedIn(o, ds)
  BY <1>5, <1>9, <1>10
<1>12. u # v => {v, u} \subseteq NamedIn(o, ds)
  BY <1>5, <1>9, <1>10
<1> QED
  BY <1>11, <1>12

-----------------------------------------------------------------------------
\* A transaction that spends a lost coinbase is noted down.
LEMMA OrphanNoted ==
    ASSUME NEW spends, NEW o, NEW coinbases, NEW n \in Spending(o, spends),
           NEW k \in DOMAIN spends[n].tx.inputs, spends[n].tx.inputs[k].from # ZeroHash,
           spends[n].tx.inputs[k].from.tx \in coinbases
    PROVE  \E d \in Orphaned(o, spends, coinbases) : d.tx = spends[n].tx
<1> DEFINE hits(tx) == {i \in DOMAIN tx.inputs : /\ tx.inputs[i].from # ZeroHash
                                                 /\ tx.inputs[i].from.tx \in coinbases}
<1>1. hits(spends[n].tx) # {}
  OBVIOUS
<1> HIDE DEF hits
<1>2. PICK s : s = spends[n]
  OBVIOUS
<1>3. PICK d : d = [tx |-> s.tx, block |-> s.block,
                    coinbase |-> s.tx.inputs[Final(hits(s.tx))].from.tx]
  OBVIOUS
<1>4. s \in {r \in {spends[i] : i \in Spending(o, spends)} : hits(r.tx) # {}}
  BY <1>1, <1>2
<1>5. d \in Orphaned(o, spends, coinbases)
  BY <1>3, <1>4, Zenon DEF Orphaned, hits
<1> QED
  BY <1>2, <1>3, <1>5

\* The coinbase of a collected block without a mark is lost.
LEMMA CoinbaseLost ==
    ASSUME ValidBlocks, NEW S, NEW branches \in Seq(Seq(S)), NEW h, NEW i,
           Has(branches, h, i), ~byHeight[h][i].mainChain, NEW c \in Blocks, c = At(h, i).hash
    PROVE  /\ Contents[c][1] \in CoinbasesLost(branches)
           /\ Contents[c][1] \in ToSet(Contents[c]) /\ Inputs[Contents[c][1]] = <<>>
<1>1. PICK k \in DOMAIN branches : \E m \in DOMAIN branches[k] : Full(branches[k][m], h, i)
  BY DEF Has
<1>2. PICK m \in DOMAIN branches[k] : Full(branches[k][m], h, i)
  BY <1>1
<1>3. PICK x : x = branches[k][m] /\ x \in ToSet(AllBlocksOf(branches)) /\ Full(x, h, i)
  BY <1>2, MembersAre
<1>4. PICK t : t = Contents[c][1] /\ t \in ToSet(Contents[c]) /\ Inputs[t] = <<>>
  <2>1. Len(Contents[c]) \in Nat \ {0} /\ DOMAIN Contents[c] = 1..Len(Contents[c])
    BY BodyListsAre
  <2>2. 1 \in DOMAIN Contents[c]
    BY <2>1
  <2> QED
    BY <2>2 DEF ValidBlocks, ToSet
<1>5. PICK j \in DOMAIN x.transactions : x.transactions[j].hash = t
  BY <1>3, <1>4 DEF Full
<1>6. t \in Txs /\ x.transactions[j].inputs = InputTokens(t)
  BY <1>3, <1>5, RightAre DEF Full
<1>7. PICK tx : tx = x.transactions[j] /\ tx.hash = t /\ tx.inputs[1].from = ZeroHash
  <2>1. InputTokens(t)[1].from = ZeroHash
    BY <1>4, <1>6, InputTokensAre, InputTokensSpend
  <2> QED
    BY <1>5, <1>6, <2>1
<1>8. tx \in {r \in ToSet(x.transactions) : r.inputs[1].from = ZeroHash}
  BY <1>7 DEF ToSet
<1>9. x \in {y \in ToSet(AllBlocksOf(branches)) : ~y.mainChain}
  BY <1>3 DEF Full
<1>10. t \in CoinbasesLost(branches)
  <2> DEFINE Of(block) == {r.hash : r \in {q \in ToSet(block.transactions) :
                                              q.inputs[1].from = ZeroHash}}
  <2>1. t \in Of(x)
    BY <1>7, <1>8
  <2> HIDE DEF Of
  <2>2. Of(x) \in {Of(block) : block \in {y \in ToSet(AllBlocksOf(branches)) : ~y.mainChain}}
    BY <1>9
  <2>3. CoinbasesLost(branches) =
            UNION {Of(block) : block \in {y \in ToSet(AllBlocksOf(branches)) : ~y.mainChain}}
    BY DEF CoinbasesLost, Of
  <2> QED
    BY <2>1, <2>2, <2>3
<1> QED
  BY <1>4, <1>10

\* No marked block spends what was made in a block off the walk, if no mark was
\* unset.
LEMMA NotMarked ==
    ASSUME FilesInv, LevelsInv, ValidSpends, ScanDone, garbage = {},
           NEW blocks, \A x \in blocks : Collected(x) /\ Right(x.transactions, x.hash),
           NEW spends \in Seq(Spends(blocks)),
           NEW h \in 1..Len(byHeight), NEW b \in Off(h), NEW o, NEW t \in Spenders(b, o),
           NEW c \in Blocks, c \notin ToSet(Walk), o.tx \in ToSet(Contents[c]),
           Inputs[o.tx] = <<>>
    PROVE  Marked(o, spends) = {}
<1> SUFFICES ASSUME NEW n \in Marked(o, spends) PROVE FALSE
  OBVIOUS
<1>0. \A i \in DOMAIN spends : spends[i] \in Spends(blocks)
  BY Members, Zenon
<1>1. PICK s \in Spends(blocks) : s.out = o /\ s.mainChain
  BY <1>0 DEF Marked, Spending
<1>2. PICK x \in blocks, v \in Txs : SpendBy(s, x, v)
  BY <1>1, SpendIs
<1>3. o # ZeroHash
  <2>1. b \in Blocks /\ t \in ToSet(Contents[b]) /\ o \in ToSet(Inputs[t])
    BY OffIs DEF Spenders
  <2>2. DOMAIN Contents[b] = 1..Len(Contents[b])
        /\ \A k \in 1..Len(Contents[b]) : Contents[b][k] \in Txs
    BY <2>1, BodyListsAre
  <2>3. t \in Txs
    BY <2>1, <2>2 DEF ToSet
  <2> QED
    BY <2>1, <2>3, FilesAssumption DEF ToSet
<1>4. v \in ToSet(Contents[x.hash]) /\ o \in ToSet(Inputs[v]) /\ x.mainChain
      /\ x.hash \in Blocks
  BY <1>1, <1>2, <1>3 DEF SpendBy
<1>5. PICK g \in 1..Len(byHeight) : \E i \in 1..Len(byHeight[g]) :
          x.mainChain = byHeight[g][i].mainChain /\ ReadFrom(x.hash, At(g, i))
  BY DEF Collected
<1>6. PICK i \in 1..Len(byHeight[g]) :
          x.mainChain = byHeight[g][i].mainChain /\ ReadFrom(x.hash, At(g, i))
  BY <1>5
<1>7. At(g, i).hash = Walk[g] /\ Walk[g] \in ToSet(Walk)
  <2>1. byHeight[g][i].mainChain <=> At(g, i).hash = Walk[g] \/ At(g, i).hash \in garbage
    BY HeightsAre
  <2> QED
    BY <1>4, <1>6, <2>1, WalkCloses
<1>8. CASE x.hash = At(g, i).hash
  <2>1. x.hash \in ToSet(Walk) \ {ZeroHeader}
    BY <1>4, <1>7, <1>8, FilesAssumption
  <2> QED
    BY <1>4, <2>1, OrphanIsOff
<1>9. CASE At(g, i).hash = ZeroHeader
  <2>1. Len(byHeight) = 1
    BY <1>7, <1>9, WalkCloses
  <2>2. h = 1
    BY <2>1
  <2>3. PICK j \in 1..Len(byHeight[h]) : At(h, j).hash = b
    BY OffIs
  <2>4. At(h, j).prev = ZeroHash /\ \E m \in 1..Len(found) : At(h, j) = found[m]
    BY <2>2, HeightsAre
  <2>5. b \in Blocks /\ PrevOf(b) = ZeroHash
    BY <2>3, <2>4, FoundAre, OffIs
  <2>6. Prev[b] = ZeroHash
    BY <2>5, FilesAssumption DEF PrevOf
  <2>7. Inputs[t] = <<>> /\ o \in ToSet(Inputs[t])
    BY <2>5, <2>6 DEF ValidSpends, Spenders
  <2> QED
    BY <2>7 DEF ToSet
<1> QED
  BY <1>6, <1>8, <1>9 DEF ReadFrom

-----------------------------------------------------------------------------
\* The comparison reports what is to be reported of two heights, if the branches
\* have them.
LEMMA ComparisonReports ==
    ASSUME FilesInv, LevelsInv, ValidSpends, ValidBlocks, ScanDone, Branches(doubleBlocks),
           NEW next, analyzeDoubleBlocks(next), step' # "aborted",
           NEW l \in 1..Len(byHeight), NEW h \in 1..Len(byHeight),
           HasAll(doubleBlocks, l), HasAll(doubleBlocks, h)
    PROVE  Reported(l, h, doubleSpends', orphans')
<1> DEFINE blocks == ToSet(AllBlocksOf(doubleBlocks))
           spends == SpendsIn(doubleBlocks)
           outs == {spends[i].out : i \in DOMAIN spends} \ {ZeroHash}
           lost == reorgedCoinbases \cup CoinbasesLost(doubleBlocks)
           twice == UNION {SpentTwice(o, spends) : o \in {p \in outs : Marked(p, spends) # {}}}
           orphaned == UNION {Orphaned(o, spends, lost) :
                                 o \in {p \in outs : Marked(p, spends) = {}}}
           faulty == \E block \in blocks : \E tx \in ToSet(block.transactions) : tx.inputs = <<>>
<1>1. /\ ~faulty
      /\ doubleSpends' = doubleSpends \cup
             {[d EXCEPT !.tx = @.hash, !.alsoTx = @.hash] : d \in twice}
      /\ orphans' = orphans \cup {[d EXCEPT !.tx = @.hash] : d \in orphaned}
  BY Zenon DEF analyzeDoubleBlocks, results
<1>2. PICK S : doubleBlocks \in Seq(Seq(S)) /\ \A x \in S : Fits(x)
  BY DEF Branches
<1>3. blocks \subseteq S
  <2>1. PICK all \in Seq(S) : all = AllBlocksOf(doubleBlocks)
    <3>1. Len(doubleBlocks) \in 0..Len(doubleBlocks)
      BY <1>2
    <3> QED
      BY <1>2, <3>1, JoinedSteps DEF AllBlocksOf
  <2>2. \A i \in DOMAIN all : all[i] \in S
    OBVIOUS
  <2> QED
    BY <2>1, <2>2 DEF ToSet
<1>4. \A x \in blocks : Collected(x) /\ Right(x.transactions, x.hash)
  <2>1. \A x \in blocks : ~Faulty(x.transactions)
    BY <1>1 DEF Faulty, ToSet
  <2> QED
    BY <1>2, <1>3, <2>1 DEF Fits
<1>5. spends \in Seq(Spends(blocks))
  BY <1>2, <1>4, SpendsAre
<1>6. \A x \in ToSet(AllBlocksOf(doubleBlocks)) : Right(x.transactions, x.hash)
  BY <1>4
<1> HIDE DEF faulty, blocks, spends, outs, lost
<1>7. ASSUME NEW o, o \in outs, Marked(o, spends) # {}, NEW d \in SpentTwice(o, spends)
      PROVE  [d EXCEPT !.tx = @.hash, !.alsoTx = @.hash] \in doubleSpends'
  <2>1. d \in twice
    BY <1>7
  <2> HIDE DEF twice
  <2> QED
    BY <1>1, <2>1
<1>8. ASSUME NEW o, o \in outs, Marked(o, spends) = {}, NEW d \in Orphaned(o, spends, lost)
      PROVE  [d EXCEPT !.tx = @.hash] \in orphans'
  <2>1. d \in orphaned
    BY <1>8
  <2> HIDE DEF orphaned
  <2> QED
    BY <1>1, <2>1
<1> HIDE DEF twice, orphaned
<1>9. AllCompared(l, spends) /\ AllCompared(h, spends)
  <2>1. spends = SpendsIn(doubleBlocks)
    BY DEF spends
  <2> QED
    BY <1>2, <1>6, <2>1, HeightCompared
<1>10. ASSUME NEW b \in Off(h)
       PROVE  b \in Blocks /\ b \in stored /\ \E i \in 1..Len(byHeight[h]) : At(h, i).hash = b
  BY OffIs
<1>11. ASSUME NEW b \in Off(h), Walk[l] \in stored, NEW o,
              Cardinality(Spenders(b, o) \cup Spenders(Walk[l], o)) > 1,
              NEW t \in Spenders(b, o), NEW u \in Spenders(Walk[l], o)
       PROVE  Spenders(b, o) \cup Spenders(Walk[l], o) \subseteq NamedIn(o, doubleSpends')
  <2>1. PICK w \in Blocks : w = Walk[l] /\ w \in stored
    <3>1. stored \subseteq Blocks
      BY DEF FilesInv, OldAre
    <3> QED
      BY <1>11, <3>1
  <2>2. PICK j \in 1..Len(byHeight[l]) : At(l, j).hash = w
    BY <2>1, WalkStands
  <2>3. byHeight[l][j].mainChain
    BY <2>1, <2>2, HeightsAre
  <2>4. u \in Spenders(w, o)
    BY <2>1
  <2>5. PICK m : SpentAt(m, u, w, o, spends) /\ spends[m].mainChain
    <3>1. Compared(w, u, o, byHeight[l][j].mainChain, spends)
      BY <1>9, <2>1, <2>2, <2>4 DEF AllCompared
    <3>2. PICK m : SpentAt(m, u, w, o, spends) /\ spends[m].mainChain = byHeight[l][j].mainChain
      BY <3>1 DEF Compared
    <3> QED
      BY <2>3, <3>2
  <2>6. PICK i \in 1..Len(byHeight[h]) : At(h, i).hash = b /\ b \in Blocks /\ b \in stored
    BY <1>10
  <2>7. Compared(b, t, o, byHeight[h][i].mainChain, spends)
    BY <1>9, <2>6 DEF AllCompared
  <2>8. o \in outs /\ \E n : SpentAt(n, t, b, o, spends)
    BY <2>7 DEF Compared, outs
  <2>9. Spenders(b, o) = {t} /\ Spenders(w, o) = {u}
    BY <2>4, <2>6, OneSpender
  <2>10. t # u
    <3>1. ASSUME t = u PROVE FALSE
      <4>1. Spenders(b, o) \cup Spenders(Walk[l], o) = {t}
        BY <2>1, <2>9, <3>1
      <4>2. Cardinality({t}) = 1
        BY FS_Singleton
      <4>3. 1 > 1
        BY <1>11, <4>1, <4>2, Zenon
      <4> QED
        BY <4>3
    <3> QED
      BY <3>1
  <2>11. Marked(o, spends) # {}
    BY <2>5 DEF Marked, SpentAt
  <2>12. PICK ds : ds = doubleSpends'
    OBVIOUS
  <2>13. AllNoted(o, spends, ds)
    BY <1>7, <2>8, <2>11, <2>12 DEF AllNoted
  <2>14. AllRight(blocks)
    BY <1>4 DEF AllRight
  <2>15. PICK bs, sp : bs = blocks /\ sp = spends
    OBVIOUS
  <2>16. PICK n : SpentAt(n, t, b, o, sp)
    BY <2>8, <2>15
  <2>17. {t, u} \subseteq NamedIn(o, ds)
    <3>1. ValidBlocks /\ AllRight(bs) /\ sp \in Seq(Spends(bs)) /\ AllNoted(o, sp, ds)
      BY <1>5, <2>13, <2>14, <2>15
    <3>2. SpentAt(m, u, w, o, sp) /\ sp[m].mainChain
      BY <2>5, <2>15
    <3>3. b \in Blocks /\ w \in Blocks /\ t \in Spenders(b, o) /\ u \in Spenders(w, o)
      BY <2>4, <2>6
    <3> QED
      BY <2>10, <2>16, <3>1, <3>2, <3>3, TwiceMade
  <2> QED
    BY <2>1, <2>9, <2>12, <2>17
<1>12. ASSUME NEW b \in Off(h), garbage = {}, NEW o, NEW c \in Off(l),
              o.tx = Contents[c][1], NEW t \in Spenders(b, o)
       PROVE  t \in {d.tx : d \in orphans'}
  <2>1. PICK i \in 1..Len(byHeight[h]) : At(h, i).hash = b /\ b \in Blocks /\ b \in stored
    BY <1>10
  <2>0. Compared(b, t, o, byHeight[h][i].mainChain, spends)
    BY <1>9, <2>1 DEF AllCompared
  <2>2. PICK n \in Spending(o, spends) :
          spends[n].tx.hash = t /\ spends[n].tx.inputs = InputTokens(t)
    BY <2>0 DEF Compared, SpentAt
  <2>3. o \in outs /\ Inputs[t] # <<>> /\ o # ZeroHash /\ o \in ToSet(Inputs[t])
    BY <2>0 DEF Compared, outs, Spenders
  <2>4. /\ c \in Blocks /\ c \in stored /\ c \notin ToSet(Walk)
        /\ \E j \in 1..Len(byHeight[l]) : At(l, j).hash = c
    BY OffIs
  <2>5. PICK j \in 1..Len(byHeight[l]) : At(l, j).hash = c /\ Has(doubleBlocks, l, j)
    BY <2>4 DEF HasAll
  <2>6. ~byHeight[l][j].mainChain
    <3>1. byHeight[l][j].mainChain <=> At(l, j).hash = Walk[l] \/ At(l, j).hash \in garbage
      BY HeightsAre
    <3> QED
      BY <1>12, <2>4, <2>5, <3>1, WalkCloses
  <2>7. /\ o.tx \in CoinbasesLost(doubleBlocks)
        /\ o.tx \in ToSet(Contents[c]) /\ Inputs[o.tx] = <<>>
    BY <1>2, <1>12, <2>4, <2>5, <2>6, CoinbaseLost
  <2>8. Marked(o, spends) = {}
    BY <1>4, <1>5, <1>12, <2>4, <2>7, NotMarked
  <2>9. PICK u \in DOMAIN Inputs[t] : Inputs[t][u] = o
    BY <2>3 DEF ToSet
  <2>10. u \in DOMAIN InputTokens(t) /\ InputTokens(t)[u].from = o
    BY <2>3, <2>9 DEF InputTokens
  <2>11. o.tx \in lost
    BY <2>7 DEF lost
  <2>12. PICK d \in Orphaned(o, spends, lost) : d.tx = spends[n].tx
    BY <2>2, <2>3, <2>10, <2>11, OrphanNoted
  <2>13. PICK e : e = [d EXCEPT !.tx = @.hash] /\ e \in orphans'
    BY <1>8, <2>3, <2>8
  <2>14. e.tx = t
    <3>1. \E f, g, k : d = [tx |-> f, block |-> g, coinbase |-> k]
      BY DEF Orphaned
    <3> QED
      BY <2>2, <2>12, <2>13, <3>1
  <2> QED
    BY <2>13, <2>14
<1>13. ASSUME NEW b \in Off(h), Walk[l] \in stored, NEW o \in Spent(b) \cap Spent(Walk[l]),
              Cardinality(Spenders(b, o) \cup Spenders(Walk[l], o)) > 1
       PROVE  Spenders(b, o) \cup Spenders(Walk[l], o) \subseteq NamedIn(o, doubleSpends')
  <2>1. PICK t \in Spenders(b, o) : TRUE
    BY DEF Spent, Spenders
  <2>2. PICK u \in Spenders(Walk[l], o) : TRUE
    BY DEF Spent, Spenders
  <2> QED
    BY <1>11, <1>13, <2>1, <2>2
<1>14. ASSUME NEW b \in Off(h), garbage = {}, NEW o \in Spent(b), NEW c \in Off(l),
              o.tx = Contents[c][1]
       PROVE  Spenders(b, o) \subseteq {d.tx : d \in orphans'}
  BY <1>12, <1>14
<1> QED
  BY <1>13, <1>14 DEF Reported

-----------------------------------------------------------------------------
(* The runs of heights with several blocks.                                *)

Multi(h) == Len(byHeight[h]) > 1
OneRun(l, h) == InOneRun(l, h) /\ InOneRun(h, l)

\* Heights below n with several blocks are at most p, the last of them.  The
\* branches have those that are in a run with p, and end with the blocks of p;
\* what there is to report of the others is reported.
RunsBelow(n, p) ==
    /\ n \in 1..Len(byHeight) + 1 /\ p \in {-1} \cup 1..n - 1
    /\ \A h \in 1..n - 1 : Multi(h) => h <= p
    /\ p # -1 => Multi(p)
RunHeld(p, branches) ==
    /\ \A h \in 1..p : InOneRun(h, p) => HasAll(branches, h)
    /\ p # -1 => EndsAll(branches, p)
RunsClosed(p, ds, os) ==
    \A h \in 1..p : ~InOneRun(h, p) =>
        \A l \in 1..Len(byHeight) : OneRun(l, h) => Reported(l, h, ds, os)
RunsAre(n, p, branches, ds, os) ==
    RunsBelow(n, p) /\ (NoForkOnFork => RunHeld(p, branches) /\ RunsClosed(p, ds, os))
AllReported(ds, os) ==
    NoForkOnFork =>
        \A l, h \in 1..Len(byHeight) : OneRun(l, h) => Reported(l, h, ds, os)

RunInv ==
    /\ ~Comparing => height = 1 /\ prevDoubleBlock = -1
    /\ step = "collect" =>
          RunsAre(height, prevDoubleBlock, doubleBlocks, doubleSpends, orphans)
    /\ step = "done" => AllReported(doubleSpends, orphans)

\* It depends on the blocks by height only.
LEMMA SameRuns ==
    ASSUME UNCHANGED <<found, byHeight, garbage, stored>>
    PROVE  /\ \A n, p, b, ds, os : RunsAre(n, p, b, ds, os) => RunsAre(n, p, b, ds, os)'
           /\ \A ds, os : AllReported(ds, os) => AllReported(ds, os)'
<1>1. Walk' = Walk
  BY DEF Walk
<1>2. \A l, h, ds, os : Reported(l, h, ds, os) => Reported(l, h, ds, os)'
  <2>1. \A h : Off(h)' = Off(h)
    BY <1>1 DEF Off
  <2>2. \A b : Spent(b)' = Spent(b) /\ \A o : Spenders(b, o)' = Spenders(b, o)
    BY DEF Spent, Spenders
  <2>3. \A o, ds : NamedIn(o, ds)' = NamedIn(o, ds)
    BY DEF NamedIn
  <2> SUFFICES ASSUME NEW l, NEW h, NEW ds, NEW os, Reported(l, h, ds, os)
               PROVE  Reported(l, h, ds, os)'
    OBVIOUS
  <2>4. garbage' = garbage /\ stored' = stored
    OBVIOUS
  <2>5. Walk'[l] = Walk[l]
    BY <1>1
  <2> QED
    BY <2>1, <2>2, <2>3, <2>4, <2>5, Zenon DEF Reported
<1>3. \A l, h : InOneRun(l, h)' <=> InOneRun(l, h)
  BY DEF InOneRun
<1>4. NoForkOnFork' <=> NoForkOnFork
  BY <1>3 DEF NoForkOnFork
<1>5. \A l, h : OneRun(l, h)' <=> OneRun(l, h)
  BY <1>3 DEF OneRun
<1>6. \A ds, os : AllReported(ds, os) => AllReported(ds, os)'
  BY <1>2, <1>4, <1>5 DEF AllReported
<1>7. \A p, ds, os : RunsClosed(p, ds, os) => RunsClosed(p, ds, os)'
  BY <1>2, <1>3, <1>5 DEF RunsClosed
<1>8. \A p, b : RunHeld(p, b) => RunHeld(p, b)'
  <2>1. \A h, i : At(h, i)' = At(h, i)
    BY DEF At
  <2>2. \A x, h, i : Full(x, h, i)' <=> Full(x, h, i)
    BY <2>1 DEF Full, Right
  <2>3. \A b, h, i : Has(b, h, i)' <=> Has(b, h, i)
    BY <2>2 DEF Has
  <2>4. \A b, h : HasAll(b, h)' <=> HasAll(b, h)
    BY <2>1, <2>3 DEF HasAll
  <2>5. \A b, h : EndsAll(b, h)' <=> EndsAll(b, h)
    BY <2>1 DEF EndsAll, Ends
  <2> QED
    BY <1>3, <2>4, <2>5 DEF RunHeld
<1>9. \A n, p : RunsBelow(n, p) => RunsBelow(n, p)'
  BY DEF RunsBelow, Multi
<1>10. \A n, p, b, ds, os : RunsAre(n, p, b, ds, os) => RunsAre(n, p, b, ds, os)'
  BY <1>4, <1>7, <1>8, <1>9 DEF RunsAre
<1> QED
  BY <1>6, <1>10

\* Heights of one run.
LEMMA RunsJoin ==
    ASSUME NEW l \in Nat, NEW h \in Nat, NEW p \in Nat, l <= p, h <= p, OneRun(l, h)
    PROVE  /\ InOneRun(h, p) => InOneRun(l, p)
           /\ Multi(l) /\ Multi(h)
<1>1. \A k \in l..h : Multi(k)
  BY DEF OneRun, InOneRun, Multi
<1>2. \A k \in h..l : Multi(k)
  BY DEF OneRun, InOneRun, Multi
<1>3. Multi(l) /\ Multi(h)
  <2>1. l \in l..h \/ l \in h..l
    OBVIOUS
  <2>2. h \in l..h \/ h \in h..l
    OBVIOUS
  <2> QED
    BY <1>1, <1>2, <2>1, <2>2
<1>4. ASSUME InOneRun(h, p) PROVE InOneRun(l, p)
  <2>1. \A k \in h..p : Multi(k)
    BY <1>4 DEF InOneRun, Multi
  <2>2. ASSUME NEW k \in l..p PROVE Multi(k)
    <3>1. k \in l..h \/ k \in h..p
      OBVIOUS
    <3> QED
      BY <1>1, <2>1, <3>1
  <2> QED
    BY <2>2 DEF InOneRun, Multi
<1> QED
  BY <1>3, <1>4

\* A run goes on with the next height if that has several blocks.
LEMMA RunGrows ==
    ASSUME NEW h \in Nat, NEW n \in Nat, h < n
    PROVE  InOneRun(h, n) <=> InOneRun(h, n - 1) /\ Multi(n)
<1>1. h..n = (h..(n - 1)) \cup {n}
  OBVIOUS
<1> QED
  BY <1>1 DEF InOneRun, Multi

\* What is reported stays so when more is.
LEMMA ReportedStays ==
    ASSUME NEW l, NEW h, NEW ds, NEW os, NEW ds2, NEW os2, ds \subseteq ds2, os \subseteq os2,
           Reported(l, h, ds, os)
    PROVE  Reported(l, h, ds2, os2)
<1>1. \A o : NamedIn(o, ds) \subseteq NamedIn(o, ds2)
  BY DEF NamedIn
<1>2. {d.tx : d \in os} \subseteq {d.tx : d \in os2}
  OBVIOUS
<1> QED
  BY <1>1, <1>2 DEF Reported

\* A comparison adds to the report, or the program ends.
LEMMA ComparisonAdds ==
    ASSUME NEW next, analyzeDoubleBlocks(next)
    PROVE  \/ step' = "aborted"
           \/ /\ step' = next
              /\ doubleSpends \subseteq doubleSpends' /\ orphans \subseteq orphans'
<1>1. CASE step' = "aborted"
  BY <1>1
<1>2. CASE step' # "aborted"
  <2>1. step' = next /\ doubleSpends \subseteq doubleSpends'
    BY <1>2, Zenon DEF analyzeDoubleBlocks
  <2>2. orphans \subseteq orphans'
    BY <1>2, Zenon DEF analyzeDoubleBlocks
  <2> QED
    BY <2>1, <2>2
<1> QED
  BY <1>1, <1>2

\* With a comparison all is reported of the runs below n.
LEMMA RunsReported ==
    ASSUME FilesInv, LevelsInv, ValidSpends, ValidBlocks, ScanDone, Branches(doubleBlocks),
           NEW next, analyzeDoubleBlocks(next), step' # "aborted", NoForkOnFork,
           NEW n, RunsAre(n, prevDoubleBlock, doubleBlocks, doubleSpends, orphans),
           NEW l \in 1..n - 1, NEW h \in 1..n - 1, OneRun(l, h)
    PROVE  Reported(l, h, doubleSpends', orphans')
<1>1. Len(byHeight) \in Nat
  BY DEF LevelsInv
<1>2. PICK p : p = prevDoubleBlock /\ RunsBelow(n, p) /\ RunHeld(p, doubleBlocks)
               /\ RunsClosed(p, doubleSpends, orphans)
  BY DEF RunsAre
<1>3. n \in Nat /\ l \in Nat /\ h \in Nat /\ l \in 1..Len(byHeight) /\ h \in 1..Len(byHeight)
  BY <1>1, <1>2 DEF RunsBelow
<1>4. Multi(l) /\ Multi(h)
  <2>1. PICK m \in Nat : l <= m /\ h <= m
    BY <1>3
  <2> QED
    BY <1>3, <2>1, RunsJoin
<1>5. l <= p /\ h <= p /\ p \in Nat /\ l \in 1..p /\ h \in 1..p
  BY <1>2, <1>3, <1>4 DEF RunsBelow
<1>6. CASE InOneRun(h, p)
  <2>1. InOneRun(l, p)
    BY <1>3, <1>5, <1>6, RunsJoin
  <2>2. HasAll(doubleBlocks, l) /\ HasAll(doubleBlocks, h)
    BY <1>2, <1>5, <1>6, <2>1 DEF RunHeld
  <2> QED
    BY <1>3, <2>2, ComparisonReports
<1>7. CASE ~InOneRun(h, p)
  <2>1. Reported(l, h, doubleSpends, orphans)
    BY <1>2, <1>3, <1>5, <1>7 DEF RunsClosed
  <2>2. PICK ds, os : ds = doubleSpends' /\ os = orphans'
                      /\ doubleSpends \subseteq ds /\ orphans \subseteq os
    BY ComparisonAdds
  <2> QED
    BY <2>1, <2>2, ReportedStays
<1> QED
  BY <1>6, <1>7

\* A height of a run that goes on.
LEMMA RunGoesOn ==
    ASSUME FilesInv, LevelsInv, WrittenOnce, ScanDone, Branches(doubleBlocks),
           NEW n \in 1..Len(byHeight), Multi(n), prevDoubleBlock = n - 1,
           RunsAre(n, prevDoubleBlock, doubleBlocks, doubleSpends, orphans)
    PROVE  RunsAre(n + 1, n, PlaceAll(doubleBlocks, byHeight[n]), doubleSpends, orphans)
<1>1. Len(byHeight) \in Nat /\ n \in Nat /\ n - 1 \in Nat
  BY DEF LevelsInv
<1>2. RunsBelow(n, n - 1)
  BY DEF RunsAre
<1>3. n # 1 /\ Multi(n - 1) /\ n - 1 \in 1..Len(byHeight)
  BY <1>1, <1>2 DEF RunsBelow
<1>4. RunsBelow(n + 1, n)
  BY <1>1, <1>2 DEF RunsBelow
<1>5. ASSUME NoForkOnFork
      PROVE  /\ RunHeld(n, PlaceAll(doubleBlocks, byHeight[n]))
             /\ RunsClosed(n, doubleSpends, orphans)
  <2>1. PICK after : after = PlaceAll(doubleBlocks, byHeight[n])
    OBVIOUS
  <2>2. RunHeld(n - 1, doubleBlocks) /\ RunsClosed(n - 1, doubleSpends, orphans)
    BY <1>5 DEF RunsAre
  <2>3. NoTwins(n)
    <3>1. InOneRun(n - 1, n)
      <4>1. (n - 1)..n = {n - 1, n}
        BY <1>1
      <4> QED
        BY <1>3, <4>1 DEF InOneRun, Multi
    <3>2. DOMAIN byHeight = 1..Len(byHeight) /\ DOMAIN byHeight[n] = 1..Len(byHeight[n])
      BY HeightsAre DEF LevelsInv
    <3> QED
      BY <1>3, <1>5, <3>1, <3>2 DEF NoTwins, NoForkOnFork, At
  <2>4. EndsAll(doubleBlocks, n - 1)
    BY <1>1, <2>2 DEF RunHeld
  <2>5. /\ \A g, i : Has(doubleBlocks, g, i) => Has(after, g, i)
        /\ EndsAll(after, n) /\ HasAll(after, n)
    BY <1>3, <2>1, <2>3, <2>4, HeightPlaced
  <2>6. ASSUME NEW h \in 1..n, InOneRun(h, n) PROVE HasAll(after, h)
    <3>1. CASE h = n
      BY <2>5, <3>1
    <3>2. CASE h # n
      <4>1. h \in Nat /\ h < n /\ h \in 1..n - 1
        BY <1>1, <3>2
      <4>2. InOneRun(h, n - 1)
        BY <1>1, <2>6, <4>1, RunGrows
      <4>3. HasAll(doubleBlocks, h)
        BY <2>2, <4>1, <4>2 DEF RunHeld
      <4> QED
        BY <2>5, <4>3 DEF HasAll
    <3> QED
      BY <3>1, <3>2
  <2>7. ASSUME NEW h \in 1..n, ~InOneRun(h, n), NEW l \in 1..Len(byHeight), OneRun(l, h)
        PROVE  Reported(l, h, doubleSpends, orphans)
    <3>1. h # n
      <4>1. InOneRun(n, n)
        <5>1. n..n = {n}
          BY <1>1
        <5> QED
          BY <5>1 DEF InOneRun, Multi
      <4> QED
        BY <2>7, <4>1
    <3>2. h \in Nat /\ h < n /\ h \in 1..n - 1
      BY <1>1, <3>1
    <3>3. ~InOneRun(h, n - 1)
      BY <1>1, <2>7, <3>2, RunGrows
    <3> QED
      BY <2>2, <2>7, <3>2, <3>3 DEF RunsClosed
  <2> QED
    BY <2>1, <2>5, <2>6, <2>7 DEF RunHeld, RunsClosed
<1> QED
  BY <1>4, <1>5 DEF RunsAre

\* The first height of a run.
LEMMA RunStarts ==
    ASSUME FilesInv, LevelsInv, ValidSpends, ValidBlocks, WrittenOnce, ScanDone,
           Branches(doubleBlocks), NEW n \in 1..Len(byHeight), Multi(n),
           prevDoubleBlock # n - 1,
           RunsAre(n, prevDoubleBlock, doubleBlocks, doubleSpends, orphans),
           NEW next, analyzeDoubleBlocks(next), step' # "aborted"
    PROVE  RunsAre(n + 1, n, PlaceAll(<<>>, byHeight[n]), doubleSpends', orphans')
<1>1. Len(byHeight) \in Nat /\ n \in Nat /\ n - 1 \in Nat
  BY DEF LevelsInv
<1>2. PICK p : p = prevDoubleBlock /\ RunsBelow(n, p)
  BY DEF RunsAre
<1>3. n # 1 => ~Multi(n - 1)
  BY <1>1, <1>2 DEF RunsBelow
<1>4. RunsBelow(n + 1, n)
  <2>1. \A h \in 1..n : h <= n
    BY <1>1
  <2> QED
    BY <1>1, <2>1 DEF RunsBelow
<1>5. ASSUME NEW h \in 1..n, InOneRun(h, n) PROVE h = n
  <2>1. CASE h # n
    <3>1. n - 1 \in h..n /\ n # 1
      BY <1>1, <2>1
    <3> QED
      BY <1>3, <1>5, <3>1 DEF InOneRun, Multi
  <2> QED
    BY <2>1
<1>6. InOneRun(n, n)
  <2>1. n..n = {n}
    BY <1>1
  <2> QED
    BY <2>1 DEF InOneRun, Multi
<1>7. ASSUME NoForkOnFork PROVE RunHeld(n, PlaceAll(<<>>, byHeight[n]))
  <2>1. PICK after, empty : empty = <<>> /\ after = PlaceAll(empty, byHeight[n])
    OBVIOUS
  <2>2. EndsAll(after, n) /\ HasAll(after, n)
    BY <2>1, NoBranches, HeightPlaced
  <2> QED
    BY <1>5, <2>1, <2>2 DEF RunHeld
<1>8. ASSUME NoForkOnFork, NEW h \in 1..n, ~InOneRun(h, n), NEW l \in 1..Len(byHeight),
             OneRun(l, h)
      PROVE  Reported(l, h, doubleSpends', orphans')
  <2>1. h # n
    BY <1>6, <1>8
  <2>2. h \in Nat /\ l \in Nat /\ h < n /\ h \in 1..n - 1
    BY <1>1, <2>1
  <2>3. l < n
    <3>1. CASE l >= n
      <4>1. \A k \in h..n : k \in h..l
        BY <1>1, <2>2, <3>1
      <4>2. InOneRun(h, n)
        BY <1>8, <4>1 DEF OneRun, InOneRun
      <4> QED
        BY <1>8, <4>2
    <3> QED
      BY <1>1, <2>2, <3>1
  <2>4. l \in 1..n - 1
    BY <1>1, <2>2, <2>3
  <2> QED
    BY <1>8, <2>2, <2>4, RunsReported
<1>9. PICK ds, os : ds = doubleSpends' /\ os = orphans'
  OBVIOUS
<1>10. NoForkOnFork => RunsClosed(n, ds, os)
  BY <1>8, <1>9 DEF RunsClosed
<1> QED
  BY <1>4, <1>7, <1>9, <1>10 DEF RunsAre

-----------------------------------------------------------------------------
\* Every step keeps the runs collected or reported.
LEMMA NextRuns ==
    ASSUME ValidSpends, ValidBlocks, WrittenOnce
    PROVE  FilesInv /\ LevelsInv /\ ReportInv /\ RunInv /\ [Next]_vars => RunInv'
<1> SUFFICES ASSUME FilesInv, LevelsInv, ReportInv, RunInv, [Next]_vars PROVE RunInv'
  OBVIOUS
<1>1. Comparing => ScanDone /\ Branches(doubleBlocks)
  BY DEF Comparing, ScanDone, ReportInv
<1>2. CASE Scan \/ StartLevels \/ NextLevel
  <2>1. ~Comparing /\ ~Comparing'
    BY <1>2 DEF Scan, ScanStep, OpenFile, moveNext, scanNextBlock, StartLevels, NextLevel,
                scanVars, Comparing
  <2>2. UNCHANGED <<height, prevDoubleBlock>>
    BY <1>2 DEF Scan, StartLevels, NextLevel, dumpVars, collectVars
  <2> QED
    BY <2>1, <2>2 DEF RunInv, Comparing
<1>3. CASE LevelsDone
  <2>1. /\ ~Comparing /\ step' = "collect" /\ Comparing'
        /\ UNCHANGED <<found, byHeight, garbage, stored, height, prevDoubleBlock,
                       doubleBlocks, doubleSpends, orphans>>
    BY <1>3 DEF LevelsDone, Comparing, dumpVars, collectVars, results, fileVars
  <2>2. height = 1 /\ prevDoubleBlock = -1
    BY <2>1 DEF RunInv
  <2>3. RunsAre(1, -1, doubleBlocks, doubleSpends, orphans)
    <3>1. Len(byHeight) \in Nat
      BY DEF LevelsInv
    <3>2. 1..-1 = {} /\ 1..(1 - 1) = {} /\ 1 \in 1..Len(byHeight) + 1
      BY <3>1
    <3> QED
      BY <3>2 DEF RunsAre, RunsBelow, RunHeld, RunsClosed
  <2>4. RunsAre(height, prevDoubleBlock, doubleBlocks, doubleSpends, orphans)'
    <3>1. PICK b, ds, os : b = doubleBlocks /\ ds = doubleSpends /\ os = orphans
      OBVIOUS
    <3>2. RunsAre(1, -1, b, ds, os)'
      BY <2>1, <2>3, <3>1, SameRuns
    <3> QED
      BY <2>1, <2>2, <3>1, <3>2
  <2> QED
    BY <2>1, <2>4 DEF RunInv
<1>4. CASE Daemon \/ UNCHANGED vars
  <2>1. UNCHANGED <<step, found, byHeight, garbage, stored, height, prevDoubleBlock,
                    doubleBlocks, doubleSpends, orphans>>
    BY <1>4 DEF Daemon, DaemonWrites, vars, dumpVars, scanVars, fileVars, collectVars, results
  <2>2. PICK n, p, b, ds, os : /\ n = height /\ p = prevDoubleBlock /\ b = doubleBlocks
                               /\ ds = doubleSpends /\ os = orphans
    OBVIOUS
  <2>3. /\ RunsAre(n, p, b, ds, os) => RunsAre(n, p, b, ds, os)'
        /\ AllReported(ds, os) => AllReported(ds, os)'
    BY <2>1, SameRuns
  <2> QED
    BY <2>1, <2>2, <2>3 DEF RunInv, Comparing
<1>5. ASSUME AtHeight
      PROVE  /\ step = "collect" /\ Comparing /\ ScanDone /\ Branches(doubleBlocks)
             /\ height \in 1..Len(byHeight) /\ height' = height + 1
             /\ RunsAre(height, prevDoubleBlock, doubleBlocks, doubleSpends, orphans)
  BY <1>1, <1>5 DEF AtHeight, Comparing, LevelsInv, RunInv
<1>6. ASSUME NEW n, NEW p, NEW b, NEW ds, NEW os, RunsAre(n, p, b, ds, os),
             UNCHANGED <<found, byHeight, garbage, stored>>,
             n = height', p = prevDoubleBlock', b = doubleBlocks', ds = doubleSpends',
             os = orphans', step' = "collect"
      PROVE  RunInv'
  <2>1. RunsAre(n, p, b, ds, os)'
    BY <1>6, SameRuns
  <2> QED
    BY <1>6, <2>1 DEF RunInv, Comparing
<1>7. CASE SingleBlock
  <2>1. /\ UNCHANGED <<step, found, byHeight, garbage, stored, doubleBlocks,
                       prevDoubleBlock, doubleSpends, orphans>>
        /\ AtHeight /\ Len(byHeight[height]) = 1
    BY <1>7 DEF SingleBlock, scanVars, fileVars, results
  <2>2. RunsAre(height + 1, prevDoubleBlock, doubleBlocks, doubleSpends, orphans)
    <3>1. RunsBelow(height, prevDoubleBlock)
      BY <1>5, <2>1 DEF RunsAre
    <3>2. ~Multi(height)
      BY <2>1 DEF Multi
    <3>3. Len(byHeight) \in Nat
      BY DEF LevelsInv
    <3>4. RunsBelow(height + 1, prevDoubleBlock)
      BY <1>5, <2>1, <3>1, <3>2, <3>3 DEF RunsBelow
    <3> QED
      BY <1>5, <2>1, <3>4 DEF RunsAre
  <2> QED
    BY <1>5, <1>6, <2>1, <2>2
<1>8. CASE ContinueRun
  <2>1. /\ UNCHANGED <<step, found, byHeight, garbage, stored, doubleSpends, orphans>>
        /\ AtHeight /\ Multi(height) /\ prevDoubleBlock = height - 1
        /\ doubleBlocks' = PlaceAll(doubleBlocks, byHeight[height])
        /\ prevDoubleBlock' = height
    BY <1>8 DEF ContinueRun, scanVars, fileVars, results, Multi
  <2>2. RunsAre(height + 1, height, PlaceAll(doubleBlocks, byHeight[height]),
                doubleSpends, orphans)
    BY <1>5, <2>1, RunGoesOn
  <2> QED
    BY <1>5, <1>6, <2>1, <2>2
<1>9. CASE StartRun
  <2>1. /\ UNCHANGED <<found, byHeight, garbage, stored>>
        /\ AtHeight /\ Multi(height) /\ prevDoubleBlock # height - 1
        /\ doubleBlocks' = PlaceAll(<<>>, byHeight[height])
        /\ prevDoubleBlock' = height /\ analyzeDoubleBlocks("collect")
    BY <1>9 DEF StartRun, fileVars, Multi
  <2>2. CASE step' = "aborted"
    BY <2>2 DEF RunInv, Comparing
  <2>3. CASE step' # "aborted"
    <3>1. step' = "collect"
      BY <2>1, <2>3, ComparisonAdds
    <3>2. PICK ds, os : ds = doubleSpends' /\ os = orphans'
      OBVIOUS
    <3>3. RunsAre(height + 1, height, PlaceAll(<<>>, byHeight[height]), ds, os)
      BY <1>5, <2>1, <2>3, <3>2, RunStarts
    <3> QED
      BY <1>5, <1>6, <2>1, <3>1, <3>2, <3>3
  <2> QED
    BY <2>2, <2>3
<1>10. CASE Finish
  <2>1. /\ UNCHANGED <<found, byHeight, garbage, stored>> /\ step = "collect"
        /\ height \notin DOMAIN byHeight /\ analyzeDoubleBlocks("done")
    BY <1>10 DEF Finish, fileVars
  <2>2. CASE step' = "aborted"
    BY <2>2 DEF RunInv, Comparing
  <2>3. CASE step' # "aborted"
    <3>1. step' = "done"
      BY <2>1, <2>3, ComparisonAdds
    <3>2. PICK ds, os : ds = doubleSpends' /\ os = orphans'
      OBVIOUS
    <3>3. RunsAre(height, prevDoubleBlock, doubleBlocks, doubleSpends, orphans)
      BY <2>1 DEF RunInv
    <3>4. Len(byHeight) \in Nat /\ DOMAIN byHeight = 1..Len(byHeight)
      BY DEF LevelsInv
    <3>5. height = Len(byHeight) + 1 /\ height - 1 = Len(byHeight)
      BY <2>1, <3>3, <3>4 DEF RunsAre, RunsBelow
    <3>6. Comparing
      BY <2>1 DEF Comparing
    <3>7. ASSUME NoForkOnFork, NEW l \in 1..Len(byHeight), NEW h \in 1..Len(byHeight),
                 OneRun(l, h)
          PROVE  Reported(l, h, doubleSpends', orphans')
      BY <1>1, <2>1, <2>3, <3>3, <3>5, <3>6, <3>7, RunsReported
    <3>8. AllReported(ds, os)
      BY <3>2, <3>7 DEF AllReported
    <3>9. AllReported(ds, os)'
      BY <2>1, <3>8, SameRuns
    <3> QED
      BY <3>1, <3>2, <3>9 DEF RunInv, Comparing
  <2> QED
    BY <2>2, <2>3
<1> QED
  BY <1>2, <1>3, <1>4, <1>7, <1>8, <1>9, <1>10 DEF Next, Dump

\* At the start there are none.
LEMMA NoRuns == Init => RunInv
BY DEF Init, ScanInit, RunInv, Comparing

\* With all of it reported, the forks are.
LEMMA RunsMeanForks == LevelsInv /\ RunInv => ForksReported
<1> SUFFICES ASSUME LevelsInv, RunInv, step = "done", NoForkOnFork PROVE ForksReported
  BY DEF ForksReported
<1>1. DOMAIN byHeight = 1..Len(byHeight)
  BY DEF LevelsInv
<1>2. \A l, h \in 1..Len(byHeight) : OneRun(l, h) => Reported(l, h, doubleSpends, orphans)
  BY DEF RunInv, AllReported
<1>3. ASSUME NEW l \in DOMAIN byHeight, NEW h \in DOMAIN byHeight,
             InOneRun(l, h), InOneRun(h, l), NEW b \in Off(h)
      PROVE  /\ Walk[l] \in stored =>
                   \A o \in Spent(b) \cap Spent(Walk[l]) :
                       Cardinality(Spenders(b, o) \cup Spenders(Walk[l], o)) > 1 =>
                           Spenders(b, o) \cup Spenders(Walk[l], o) \subseteq Named(o)
             /\ garbage = {} =>
                   \A o \in Spent(b), c \in Off(l) :
                       o.tx = Contents[c][1] => Spenders(b, o) \subseteq {d.tx : d \in orphans}
  <2>1. Reported(l, h, doubleSpends, orphans)
    BY <1>1, <1>2, <1>3 DEF OneRun
  <2>2. \A o : NamedIn(o, doubleSpends) = Named(o)
    BY DEF NamedIn, Named
  <2> QED
    BY <1>3, <2>1, <2>2 DEF Reported
<1> QED
  BY <1>3, Zenon DEF ForksReported, Off, Spenders, Spent

-----------------------------------------------------------------------------
(* The theorems.                                                           *)

\* A step of the dump that is none of the daemon's and none of the scan's
\* leaves the files and what is found alone, or ends the scan.
LEMMA DumpKeepsFiles == FilesInv /\ [Next]_vars => FilesInv'
<1> SUFFICES ASSUME FilesInv, [Next]_vars PROVE FilesInv'
  OBVIOUS
<1>1. CASE Daemon
  BY <1>1, FilesInvKept DEF Daemon
<1>2. CASE Scan
  BY <1>2, FilesInvKept DEF Scan
<1>3. CASE NextLevel \/ SingleBlock \/ ContinueRun \/ UNCHANGED vars
  <2>1. UNCHANGED <<fileVars, scanVars>>
    BY <1>3 DEF NextLevel, SingleBlock, ContinueRun, vars
  <2> QED
    BY <2>1, FilesInvKept
<1>4. CASE StartLevels \/ LevelsDone \/ StartRun \/ Finish
  <2>1. UNCHANGED <<fileVars, pending, file, pos, found>>
    BY <1>4 DEF StartLevels, LevelsDone, StartRun, Finish
  <2>2. step \in {"open", "level", "collect"} /\ (step = "open" => pending = {})
    BY <1>4 DEF StartLevels, LevelsDone, StartRun, Finish, AtHeight
  <2>3. step' \in {"level", "collect", "done", "aborted"}
    BY <1>4, Zenon DEF StartLevels, LevelsDone, StartRun, Finish, analyzeDoubleBlocks
  <2>4. step \notin {"magic", "block"} /\ (pending = {} \/ ScanDone) /\ ScanDone'
    BY <2>2, <2>3 DEF ScanDone
  <2> QED
    BY <2>1, <2>4, FilesInvAfter
<1> QED
  BY <1>1, <1>2, <1>3, <1>4 DEF Next, Dump

\* What the scan finds is right in every state of the dump.
LEMMA FilesInvHolds == Spec => []FilesInv
<1>1. Init => FilesInv
  BY FilesInvStart DEF Init
<1> QED
  BY <1>1, DumpKeepsFiles, PTL DEF Spec

\* Every entry the scan has noted down stands at its place in its file, with
\* the block's header behind it, however the daemon writes meanwhile.
THEOREM FoundCorrect == Spec => []FoundWhereStored
<1> QED
  BY FilesInvHolds, FilesInvMeansFound, PTL

\* readBlock, called with the place the scan noted down, reads the block that
\* was written there: its transactions in order, each with its hash, inputs
\* and outputs, with and without witnesses; a block that is still being
\* written when it is read is the exception.
THEOREM ReadBackCorrect == Spec => []BlocksReadBack
<1> QED
  BY FilesInvHolds, FilesInvMeansReadBack, PTL

\* At the start no height is built.
LEMMA NoLevels == Init => LevelsInv
BY DEF Init, ScanInit, LevelsInv, ScanDone, Heights

\* findLongestChain is asked height by height for the blocks of all branches
\* and marks, at each height, the block that the walk of the indexer goes
\* through, and no other except one whose mark was left unset and reads true.
THEOREM MarksCorrect == Spec => []MarksTheIndexedChain
<1>1. FilesInv /\ LevelsInv /\ [Next]_vars => LevelsInv'
  BY NextLevels
<1> QED
  BY <1>1, NoLevels, FilesInvHolds, LevelsMeanMarked, PTL DEF Spec

\* What the report says is so, for whatever the files hold, however many marks
\* were left unset and whenever the daemon wrote on: each double spend names two
\* transactions of two blocks that spend the output, and no orphan is in a
\* block of the chain.  It is assumed that the daemon lets no block onto a
\* chain that spends what was not made on it, and that a half-written block is
\* in the files once.
THEOREM ReportCorrect ==
    ASSUME ValidSpends, WrittenOnce
    PROVE  Spec => []ReportIsTrue
<1> DEFINE Inv == FilesInv /\ LevelsInv /\ PlacesAre /\ ReportInv
<1>1. Init => Inv
  BY FilesInvStart, NoLevels, NoPlaces, NoReport DEF Init
<1>2. Inv /\ [Next]_vars => Inv'
  BY DumpKeepsFiles, NextLevels, PlacesKept, NextReports
<1>3. Inv => ReportIsTrue
  BY DEF ReportInv, ReportIsTrue
<1> QED
  BY <1>1, <1>2, <1>3, PTL DEF Spec

\* Under the forks it is meant for, none of which forks again, the report is
\* complete: every transaction that spends what one of the chain spends too, or
\* a coinbase that was lost, is named, as far as the blocks were whole when the
\* scan began.  It is assumed as well that a block begins with a coinbase and
\* spends no output twice.
THEOREM ForksCorrect ==
    ASSUME ValidSpends, ValidBlocks, WrittenOnce
    PROVE  Spec => []ForksReported
<1> DEFINE Inv == FilesInv /\ LevelsInv /\ PlacesAre /\ ReportInv /\ RunInv
<1>1. Init => Inv
  BY FilesInvStart, NoLevels, NoPlaces, NoReport, NoRuns DEF Init
<1>2. Inv /\ [Next]_vars => Inv'
  BY DumpKeepsFiles, NextLevels, PlacesKept, NextReports, NextRuns
<1>3. Inv => ForksReported
  BY RunsMeanForks
<1> QED
  BY <1>1, <1>2, <1>3, PTL DEF Spec
=============================================================================
