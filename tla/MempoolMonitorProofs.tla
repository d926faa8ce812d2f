------------------------ MODULE MempoolMonitorProofs ------------------------
(***************************************************************************)
(* Theorems about MempoolMonitor: however its two threads interleave, no   *)
(* output is listed twice before a reorganisation.                         *)
(***************************************************************************)
EXTENDS MempoolMonitor, CommonLemmas

-----------------------------------------------------------------------------
(* How often an element occurs in a sequence.                              *)

\* The positions of a sequence and of one that is an element longer.
LEMMA Positions ==
    ASSUME NEW S, NEW s \in Seq(S)
    PROVE  /\ Len(s) \in Nat /\ DOMAIN s = 1..Len(s)
           /\ \A i \in 1..Len(s) : s[i] \in S
           /\ \A y \in S : /\ Append(s, y) \in Seq(S)
                           /\ DOMAIN Append(s, y) = 1..(Len(s) + 1)
                           /\ \A i \in 1..Len(s) : Append(s, y)[i] = s[i]
                           /\ Append(s, y)[Len(s) + 1] = y
BY LenProperties, ElementOfSeq, AppendProperties

LEMMA FinitelyMany ==
    ASSUME NEW n \in Nat, NEW T \in SUBSET (1..n)
    PROVE  IsFiniteSet(T) /\ Cardinality(T) \in Nat
<1>1. 1 \in Int /\ n \in Int
  OBVIOUS
<1>2. IsFiniteSet(1..n)
  BY <1>1, FS_Interval, Zenon
<1> QED
  BY <1>2, FS_Subset, FS_CardinalityType

LEMMA TimesType ==
    ASSUME NEW S, NEW s \in Seq(S), NEW x
    PROVE  /\ Times(x, s) \in Nat /\ Times(x, <<>>) = 0
           /\ x \notin Range(s) => Times(x, s) = 0
<1>1. {i \in DOMAIN s : s[i] = x} \in SUBSET (1..Len(s)) /\ Len(s) \in Nat
  BY Positions
<1>2. Times(x, s) \in Nat
  BY <1>1, FinitelyMany DEF Times
<1>3. {i \in DOMAIN <<>> : <<>>[i] = x} = {}
  OBVIOUS
<1>4. x \notin Range(s) => {i \in DOMAIN s : s[i] = x} = {}
  BY DEF Range
<1> QED
  BY <1>2, <1>3, <1>4, FS_EmptySet DEF Times

\* One more element.
LEMMA TimesAppend ==
    ASSUME NEW S, NEW s \in Seq(S), NEW x, NEW y \in S
    PROVE  Times(x, Append(s, y)) = Times(x, s) + IF x = y THEN 1 ELSE 0
<1> DEFINE T == {i \in DOMAIN s : s[i] = x}
           U == {i \in DOMAIN Append(s, y) : Append(s, y)[i] = x}
           n == Len(s)
<1>1. /\ n \in Nat /\ DOMAIN s = 1..n /\ DOMAIN Append(s, y) = 1..(n + 1)
      /\ \A i \in 1..n : Append(s, y)[i] = s[i]
      /\ Append(s, y)[n + 1] = y
  BY Positions
<1>2. IsFiniteSet(T) /\ Cardinality(T) \in Nat
  BY <1>1, FinitelyMany
<1>3. U = IF x = y THEN T \cup {n + 1} ELSE T
  <2>1. 1..(n + 1) = 1..n \cup {n + 1}
    BY <1>1
  <2> HIDE DEF n
  <2> QED
    BY <1>1, <2>1
<1>4. n + 1 \notin T
  BY <1>1
<1> HIDE DEF T, U
<1>5. Times(x, s) = Cardinality(T) /\ Times(x, Append(s, y)) = Cardinality(U)
  BY DEF Times, T, U
<1>6. CASE x = y
  <2>1. Cardinality(T \cup {n + 1}) = Cardinality(T) + 1
    BY <1>2, <1>4, FS_AddElement
  <2> QED
    BY <1>2, <1>3, <1>6, <1>5, <2>1
<1>7. CASE x # y
  BY <1>2, <1>3, <1>7, <1>5
<1> QED
  BY <1>6, <1>7

\* One element less.
LEMMA TimesTail ==
    ASSUME NEW S, NEW s \in Seq(S), s # <<>>, NEW x
    PROVE  /\ Head(s) \in S /\ Tail(s) \in Seq(S)
           /\ Times(x, Tail(s)) = Times(x, s) - IF x = Head(s) THEN 1 ELSE 0
           /\ x = Head(s) => Times(x, s) >= 1
<1> DEFINE n == Len(s)
           T == {i \in DOMAIN Tail(s) : Tail(s)[i] = x}
           U == {i \in DOMAIN s : s[i] = x}
           f == [i \in T |-> i + 1]
<1>1. /\ n \in Nat /\ n # 0 /\ DOMAIN s = 1..n /\ \A i \in 1..n : s[i] \in S
  BY Positions, EmptySeq
<1>2. /\ Head(s) \in S /\ Tail(s) \in Seq(S) /\ Len(Tail(s)) = n - 1
      /\ \A i \in 1..(n - 1) : Tail(s)[i] = s[i + 1]
      /\ Head(s) = s[1]
  BY HeadTailProperties
<1>3. DOMAIN Tail(s) = 1..(n - 1)
  BY <1>2, Positions
<1> HIDE DEF n
<1>4. IsFiniteSet(T) /\ IsFiniteSet(U) /\ Cardinality(T) \in Nat /\ Cardinality(U) \in Nat
  <2>1. n - 1 \in Nat
    BY <1>1
  <2> QED
    BY <1>1, <1>3, <2>1, FinitelyMany
<1>5. ExistsBijection(T, U \ {1})
  <2>1. f \in [T -> U \ {1}]
    BY <1>1, <1>2, <1>3
  <2>2. \A i, j \in T : f[i] = f[j] => i = j
    BY <1>1, <1>3
  <2>3. ASSUME NEW j \in U \ {1} PROVE \E i \in T : f[i] = j
    <3>1. j - 1 \in 1..(n - 1) /\ (j - 1) + 1 = j
      BY <1>1
    <3>2. j - 1 \in T
      BY <1>2, <1>3, <3>1
    <3> QED
      BY <3>1, <3>2
  <2>4. f \in Bijection(T, U \ {1})
    <3> HIDE DEF f, T, U
    <3> QED
      BY <2>1, <2>2, <2>3 DEF Bijection, Injection, Surjection, IsInjective
  <2> QED
    BY <2>4 DEF ExistsBijection
<1>6. Cardinality(U \ {1}) = Cardinality(T)
  BY <1>4, <1>5, FS_Bijection
<1>7. Cardinality(U \ {1}) = IF 1 \in U THEN Cardinality(U) - 1 ELSE Cardinality(U)
  BY <1>4, FS_RemoveElement
<1>8. (1 \in U) <=> (x = Head(s))
  BY <1>1, <1>2
<1>9. 1 \in U => Cardinality(U) # 0
  BY <1>4, FS_EmptySet
<1>10. Times(x, Tail(s)) = Cardinality(T) /\ Times(x, s) = Cardinality(U)
  BY DEF Times
<1> HIDE DEF T, U
<1>11. x = Head(s) => Cardinality(U) >= 1
  BY <1>4, <1>8, <1>9
<1> QED
  BY <1>2, <1>4, <1>6, <1>7, <1>8, <1>10, <1>11

\* The copy of a list without t has t nowhere, and everything else at most as
\* often as the list.
LEMMA CopiedWithout ==
    ASSUME NEW S, NEW list \in Seq(S), NEW t
    PROVE  /\ Without(list, t) \in Seq(S)
           /\ Times(t, Without(list, t)) = 0
           /\ \A u \in S : Times(u, Without(list, t)) <= Times(u, list)
<1> DEFINE N == Len(list)
           X == Seq(S)
           Step(k, c) == IF k \in 1..N /\ list[k] # t THEN Append(c, list[k]) ELSE c
           Rec(f) == f = [k \in 0..N |-> IF k = 0 THEN <<>>
                                         ELSE IF list[k] = t THEN f[k - 1]
                                         ELSE Append(f[k - 1], list[k])]
           G == [x \in Nat \X X |-> Step(x[1], x[2])]
           copied == Copied(list, t)
           UpTo(u, k) == {j \in 1..k : list[j] = u}
           Count(u, k) == Cardinality(UpTo(u, k))
<1>1. N \in Nat /\ DOMAIN list = 1..N /\ \A k \in 1..N : list[k] \in S
  BY Positions
<1>2. G \in [Nat \X X -> X]
  <2>1. \A k, c : c \in X => Step(k, c) \in X
    BY <1>1, Positions
  <2> HIDE DEF Step, X
  <2> QED
    BY <2>1
<1>3. PICK f : Iterated(f, X, <<>>, G, N)
  <2> HIDE DEF X, G, N
  <2>1. <<>> \in X
    BY DEF X
  <2> QED
    BY <1>1, <1>2, <2>1, Iterates
<1>4. \A k \in 1..N : f[k] = IF list[k] = t THEN f[k - 1] ELSE Append(f[k - 1], list[k])
  <2> SUFFICES ASSUME NEW k \in 1..N
               PROVE  f[k] = IF list[k] = t THEN f[k - 1] ELSE Append(f[k - 1], list[k])
    OBVIOUS
  <2>1. k - 1 \in 0..N /\ k \in Nat
    BY <1>1
  <2>2. f[k - 1] \in X /\ f[k] = G[<<k, f[k - 1]>>]
    BY <1>3, <2>1 DEF Iterated
  <2>3. <<k, f[k - 1]>> \in Nat \X X
    BY <2>1, <2>2
  <2>4. G[<<k, f[k - 1]>>] = Step(k, f[k - 1])
    <3> HIDE DEF X, Step
    <3> QED
      BY <2>3
  <2> QED
    BY <2>2, <2>4
<1>5. Rec(f)
  <2>1. f \in [0..N -> X] /\ f[0] = <<>>
    BY <1>3 DEF Iterated
  <2> HIDE DEF X, N
  <2>2. \A k \in 0..N : k = 0 \/ k \in 1..N
    BY <1>1
  <2> QED
    BY <1>4, <2>1, <2>2
<1>6. Rec(copied)
  <2>1. copied = CHOOSE g : Rec(g)
    BY DEF Copied
  <2> HIDE DEF Rec, copied
  <2> QED
    BY <1>5, <2>1
<1>7. /\ copied[0] = <<>>
      /\ \A k \in 1..N : copied[k] = IF list[k] = t THEN copied[k - 1]
                                      ELSE Append(copied[k - 1], list[k])
  <2> HIDE DEF copied
  <2>1. 0 \in 0..N /\ \A k \in 1..N : k \in 0..N /\ k # 0
    BY <1>1
  <2> HIDE DEF N
  <2> QED
    BY <1>6, <2>1
<1> HIDE DEF copied, Rec, G, Step, X, N
<1>8. ASSUME NEW u, NEW k \in Nat
      PROVE  /\ Count(u, k) \in Nat
             /\ Count(u, k + 1) = Count(u, k) + IF list[k + 1] = u THEN 1 ELSE 0
  <2>1. IsFiniteSet(UpTo(u, k)) /\ Cardinality(UpTo(u, k)) \in Nat
    BY FinitelyMany
  <2>2. 1..(k + 1) = 1..k \cup {k + 1} /\ k + 1 \notin UpTo(u, k)
    OBVIOUS
  <2>3. UpTo(u, k + 1) = IF list[k + 1] = u THEN UpTo(u, k) \cup {k + 1} ELSE UpTo(u, k)
    BY <2>2
  <2> HIDE DEF UpTo
  <2>4. Cardinality(UpTo(u, k) \cup {k + 1}) = Cardinality(UpTo(u, k)) + 1
    BY <2>1, <2>2, FS_AddElement
  <2> QED
    BY <2>1, <2>3, <2>4
<1> HIDE DEF Count, UpTo
<1> DEFINE P(k) == /\ copied[k] \in Seq(S)
                   /\ Times(t, copied[k]) = 0
                   /\ \A u \in S : Times(u, copied[k]) <= Count(u, k)
           K == {k \in Nat : k <= N => P(k)}
<1>9. 0 \in K
  <2>1. <<>> \in Seq(S)
    OBVIOUS
  <2>2. Times(t, <<>>) = 0 /\ \A u \in S : Times(u, <<>>) = 0
    BY <2>1, TimesType
  <2>3. \A u \in S : UpTo(u, 0) = {}
    BY DEF UpTo
  <2>4. \A u \in S : Count(u, 0) = 0
    BY <2>3, FS_EmptySet DEF Count
  <2>5. P(0)
    BY <1>7, <2>1, <2>2, <2>4
  <2> QED
    BY <2>5
<1>10. ASSUME NEW k \in Nat, k \in K PROVE k + 1 \in K
  <2> SUFFICES ASSUME k + 1 <= N PROVE P(k + 1)
    OBVIOUS
  <2>1. P(k) /\ k + 1 \in 1..N /\ (k + 1) - 1 = k
    BY <1>1, <1>10
  <2>2. CASE list[k + 1] = t
    <3>1. copied[k + 1] = copied[k]
      BY <1>7, <2>1, <2>2
    <3>2. ASSUME NEW u \in S PROVE Times(u, copied[k]) <= Count(u, k + 1)
      <4>1. /\ Count(u, k) \in Nat /\ Times(u, copied[k]) \in Nat
            /\ Times(u, copied[k]) <= Count(u, k)
        BY <1>8, <2>1, TimesType
      <4>2. Count(u, k + 1) = Count(u, k) + IF list[k + 1] = u THEN 1 ELSE 0
        BY <1>8
      <4> QED
        BY <4>1, <4>2
    <3> QED
      BY <2>1, <3>1, <3>2
  <2>3. CASE list[k + 1] # t
    <3> DEFINE y == list[k + 1]
    <3>1. copied[k + 1] = Append(copied[k], y) /\ y \in S
      BY <1>1, <1>7, <2>1, <2>3
    <3>2. \A u : Times(u, Append(copied[k], y)) =
                    Times(u, copied[k]) + IF u = y THEN 1 ELSE 0
      BY <2>1, <3>1, TimesAppend
    <3>3. \A u \in S : Times(u, copied[k]) \in Nat
      BY <2>1, TimesType
    <3>4. Append(copied[k], y) \in Seq(S)
      BY <2>1, <3>1, Positions
    <3>5. Times(t, Append(copied[k], y)) = 0
      BY <2>1, <2>3, <3>2
    <3>6. ASSUME NEW u \in S
          PROVE  Times(u, Append(copied[k], y)) <= Count(u, k + 1)
      <4>1. /\ Count(u, k) \in Nat /\ Times(u, copied[k]) \in Nat
            /\ Times(u, copied[k]) <= Count(u, k)
        BY <1>8, <2>1, <3>3
      <4>2. Count(u, k + 1) = Count(u, k) + IF y = u THEN 1 ELSE 0
        BY <1>8
      <4>3. Times(u, Append(copied[k], y)) = Times(u, copied[k]) + IF u = y THEN 1 ELSE 0
        BY <3>2
      <4> HIDE DEF y
      <4> QED
        BY <4>1, <4>2, <4>3
    <3> QED
      BY <3>1, <3>4, <3>5, <3>6
  <2> QED
    BY <2>2, <2>3
<1>11. P(N)
  <2>1. \A k \in Nat : k \in K
    <3> HIDE DEF K
    <3> QED
      BY <1>9, <1>10, Induction
  <2> QED
    BY <1>1, <2>1
<1>12. \A u : Times(u, list) = Count(u, N)
  BY <1>1 DEF Times, Count, UpTo
<1>13. Without(list, t) = copied[N]
  BY DEF Without, copied, N
<1> QED
  BY <1>11, <1>12, <1>13

-----------------------------------------------------------------------------
(* Types.  What the monitor enters is a transaction.                       *)

TypeInv == TypeOK /\ (mpc \in {"insert", "push"} => current \in Txs)

LEMMA InitTypes == Init => TypeInv
<1> SUFFICES ASSUME Init PROVE TypeInv
  OBVIOUS
<1>1. /\ <<>> \in Seq(SUBSET Txs) /\ <<>> \in Seq(Txs) /\ <<>> \in Seq(Addresses)
      /\ DOMAIN NothingChanged = {}
  BY DEF NothingChanged
<1>2. [a \in Addresses |-> <<>>] \in [Addresses -> Seq(Txs)]
  BY <1>1
<1> QED
  BY <1>1, <1>2, MempoolAssumption DEF Init, TypeInv, TypeOK

LEMMA DaemonTypes == TypeInv /\ Daemon => TypeInv'
<1> SUFFICES ASSUME TypeInv, Daemon PROVE TypeInv'
  OBVIOUS
<1> USE MempoolAssumption DEF TypeInv, TypeOK, maps, monitorVars, notifyVars
<1>1. ASSUME NEW t \in Txs, Accept(t) PROVE TypeInv'
  BY <1>1 DEF Accept
<1>2. ASSUME NEW t \in Txs, Evict(t) PROVE TypeInv'
  BY <1>2 DEF Evict
<1>3. ASSUME NEW t \in Txs, Unmine(t) PROVE TypeInv'
  BY <1>3 DEF Unmine
<1>4. ASSUME NEW S \in SUBSET Txs, Mine(S) PROVE TypeInv'
  <2>1. Append(blocks, S) \in Seq(SUBSET Txs)
    BY AppendProperties
  <2> QED
    BY <1>4, <2>1 DEF Mine
<1> QED
  BY <1>1, <1>2, <1>3, <1>4 DEF Daemon

LEMMA MonitorTypes == TypeInv /\ Monitor => TypeInv'
<1> SUFFICES ASSUME TypeInv, Monitor PROVE TypeInv'
  OBVIOUS
<1> USE MempoolAssumption DEF TypeInv, TypeOK, daemonVars, maps, notifyVars
<1>1. CASE Poll
  BY <1>1 DEF Poll
<1>2. CASE InsertTx
  BY <1>2 DEF InsertTx
<1>3. CASE PushOutput
  <2>1. Head(outputs) \in Addresses /\ Tail(outputs) \in Seq(Addresses)
    BY <1>3, TimesTail DEF PushOutput
  <2>2. Append(addressMempoolTransactions[Head(outputs)], current) \in Seq(Txs)
    BY <1>3, <2>1, AppendProperties DEF PushOutput
  <2> QED
    BY <1>3, <2>1, <2>2 DEF PushOutput
<1>4. CASE EndPush
  BY <1>4 DEF EndPush
<1>5. CASE EndPoll
  BY <1>5 DEF EndPoll
<1>6. ASSUME NEW t \in Txs, SkipKnown(t) PROVE TypeInv'
  BY <1>6 DEF SkipKnown
<1>7. ASSUME NEW t \in Txs, FetchTx(t) PROVE TypeInv'
  BY <1>7 DEF FetchTx
<1>8. ASSUME NEW t \in Txs, FetchFails(t) PROVE TypeInv'
  BY <1>8 DEF FetchFails
<1> QED
  BY <1>1, <1>2, <1>3, <1>4, <1>5, <1>6, <1>7, <1>8 DEF Monitor

\* What a step of the copying leaves in the table of copies.
LEMMA Copying ==
    ASSUME TypeInv, NEW a \in Addresses, CollectAddress(a)
    PROVE  LET list == addressMempoolTransactions[a]
           IN  /\ erased \in Range(list) =>
                     /\ DOMAIN changed' = DOMAIN changed \cup {a}
                     /\ changed'[a] = Without(list, erased)
                     /\ \A b \in DOMAIN changed \ {a} : changed'[b] = changed[b]
               /\ erased \notin Range(list) => changed' = changed
BY DEF CollectAddress

LEMMA Storing ==
    ASSUME TypeInv, NEW a \in Addresses, StoreAddress(a)
    PROVE  /\ DOMAIN changed' = DOMAIN changed \ {a}
           /\ \A b \in DOMAIN changed \ {a} : changed'[b] = changed[b]
           /\ addressMempoolTransactions'[a] = changed[a]
           /\ \A b \in Addresses \ {a} :
                 addressMempoolTransactions'[b] = addressMempoolTransactions[b]
BY DEF TypeInv, TypeOK, StoreAddress, Restrict

LEMMA IndexerTypes == TypeInv /\ Indexer => TypeInv'
<1> SUFFICES ASSUME TypeInv, Indexer PROVE TypeInv'
  OBVIOUS
<1> USE MempoolAssumption DEF TypeInv, TypeOK, daemonVars, maps, monitorVars
<1>1. CASE TakeBlock
  <2>1. Head(blocks) \in SUBSET Txs /\ Tail(blocks) \in Seq(SUBSET Txs)
    BY <1>1, TimesTail DEF TakeBlock
  <2> QED
    BY <1>1, <2>1 DEF TakeBlock
<1>2. CASE EndNotify
  BY <1>2 DEF EndNotify
<1>3. CASE WriteBlock
  BY <1>3 DEF WriteBlock
<1>4. ASSUME NEW t \in Txs, NotifyUnknown(t) PROVE TypeInv'
  BY <1>4 DEF NotifyUnknown
<1>5. ASSUME NEW t \in Txs, EraseTx(t) PROVE TypeInv'
  BY <1>5 DEF EraseTx, NothingChanged
<1>6. ASSUME NEW a \in Addresses, CollectAddress(a) PROVE TypeInv'
  <2>1. Without(addressMempoolTransactions[a], erased) \in Seq(Txs)
    BY CopiedWithout
  <2>2. DOMAIN changed' \subseteq Addresses /\ \A b \in DOMAIN changed' : changed'[b] \in Seq(Txs)
    BY <1>6, <2>1, Copying
  <2> QED
    BY <1>6, <2>2 DEF CollectAddress
<1>7. ASSUME NEW a \in Addresses, StoreAddress(a) PROVE TypeInv'
  <2>1. DOMAIN changed' \subseteq Addresses /\ \A b \in DOMAIN changed' : changed'[b] \in Seq(Txs)
    BY <1>7, Storing
  <2>2. addressMempoolTransactions' \in [Addresses -> Seq(Txs)]
    BY <1>7 DEF StoreAddress
  <2> QED
    BY <1>7, <2>1, <2>2 DEF StoreAddress
<1> QED
  BY <1>1, <1>2, <1>3, <1>4, <1>5, <1>6, <1>7 DEF Indexer

\* What the threads hold is of its kind, and the transactions still to be
\* notified are those of the block in hand.
THEOREM MempoolTypeCorrect == Spec => []TypeOK
<1>1. TypeInv /\ [Next]_vars => TypeInv'
  <2>1. TypeInv /\ UNCHANGED vars => TypeInv'
    BY DEF TypeInv, TypeOK, vars, daemonVars, maps, monitorVars, notifyVars
  <2> QED
    BY <2>1, DaemonTypes, MonitorTypes, IndexerTypes DEF Next
<1>2. TypeInv => TypeOK
  BY DEF TypeInv
<1> QED
  BY <1>1, <1>2, InitTypes, PTL DEF Spec

-----------------------------------------------------------------------------
(* No output twice, before a reorganisation returns a transaction.         *)

\* The daemon answers for it, or has been asked for it: the monitor may still
\* enter it.
CanBeFetched(t) == t \in snapshot \/ t \notin gone \cup mined

\* How often the monitor is yet to push t to the list of a.
Due(t, a) == IF mpc = "push" /\ t = current THEN Times(a, outputs)
             ELSE IF mpc = "insert" /\ t = current THEN Times(a, AddressesOf[t])
             ELSE 0

Room(t, a) == Times(a, AddressesOf[t]) - Due(t, a)

\* The list of a has t at most n times, but for a list whose copy without t is
\* to come; so has the copy that will take its place.
Holds(t, a, n) ==
    /\ a \in DOMAIN changed => Times(t, changed[a]) <= n
    /\ \/ t = erased /\ a \in toCollect \cup DOMAIN changed
       \/ Times(t, addressMempoolTransactions[a]) <= n

HasRoom == \A t \in Txs, a \in Addresses : Room(t, a) \in Nat /\ Holds(t, a, Room(t, a))

\* What may be entered again has left the lists.
Left == \A t \in Txs, a \in Addresses :
            t \notin mempoolTransactions /\ CanBeFetched(t) => Holds(t, a, 0)

Fetching ==
    /\ mpc \in {"insert", "push"} => current \in Txs \ snapshot
    /\ mpc = "push" => current \in mempoolTransactions \/ ~CanBeFetched(current)

OnChain ==
    /\ pool \cap (gone \cup mined) = {}
    /\ \A i \in DOMAIN blocks : blocks[i] \subseteq mined
    /\ blockTxs \subseteq mined

Notifying ==
    /\ ipc \in {"idle", "notify"} => erased = NoTx /\ toCollect = {} /\ DOMAIN changed = {}
    /\ ipc = "store" => toCollect = {}
    /\ ipc \in {"collect", "store"} => erased \in Txs

OnceInv == returns = 0 => HasRoom /\ Left /\ Fetching /\ OnChain /\ Notifying

listVars == <<addressMempoolTransactions, erased, toCollect, changed>>
roomVars == <<mpc, current, outputs>>

LEMMA Counts ==
    ASSUME TypeInv, NEW t \in Txs, NEW a \in Addresses
    PROVE  /\ Times(t, addressMempoolTransactions[a]) \in Nat
           /\ a \in DOMAIN changed => Times(t, changed[a]) \in Nat
           /\ Times(a, outputs) \in Nat /\ Times(a, AddressesOf[t]) \in Nat
           /\ Times(a, <<>>) = 0
<1>1. /\ addressMempoolTransactions[a] \in Seq(Txs)
      /\ a \in DOMAIN changed => changed[a] \in Seq(Txs)
      /\ outputs \in Seq(Addresses) /\ AddressesOf[t] \in Seq(Addresses)
  BY MempoolAssumption DEF TypeInv, TypeOK
<1> QED
  BY <1>1, TimesType

LEMMA HoldsMore ==
    ASSUME TypeInv, NEW t \in Txs, NEW a \in Addresses, NEW n \in Int, NEW m \in Int,
           n <= m, Holds(t, a, n)
    PROVE  Holds(t, a, m)
BY Counts DEF Holds

\* A step that leaves the lists alone only has to look at what is due.
LEMMA QuietRoom ==
    ASSUME TypeInv, HasRoom, UNCHANGED listVars,
           \A t \in Txs, a \in Addresses :
               /\ Room(t, a)' \in Nat
               /\ Room(t, a)' = Room(t, a) \/ Holds(t, a, 0)
    PROVE  HasRoom'
<1> SUFFICES ASSUME NEW t \in Txs, NEW a \in Addresses
             PROVE  (Room(t, a) \in Nat /\ Holds(t, a, Room(t, a)))'
  BY DEF HasRoom
<1> DEFINE n == Room(t, a)'
<1>1. n \in Nat
  OBVIOUS
<1>2. Holds(t, a, n)
  <2>1. CASE Room(t, a)' = Room(t, a)
    BY <2>1 DEF HasRoom
  <2>2. CASE Holds(t, a, 0)
    BY <1>1, <2>2, HoldsMore
  <2> QED
    BY <2>1, <2>2
<1> HIDE DEF n
<1>3. /\ a \in DOMAIN changed' => Times(t, changed'[a]) <= n
      /\ \/ t = erased' /\ a \in toCollect' \cup DOMAIN changed'
         \/ Times(t, addressMempoolTransactions'[a]) <= n
  BY <1>2 DEF Holds, listVars
<1> QED
  BY <1>1, <1>3 DEF Holds, n

LEMMA SameRoom ==
    ASSUME UNCHANGED roomVars, NEW t \in Txs, NEW a \in Addresses
    PROVE  Room(t, a)' = Room(t, a)
BY DEF Room, Due, roomVars

LEMMA DaemonRoom == TypeInv /\ HasRoom /\ Daemon => HasRoom'
<1> SUFFICES ASSUME TypeInv, HasRoom, Daemon PROVE HasRoom'
  OBVIOUS
<1>1. UNCHANGED listVars /\ UNCHANGED roomVars
  BY DEF Daemon, Accept, Evict, Mine, Unmine, maps, monitorVars, notifyVars, listVars, roomVars
<1>2. \A t \in Txs, a \in Addresses : Room(t, a)' = Room(t, a) /\ Room(t, a) \in Nat
  BY <1>1, SameRoom DEF HasRoom
<1> QED
  BY <1>1, <1>2, QuietRoom

LEMMA MonitorRoom ==
    TypeInv /\ HasRoom /\ Left /\ Fetching /\ Monitor => HasRoom'
<1> SUFFICES ASSUME TypeInv, HasRoom, Left, Fetching, Monitor PROVE HasRoom'
  OBVIOUS
<1> DEFINE Same == \A t \in Txs, a \in Addresses : Room(t, a)' = Room(t, a)
<1>1. ASSUME Same, UNCHANGED listVars PROVE HasRoom'
  <2>1. \A t \in Txs, a \in Addresses : Room(t, a)' = Room(t, a) /\ Room(t, a) \in Nat
    BY <1>1 DEF HasRoom
  <2> QED
    BY <1>1, <2>1, QuietRoom
<1>2. CASE Poll
  <2>1. UNCHANGED listVars
    BY <1>2 DEF Poll, maps, notifyVars, listVars
  <2>2. Same
    BY <1>2 DEF Poll, Room, Due
  <2> QED
    BY <1>1, <2>1, <2>2
<1>3. CASE InsertTx
  <2>1. UNCHANGED listVars
    BY <1>3 DEF InsertTx, notifyVars, listVars
  <2>2. Same
    BY <1>3 DEF InsertTx, Room, Due
  <2> QED
    BY <1>1, <2>1, <2>2
<1>4. CASE EndPush
  <2>1. UNCHANGED listVars
    BY <1>4 DEF EndPush, maps, notifyVars, listVars
  <2>2. Same
    BY <1>4, Counts DEF EndPush, Room, Due
  <2> QED
    BY <1>1, <2>1, <2>2
<1>5. CASE EndPoll
  <2>1. UNCHANGED listVars
    BY <1>5 DEF EndPoll, maps, notifyVars, listVars
  <2>2. Same
    BY <1>5 DEF EndPoll, Room, Due
  <2> QED
    BY <1>1, <2>1, <2>2
<1>6. ASSUME NEW t \in Txs, SkipKnown(t) \/ FetchFails(t) PROVE HasRoom'
  <2>1. UNCHANGED listVars
    BY <1>6 DEF SkipKnown, FetchFails, maps, notifyVars, listVars
  <2>2. Same
    BY <1>6 DEF SkipKnown, FetchFails, Room, Due
  <2> QED
    BY <1>1, <2>1, <2>2
<1>7. ASSUME NEW t \in Txs, FetchTx(t) PROVE HasRoom'
  <2>1. UNCHANGED listVars
    BY <1>7 DEF FetchTx, maps, notifyVars, listVars
  <2>2. \A a \in Addresses : Holds(t, a, 0)
    BY <1>7 DEF FetchTx, Left, CanBeFetched
  <2>3. ASSUME NEW u \in Txs, NEW a \in Addresses
        PROVE  Room(u, a)' \in Nat /\ (Room(u, a)' = Room(u, a) \/ Holds(u, a, 0))
    <3>1. CASE u = t
      <4>1. Room(u, a)' = Times(a, AddressesOf[u]) - Times(a, AddressesOf[u])
        BY <1>7, <3>1 DEF FetchTx, Room, Due
      <4>2. Room(u, a)' = 0
        BY <4>1, Counts
      <4> QED
        BY <2>2, <3>1, <4>2
    <3>2. CASE u # t
      <4>1. Room(u, a)' = Room(u, a)
        BY <1>7, <3>2 DEF FetchTx, Room, Due
      <4> QED
        BY <4>1 DEF HasRoom
    <3> QED
      BY <3>1, <3>2
  <2> QED
    BY <2>1, <2>3, QuietRoom
<1>8. CASE PushOutput
  <2> DEFINE h == Head(outputs)
  <2>1. /\ current \in Txs /\ outputs \in Seq(Addresses) /\ outputs # <<>> /\ mpc = "push"
        /\ mpc' = "push" /\ current' = current /\ outputs' = Tail(outputs)
        /\ addressMempoolTransactions \in [Addresses -> Seq(Txs)]
        /\ addressMempoolTransactions' =
              [addressMempoolTransactions EXCEPT ![h] = Append(@, current)]
        /\ UNCHANGED <<erased, toCollect, changed>>
    BY <1>8 DEF PushOutput, TypeInv, TypeOK, Fetching, notifyVars
  <2>2. h \in Addresses
    BY <2>1, TimesTail
  <2> SUFFICES ASSUME NEW t \in Txs, NEW a \in Addresses
               PROVE  (Room(t, a) \in Nat /\ Holds(t, a, Room(t, a)))'
    BY DEF HasRoom
  <2>3. Room(t, a) \in Nat /\ Holds(t, a, Room(t, a))
    BY DEF HasRoom
  <2>4. CASE t = current /\ a = h
    <3>1. Times(a, Tail(outputs)) = Times(a, outputs) - 1
      BY <2>1, <2>4, TimesTail
    <3>2. Room(t, a)' = Room(t, a) + 1
      <4>1. Room(t, a) = Times(a, AddressesOf[t]) - Times(a, outputs)
        BY <2>1, <2>4 DEF Room, Due
      <4>2. Room(t, a)' = Times(a, AddressesOf[t]) - Times(a, Tail(outputs))
        BY <2>1, <2>4 DEF Room, Due
      <4>3. Times(a, AddressesOf[t]) \in Nat /\ Times(a, outputs) \in Nat
        BY Counts
      <4> QED
        BY <3>1, <4>1, <4>2, <4>3
    <3>3. Times(t, addressMempoolTransactions'[a]) = Times(t, addressMempoolTransactions[a]) + 1
      BY <2>1, <2>2, <2>4, TimesAppend
    <3> DEFINE n == Room(t, a)
               m == Room(t, a)'
    <3>4. n \in Nat /\ m = n + 1 /\ Holds(t, a, n)
      BY <2>3, <3>2
    <3>5. /\ Times(t, addressMempoolTransactions[a]) \in Nat
          /\ a \in DOMAIN changed => Times(t, changed[a]) \in Nat
      BY Counts
    <3> HIDE DEF h, n, m
    <3>6. /\ a \in DOMAIN changed => Times(t, changed[a]) <= m
          /\ \/ t = erased /\ a \in toCollect \cup DOMAIN changed
             \/ Times(t, addressMempoolTransactions'[a]) <= m
      BY <3>3, <3>4, <3>5 DEF Holds
    <3>7. Holds(t, a, Room(t, a))'
      BY <2>1, <3>6 DEF Holds, m
    <3> QED
      BY <3>4, <3>7 DEF m
  <2>5. CASE t # current \/ a # h
    <3>1. Room(t, a)' = Room(t, a)
      <4>1. a # h => Times(a, Tail(outputs)) = Times(a, outputs)
        <5>1. Times(a, Tail(outputs)) = Times(a, outputs) - IF a = h THEN 1 ELSE 0
          BY <2>1, TimesTail
        <5>2. Times(a, outputs) \in Nat
          BY Counts
        <5> QED
          BY <5>1, <5>2
      <4> QED
        BY <2>1, <2>5, <4>1 DEF Room, Due
    <3>2. Times(t, addressMempoolTransactions'[a]) = Times(t, addressMempoolTransactions[a])
      <4>1. CASE a = h
        <5>1. Times(t, Append(addressMempoolTransactions[a], current))
                = Times(t, addressMempoolTransactions[a]) + 0
          BY <2>1, <2>5, <4>1, TimesAppend
        <5> QED
          BY <2>1, <2>2, <4>1, <5>1, Counts
      <4>2. CASE a # h
        BY <2>1, <4>2
      <4> QED
        BY <4>1, <4>2
    <3> HIDE DEF h
    <3> QED
      BY <2>1, <2>3, <3>1, <3>2 DEF Holds
  <2> QED
    BY <2>4, <2>5
<1> QED
  BY <1>2, <1>3, <1>4, <1>5, <1>6, <1>7, <1>8 DEF Monitor

\* What the lists and the copies hold after a step.
HoldsNext(t, a, n) ==
    /\ a \in DOMAIN changed' => Times(t, changed'[a]) <= n
    /\ \/ t = erased' /\ a \in toCollect' \cup DOMAIN changed'
       \/ Times(t, addressMempoolTransactions'[a]) <= n

\* The indexer's thread puts nothing into the lists.
LEMMA IndexerHolds ==
    ASSUME TypeInv, Notifying, Indexer, NEW t \in Txs, NEW b \in Addresses, NEW n \in Nat,
           Holds(t, b, n)
    PROVE  HoldsNext(t, b, n)
<1>1. CASE TakeBlock
  BY <1>1 DEF TakeBlock, Holds, HoldsNext, maps
<1>2. CASE EndNotify
  BY <1>2, MempoolAssumption DEF EndNotify, Holds, HoldsNext, maps, Notifying
<1>3. CASE WriteBlock
  BY <1>3 DEF WriteBlock, Holds, HoldsNext, maps
<1>4. ASSUME NEW u \in Txs, NotifyUnknown(u) PROVE HoldsNext(t, b, n)
  BY <1>4 DEF NotifyUnknown, Holds, HoldsNext, maps
<1>5. ASSUME NEW u \in Txs, EraseTx(u) PROVE HoldsNext(t, b, n)
  <2>1. DOMAIN changed' = {} /\ toCollect' = Addresses /\ erased' = u
    BY <1>5 DEF EraseTx, NothingChanged
  <2>2. Times(t, addressMempoolTransactions'[b]) <= n \/ t = u
    BY <1>5, MempoolAssumption DEF EraseTx, Holds, Notifying
  <2> QED
    BY <2>1, <2>2 DEF HoldsNext
<1>6. ASSUME NEW a \in Addresses, CollectAddress(a) PROVE HoldsNext(t, b, n)
  <2> DEFINE list == addressMempoolTransactions[a]
             copy == Without(list, erased)
  <2>1. /\ list \in Seq(Txs) /\ erased' = erased /\ toCollect' = toCollect \ {a}
        /\ addressMempoolTransactions' = addressMempoolTransactions
    BY <1>6 DEF CollectAddress, TypeInv, TypeOK, maps
  <2>2. /\ copy \in Seq(Txs) /\ Times(erased, copy) = 0 /\ Times(t, copy) <= Times(t, list)
    BY <2>1, CopiedWithout
  <2>3. Times(t, list) \in Nat /\ Times(t, copy) \in Nat
    BY <2>1, <2>2, TimesType
  <2>4. CASE erased \in Range(list)
    <3>1. /\ DOMAIN changed' = DOMAIN changed \cup {a}
          /\ changed'[a] = copy
          /\ \A c \in DOMAIN changed \ {a} : changed'[c] = changed[c]
      BY <1>6, <2>4, Copying
    <3>2. CASE b = a
      <4>1. a \in toCollect /\ (t = erased \/ Times(t, list) <= n)
        BY <1>6, <3>2 DEF CollectAddress, Holds
      <4>2. Times(t, copy) <= n
        <5> HIDE DEF list, copy
        <5> QED
          BY <2>2, <2>3, <4>1
      <4>3. t = erased \/ Times(t, addressMempoolTransactions'[b]) <= n
        BY <2>1, <3>2, <4>1
      <4> HIDE DEF list, copy
      <4> QED
        BY <2>1, <3>1, <3>2, <4>2, <4>3 DEF HoldsNext
    <3>3. CASE b # a
      <4> HIDE DEF list, copy
      <4> QED
        BY <2>1, <3>1, <3>3 DEF Holds, HoldsNext
    <3> QED
      BY <3>2, <3>3
  <2>5. CASE erased \notin Range(list)
    <3>1. changed' = changed
      BY <1>6, <2>5, Copying
    <3>2. Times(erased, list) = 0
      BY <2>1, <2>5, TimesType
    <3>3. CASE b = a /\ t = erased
      <4>1. Times(t, addressMempoolTransactions'[b]) <= n
        BY <2>1, <3>2, <3>3
      <4> QED
        BY <3>1, <4>1 DEF Holds, HoldsNext
    <3>4. CASE b # a \/ t # erased
      BY <2>1, <3>1, <3>4 DEF Holds, HoldsNext
    <3> QED
      BY <3>3, <3>4
  <2> QED
    BY <2>4, <2>5
<1>7. ASSUME NEW a \in Addresses, StoreAddress(a) PROVE HoldsNext(t, b, n)
  <2>1. /\ DOMAIN changed' = DOMAIN changed \ {a} /\ a \in DOMAIN changed
        /\ \A c \in DOMAIN changed \ {a} : changed'[c] = changed[c]
        /\ addressMempoolTransactions'[a] = changed[a]
        /\ \A c \in Addresses \ {a} :
              addressMempoolTransactions'[c] = addressMempoolTransactions[c]
        /\ erased' = erased /\ toCollect' = toCollect
    BY <1>7, Storing DEF StoreAddress
  <2>2. CASE b = a
    BY <2>1, <2>2 DEF Holds, HoldsNext
  <2>3. CASE b # a
    BY <2>1, <2>3 DEF Holds, HoldsNext
  <2> QED
    BY <2>2, <2>3
<1> QED
  BY <1>1, <1>2, <1>3, <1>4, <1>5, <1>6, <1>7 DEF Indexer

LEMMA IndexerRoom == TypeInv /\ HasRoom /\ Notifying /\ Indexer => HasRoom'
<1> SUFFICES ASSUME TypeInv, HasRoom, Notifying, Indexer, NEW t \in Txs, NEW a \in Addresses
             PROVE  (Room(t, a) \in Nat /\ Holds(t, a, Room(t, a)))'
  BY DEF HasRoom
<1>1. UNCHANGED roomVars
  BY DEF Indexer, TakeBlock, EndNotify, WriteBlock, NotifyUnknown, EraseTx, CollectAddress,
         StoreAddress, monitorVars, roomVars
<1>2. Room(t, a)' = Room(t, a)
  BY <1>1, SameRoom
<1>3. Room(t, a) \in Nat /\ Holds(t, a, Room(t, a))
  BY DEF HasRoom
<1>4. HoldsNext(t, a, Room(t, a))
  BY <1>3, IndexerHolds
<1> QED
  BY <1>2, <1>3, <1>4 DEF HoldsNext, Holds

\* What is not in the map when it may be fetched was not in it before, or is
\* being erased.
LEMMA LeftBehind ==
    TypeInv /\ Left /\ Fetching /\ OnChain /\ Notifying /\ Next /\ returns' = 0 => Left'
<1> SUFFICES ASSUME TypeInv, Left, Fetching, OnChain, Notifying, Next, returns' = 0,
                    NEW t \in Txs, NEW a \in Addresses,
                    t \notin mempoolTransactions', CanBeFetched(t)'
             PROVE  Holds(t, a, 0)'
  BY DEF Left
<1>1. ASSUME t \notin mempoolTransactions, CanBeFetched(t), HoldsNext(t, a, 0) \/ UNCHANGED listVars
      PROVE  Holds(t, a, 0)'
  <2>1. Holds(t, a, 0)
    BY <1>1 DEF Left
  <2> QED
    BY <1>1, <2>1 DEF Holds, HoldsNext, listVars
<1>2. CASE Daemon
  <2>1. UNCHANGED <<mempoolTransactions, snapshot>> /\ UNCHANGED listVars
    BY <1>2 DEF Daemon, Accept, Evict, Mine, Unmine, maps, monitorVars, notifyVars, listVars
  <2>2. gone \subseteq gone' /\ mined \subseteq mined'
    <3>1. ASSUME NEW u \in Txs, Unmine(u) PROVE FALSE
      BY <3>1 DEF Unmine, TypeInv, TypeOK
    <3> QED
      BY <1>2, <3>1 DEF Daemon, Accept, Evict, Mine
  <2> QED
    BY <1>1, <2>1, <2>2 DEF CanBeFetched
<1>3. CASE Monitor
  <2>1. UNCHANGED <<gone, mined>> /\ mempoolTransactions \subseteq mempoolTransactions'
    BY <1>3 DEF Monitor, Poll, InsertTx, PushOutput, EndPush, EndPoll, SkipKnown, FetchTx,
                FetchFails, daemonVars, maps
  <2>2. CanBeFetched(t)
    <3>1. snapshot' \subseteq snapshot \cup pool
      BY <1>3 DEF Monitor, Poll, InsertTx, PushOutput, EndPush, EndPoll, SkipKnown, FetchTx,
                  FetchFails
    <3> QED
      BY <2>1, <3>1 DEF CanBeFetched, OnChain
  <2>3. CASE PushOutput
    <3>1. t # current /\ current \in Txs
      BY <2>1, <2>2, <2>3 DEF PushOutput, Fetching
    <3>2. /\ outputs \in Seq(Addresses) /\ outputs # <<>>
          /\ addressMempoolTransactions \in [Addresses -> Seq(Txs)]
          /\ addressMempoolTransactions' =
                [addressMempoolTransactions EXCEPT ![Head(outputs)] = Append(@, current)]
          /\ UNCHANGED <<erased, toCollect, changed>>
      BY <2>3 DEF PushOutput, TypeInv, TypeOK, notifyVars
    <3>3. Holds(t, a, 0)
      BY <2>1, <2>2 DEF Left
    <3>4. Times(t, addressMempoolTransactions'[a]) = Times(t, addressMempoolTransactions[a])
      <4>1. Times(t, Append(addressMempoolTransactions[a], current))
              = Times(t, addressMempoolTransactions[a])
        <5>1. Times(t, Append(addressMempoolTransactions[a], current))
                = Times(t, addressMempoolTransactions[a]) + 0
          BY <3>1, <3>2, TimesAppend
        <5>2. Times(t, addressMempoolTransactions[a]) \in Nat
          BY Counts
        <5> QED
          BY <5>1, <5>2
      <4>2. a = Head(outputs) =>
              addressMempoolTransactions'[a] = Append(addressMempoolTransactions[a], current)
        BY <3>2
      <4>3. a # Head(outputs) => addressMempoolTransactions'[a] = addressMempoolTransactions[a]
        BY <3>2
      <4>4. CASE a = Head(outputs)
        BY <4>1, <4>2, <4>4
      <4>5. CASE a # Head(outputs)
        BY <4>3, <4>5
      <4> QED
        BY <4>4, <4>5
    <3> QED
      BY <3>2, <3>3, <3>4 DEF Holds
  <2>4. CASE ~PushOutput
    <3>1. UNCHANGED listVars
      BY <1>3, <2>4 DEF Monitor, Poll, InsertTx, EndPush, EndPoll, SkipKnown, FetchTx,
                        FetchFails, maps, notifyVars, listVars
    <3> QED
      BY <1>1, <2>1, <2>2, <3>1
  <2> QED
    BY <2>3, <2>4
<1>4. CASE Indexer
  <2>1. ASSUME NEW u \in Txs, EraseTx(u), t = u PROVE Holds(t, a, 0)'
    BY <2>1 DEF EraseTx, NothingChanged, Holds
  <2>2. CASE ~\E u \in Txs : EraseTx(u) /\ t = u
    <3>1. CanBeFetched(t) /\ t \notin mempoolTransactions
      BY <1>4, <2>2 DEF Indexer, TakeBlock, EndNotify, WriteBlock, NotifyUnknown, EraseTx,
             CollectAddress, StoreAddress, monitorVars, daemonVars, maps, CanBeFetched
    <3>2. Holds(t, a, 0)
      BY <3>1 DEF Left
    <3>3. HoldsNext(t, a, 0)
      BY <1>4, <3>2, IndexerHolds
    <3> QED
      BY <1>1, <3>1, <3>3
  <2> QED
    BY <2>1, <2>2
<1> QED
  BY <1>2, <1>3, <1>4 DEF Next

\* The transaction in hand is not asked for again in this round; what is
\* erased while it is entered is mined.
LEMMA FetchesOnce ==
    TypeInv /\ Fetching /\ OnChain /\ Next /\ returns' = 0 => Fetching'
<1> SUFFICES ASSUME TypeInv, Fetching, OnChain, Next, returns' = 0
             PROVE  Fetching'
  OBVIOUS
<1>1. CASE Daemon
  <2>1. UNCHANGED <<mpc, current, snapshot, mempoolTransactions>>
    BY <1>1 DEF Daemon, Accept, Evict, Mine, Unmine, maps, monitorVars
  <2>2. gone \subseteq gone' /\ mined \subseteq mined'
    <3>1. ASSUME NEW u \in Txs, Unmine(u) PROVE FALSE
      BY <3>1 DEF Unmine, TypeInv, TypeOK
    <3> QED
      BY <1>1, <3>1 DEF Daemon, Accept, Evict, Mine
  <2> QED
    BY <2>1, <2>2 DEF Fetching, CanBeFetched
<1>2. CASE Monitor
  <2>1. CASE Poll \/ EndPush \/ EndPoll
    BY <2>1 DEF Poll, EndPush, EndPoll, Fetching
  <2>2. CASE InsertTx
    BY <2>2 DEF InsertTx, Fetching
  <2>3. CASE PushOutput
    BY <2>3 DEF PushOutput, daemonVars, Fetching, CanBeFetched
  <2>4. ASSUME NEW t \in Txs, SkipKnown(t) \/ FetchTx(t) \/ FetchFails(t) PROVE Fetching'
    BY <2>4 DEF SkipKnown, FetchTx, FetchFails, Fetching
  <2> QED
    BY <1>2, <2>1, <2>2, <2>3, <2>4 DEF Monitor
<1>3. CASE Indexer
  <2>1. UNCHANGED <<mpc, current, snapshot, gone, mined>>
    BY <1>3 DEF Indexer, TakeBlock, EndNotify, WriteBlock, NotifyUnknown, EraseTx,
           CollectAddress, StoreAddress, monitorVars, daemonVars
  <2>2. ASSUME NEW t \in Txs, EraseTx(t) PROVE Fetching'
    <3>1. t \in mined /\ mempoolTransactions' = mempoolTransactions \ {t}
      BY <2>2 DEF EraseTx, TypeInv, TypeOK, OnChain
    <3> QED
      BY <2>1, <3>1 DEF Fetching, CanBeFetched
  <2>3. CASE ~\E t \in Txs : EraseTx(t)
    <3>1. mempoolTransactions' = mempoolTransactions
      BY <1>3, <2>3 DEF Indexer, TakeBlock, EndNotify, WriteBlock, NotifyUnknown,
             CollectAddress, StoreAddress, maps
    <3> QED
      BY <2>1, <3>1 DEF Fetching, CanBeFetched
  <2> QED
    BY <2>2, <2>3
<1> QED
  BY <1>1, <1>2, <1>3 DEF Next

\* What the indexer takes is on the daemon's chain.
LEMMA StaysOnChain == TypeInv /\ OnChain /\ Next /\ returns' = 0 => OnChain'
<1> SUFFICES ASSUME TypeInv, OnChain, Next, returns' = 0 PROVE OnChain'
  OBVIOUS
<1>1. CASE Daemon
  <2>1. ASSUME NEW t \in Txs, Accept(t) \/ Evict(t) PROVE OnChain'
    BY <2>1 DEF Accept, Evict, OnChain, notifyVars
  <2>2. ASSUME NEW t \in Txs, Unmine(t) PROVE FALSE
    BY <2>2 DEF Unmine, TypeInv, TypeOK
  <2>3. ASSUME NEW S \in SUBSET Txs, Mine(S) PROVE OnChain'
    <3>1. /\ Len(blocks) \in Nat /\ DOMAIN blocks = 1..Len(blocks)
          /\ DOMAIN blocks' = 1..(Len(blocks) + 1)
          /\ \A i \in 1..Len(blocks) : blocks'[i] = blocks[i]
          /\ blocks'[Len(blocks) + 1] = S
      BY <2>3, Positions DEF Mine, TypeInv, TypeOK
    <3>2. \A i \in 1..(Len(blocks) + 1) : i \in 1..Len(blocks) \/ i = Len(blocks) + 1
      BY <3>1
    <3>3. \A i \in DOMAIN blocks' : blocks'[i] \subseteq mined \cup S
      BY <3>1, <3>2 DEF OnChain
    <3> QED
      BY <2>3, <3>3 DEF Mine, OnChain, notifyVars
  <2> QED
    BY <1>1, <2>1, <2>2, <2>3 DEF Daemon
<1>2. CASE Monitor
  BY <1>2 DEF Monitor, Poll, InsertTx, PushOutput, EndPush, EndPoll, SkipKnown, FetchTx,
              FetchFails, daemonVars, notifyVars, OnChain
<1>3. CASE Indexer
  <2>1. CASE TakeBlock
    <3>1. /\ blocks \in Seq(SUBSET Txs) /\ blocks # <<>>
          /\ blocks' = Tail(blocks) /\ blockTxs' = Head(blocks)
          /\ UNCHANGED <<pool, gone, mined>>
      BY <2>1 DEF TakeBlock, TypeInv, TypeOK
    <3>2. /\ Len(blocks) \in Nat /\ Len(blocks) # 0 /\ DOMAIN blocks = 1..Len(blocks)
      BY <3>1, Positions, EmptySeq
    <3>3. /\ Head(blocks) = blocks[1] /\ Tail(blocks) \in Seq(SUBSET Txs)
          /\ Len(Tail(blocks)) = Len(blocks) - 1
          /\ \A i \in 1..Len(Tail(blocks)) : Tail(blocks)[i] = blocks[i + 1]
      BY <3>1, HeadTailProperties
    <3>4. DOMAIN Tail(blocks) = 1..(Len(blocks) - 1)
      BY <3>3, Positions
    <3>5. Head(blocks) \subseteq mined
      BY <3>2, <3>3 DEF OnChain
    <3>6. \A i \in 1..(Len(blocks) - 1) : i + 1 \in DOMAIN blocks
      BY <3>2
    <3>7. \A i \in DOMAIN Tail(blocks) : Tail(blocks)[i] \subseteq mined
      BY <3>3, <3>4, <3>6 DEF OnChain
    <3> QED
      BY <3>1, <3>5, <3>7 DEF OnChain
  <2>2. CASE ~TakeBlock
    BY <1>3, <2>2 DEF Indexer, EndNotify, WriteBlock, NotifyUnknown, EraseTx,
           CollectAddress, StoreAddress, daemonVars, OnChain
  <2> QED
    BY <2>1, <2>2
<1> QED
  BY <1>1, <1>2, <1>3 DEF Next

LEMMA NotifiesInTurn == TypeInv /\ Notifying /\ Next => Notifying'
<1> SUFFICES ASSUME TypeInv, Notifying, Next PROVE Notifying'
  OBVIOUS
<1>1. CASE Daemon \/ Monitor
  BY <1>1 DEF Daemon, Accept, Evict, Mine, Unmine, Monitor, Poll, InsertTx, PushOutput, EndPush,
              EndPoll, SkipKnown, FetchTx, FetchFails, notifyVars, Notifying
<1>2. CASE TakeBlock \/ WriteBlock \/ EndNotify
  BY <1>2 DEF TakeBlock, WriteBlock, EndNotify, Notifying
<1>3. ASSUME NEW t \in Txs, NotifyUnknown(t) \/ EraseTx(t) PROVE Notifying'
  BY <1>3 DEF NotifyUnknown, EraseTx, Notifying
<1>4. ASSUME NEW a \in Addresses, CollectAddress(a) \/ StoreAddress(a) PROVE Notifying'
  BY <1>4 DEF CollectAddress, StoreAddress, Notifying
<1> QED
  BY <1>1, <1>2, <1>3, <1>4 DEF Next, Indexer

LEMMA InitOnce == Init => OnceInv
<1> SUFFICES ASSUME Init PROVE OnceInv
  OBVIOUS
<1>1. TypeInv
  BY InitTypes
<1>2. Fetching /\ OnChain /\ Notifying
  BY DEF Init, Fetching, OnChain, Notifying, NothingChanged
<1>3. ASSUME NEW t \in Txs, NEW a \in Addresses
      PROVE  Room(t, a) \in Nat /\ Holds(t, a, Room(t, a)) /\ Holds(t, a, 0)
  <2>1. Room(t, a) \in Nat
    BY <1>1, Counts DEF Init, Room, Due
  <2>2. Times(t, addressMempoolTransactions[a]) = 0 /\ DOMAIN changed = {}
    <3>1. <<>> \in Seq(Txs) /\ addressMempoolTransactions[a] = <<>>
      BY DEF Init
    <3> QED
      BY <3>1, TimesType DEF Init, NothingChanged
  <2> QED
    BY <2>1, <2>2 DEF Holds
<1> QED
  BY <1>2, <1>3 DEF OnceInv, HasRoom, Left

\* However the two threads interleave, outside transactionIndexed no list of
\* an address names a transaction more often than it pays the address, before
\* a reorganisation returns a transaction that had been indexed.
THEOREM OutputsOnce == Spec => []NoOutputTwice
<1>1. TypeInv /\ OnceInv /\ [Next]_vars => TypeInv' /\ OnceInv'
  <2> SUFFICES ASSUME TypeInv, OnceInv, [Next]_vars PROVE TypeInv' /\ OnceInv'
    OBVIOUS
  <2>1. CASE Next
    <3>1. TypeInv'
      BY <2>1, DaemonTypes, MonitorTypes, IndexerTypes DEF Next
    <3>2. ASSUME returns' = 0 PROVE (HasRoom /\ Left /\ Fetching /\ OnChain /\ Notifying)'
      <4>1. returns = 0
        <5>1. CASE Daemon
          BY <3>2, <5>1 DEF Daemon, Accept, Evict, Mine, Unmine, TypeInv, TypeOK
        <5>2. CASE Monitor
          BY <3>2, <5>2 DEF Monitor, Poll, InsertTx, PushOutput, EndPush, EndPoll, SkipKnown,
                 FetchTx, FetchFails, daemonVars
        <5>3. CASE Indexer
          BY <3>2, <5>3 DEF Indexer, TakeBlock, EndNotify, WriteBlock, NotifyUnknown, EraseTx,
                 CollectAddress, StoreAddress, daemonVars
        <5> QED
          BY <2>1, <5>1, <5>2, <5>3 DEF Next
      <4>2. HasRoom /\ Left /\ Fetching /\ OnChain /\ Notifying
        BY <4>1 DEF OnceInv
      <4> QED
        BY <2>1, <3>2, <4>2, DaemonRoom, MonitorRoom, IndexerRoom, LeftBehind, FetchesOnce,
           StaysOnChain, NotifiesInTurn DEF Next
    <3> QED
      BY <3>1, <3>2 DEF OnceInv
  <2>2. CASE UNCHANGED vars
    <3>1. TypeInv'
      BY <2>2 DEF TypeInv, TypeOK, vars, daemonVars, maps, monitorVars, notifyVars
    <3>2. UNCHANGED listVars /\ UNCHANGED roomVars
      BY <2>2 DEF vars, maps, monitorVars, notifyVars, listVars, roomVars
    <3>3. HasRoom => HasRoom'
      BY <3>2, SameRoom, QuietRoom DEF HasRoom
    <3>4. Left => Left'
      BY <2>2 DEF Left, CanBeFetched, Holds, vars, daemonVars, maps, monitorVars, notifyVars
    <3>5. /\ Fetching => Fetching'
          /\ OnChain => OnChain'
          /\ Notifying => Notifying'
          /\ returns' = returns
      BY <2>2 DEF Fetching, CanBeFetched, OnChain, Notifying, vars, daemonVars, maps,
                  monitorVars, notifyVars
    <3> QED
      BY <3>1, <3>3, <3>4, <3>5 DEF OnceInv
  <2> QED
    BY <2>1, <2>2
<1>2. TypeInv /\ OnceInv => NoOutputTwice
  <2> SUFFICES ASSUME TypeInv, OnceInv, returns = 0, ipc \in {"idle", "notify"},
                      NEW a \in Addresses, NEW t \in Txs
               PROVE  Times(t, getTxos(a)) <= Times(a, AddressesOf[t])
    BY DEF NoOutputTwice
  <2>1. Room(t, a) \in Nat /\ Holds(t, a, Room(t, a)) /\ toCollect \cup DOMAIN changed = {}
    BY DEF OnceInv, HasRoom, Notifying
  <2>2. Times(t, getTxos(a)) <= Room(t, a)
    BY <2>1 DEF Holds, getTxos
  <2>3. /\ Times(t, getTxos(a)) \in Nat /\ Times(a, AddressesOf[t]) \in Nat
        /\ Due(t, a) \in Nat
    BY Counts DEF getTxos, Due
  <2> QED
    BY <2>1, <2>2, <2>3 DEF Room
<1> QED
  BY <1>1, <1>2, InitTypes, InitOnce, PTL DEF Spec
=============================================================================
