------------------------- MODULE BlockIndexerProofs -------------------------
(***************************************************************************)
(* Theorems about BlockIndexer, for every choice of its constants, and the *)
(* refinement: the indexer implements Ledger.                              *)
(***************************************************************************)
EXTENDS IndexerLedger, FiniteSetTheorems, SequenceTheorems, TLAPS

-----------------------------------------------------------------------------
(* Lemmas about tables.                                                    *)

\* The keys of a table after a put are the old and the new ones.
LEMMA PutDomain ==
    ASSUME NEW f, NEW g
    PROVE  DOMAIN Put(f, g) = DOMAIN f \cup DOMAIN g
BY DEF Put

\* A put keeps the kinds of keys and values, if the new entries are of them.
LEMMA PutTyped ==
    ASSUME NEW f, NEW g, NEW K, NEW V, IsTable(f, K, V), IsTable(g, K, V)
    PROVE  IsTable(Put(f, g), K, V)
BY DEF IsTable, Put, Range

\* So does the removal of keys.
LEMMA RestrictTyped ==
    ASSUME NEW f, NEW S, NEW K, NEW V, IsTable(f, K, V)
    PROVE  /\ IsTable(Restrict(f, DOMAIN f \ S), K, V)
           /\ DOMAIN Restrict(f, DOMAIN f \ S) = DOMAIN f \ S
BY DEF IsTable, Restrict, Range

\* A single entry has one key and one value.
LEMMA EntryTyped ==
    ASSUME NEW k, NEW v, NEW K, NEW V, k \in K, v \in V
    PROVE  IsTable(Entry(k, v), K, V)
BY DEF IsTable, Entry, Range

\* The empty table has no key.
LEMMA EmptyTyped ==
    /\ DOMAIN EmptyTable = {}
    /\ \A K, V : IsTable(EmptyTable, K, V)
BY DEF EmptyTable, IsTable, Range

-----------------------------------------------------------------------------
(* Lemmas about the batch of a block.                                      *)

\* There are finitely many positions in a sequence of length n.
LEMMA PositionsFinite ==
    ASSUME NEW n \in Nat
    PROVE  IsFiniteSet(1..n)
<1>1. 1 \in Int /\ n \in Int
  OBVIOUS
<1> QED
  BY <1>1, FS_Interval, Zenon

\* The positions of a block's credits and of its debits.
LEMMA ContentsTyped ==
    ASSUME NEW b \in Blocks
    PROVE  /\ Len(Credits[b]) \in Nat /\ DOMAIN Credits[b] = 1..Len(Credits[b])
           /\ \A i \in 1..Len(Credits[b]) : Credits[b][i] \in Credit
           /\ Len(Debits[b]) \in Nat /\ DOMAIN Debits[b] = 1..Len(Debits[b])
           /\ \A i \in 1..Len(Debits[b]) : Debits[b][i] \in Debit
<1>1. Credits[b] \in Seq(Credit) /\ Debits[b] \in Seq(Debit)
  BY ContentsAssumption
<1> QED
  BY <1>1, LenProperties, ElementOfSeq

\* The number of credits to an address among the first i is a number, at least
\* one if the i-th is among them, and does not shrink with i.
LEMMA CreditsToBounds ==
    ASSUME NEW b \in Blocks, NEW a, NEW i \in Nat
    PROVE  /\ CreditsTo(b, a, i) \in Nat
           /\ i \in 1..i /\ Credits[b][i].address = a => CreditsTo(b, a, i) >= 1
           /\ \A n \in Nat : i <= n => CreditsTo(b, a, i) <= CreditsTo(b, a, n)
<1> DEFINE At(n) == {j \in 1..n : Credits[b][j].address = a}
<1>1. \A n \in Nat : IsFiniteSet(At(n)) /\ CreditsTo(b, a, n) = Cardinality(At(n))
  <2> TAKE n \in Nat
  <2>1. IsFiniteSet(1..n)
    BY PositionsFinite
  <2> QED
    BY <2>1, FS_Subset DEF CreditsTo
<1>2. CreditsTo(b, a, i) \in Nat
  BY <1>1, FS_CardinalityType
<1>3. ASSUME i \in 1..i, Credits[b][i].address = a
      PROVE  CreditsTo(b, a, i) >= 1
  <2>1. At(i) # {}
    BY <1>3
  <2>2. Cardinality(At(i)) # 0
    BY <2>1, <1>1, FS_EmptySet
  <2> QED
    BY <2>2, <1>1, <1>2
<1>4. ASSUME NEW n \in Nat, i <= n
      PROVE  CreditsTo(b, a, i) <= CreditsTo(b, a, n)
  <2>1. At(i) \subseteq At(n)
    BY <1>4
  <2> HIDE DEF At
  <2> QED
    BY <2>1, <1>1, <1>4, FS_Subset
<1> QED
  BY <1>2, <1>3, <1>4

\* A later credit to the same address counts more.
LEMMA CreditsToGrows ==
    ASSUME NEW b \in Blocks, NEW i \in Nat, NEW j \in Nat, 0 < j, i < j
    PROVE  CreditsTo(b, Credits[b][j].address, i) < CreditsTo(b, Credits[b][j].address, j)
<1> DEFINE a == Credits[b][j].address
           At(n) == {l \in 1..n : Credits[b][l].address = a}
<1>1. IsFiniteSet(At(j)) /\ Cardinality(At(j)) = CreditsTo(b, a, j)
  <2>1. IsFiniteSet(1..j)
    BY PositionsFinite
  <2> QED
    BY <2>1, FS_Subset DEF CreditsTo
<1>2. At(i) \subseteq At(j) /\ At(i) # At(j)
  <2>1. j \in At(j) /\ j \notin At(i)
    OBVIOUS
  <2> QED
    BY <2>1
<1>3. Cardinality(At(i)) = CreditsTo(b, a, i)
  BY DEF CreditsTo
<1> HIDE DEF At
<1>4. Cardinality(At(i)) <= Cardinality(At(j)) /\ Cardinality(At(i)) # Cardinality(At(j))
  BY <1>1, <1>2, FS_Subset
<1>5. CreditsTo(b, a, i) \in Nat /\ CreditsTo(b, a, j) \in Nat
  BY CreditsToBounds
<1> QED
  BY <1>1, <1>3, <1>4, <1>5

-----------------------------------------------------------------------------
(* Type correctness.  That a counter is a number needs the address table,  *)
(* whose keys are counted at its first use, to be finite.                  *)

TypeInv == TypeOK /\ IsFiniteSet(DOMAIN addressTxo)

\* The last index of an address is a number.
LEMMA LastIndexType ==
    ASSUME TypeInv, NEW a \in Addresses
    PROVE  LastIndex(a) \in Nat
<1>1. CASE a \in DOMAIN nextTxoIndex
  BY <1>1 DEF LastIndex, TypeInv, TypeOK, IsTable, Range
<1>2. CASE a \notin DOMAIN nextTxoIndex
  <2>1. IsFiniteSet({k \in DOMAIN addressTxo : k[1] = a})
    BY FS_Subset DEF TypeInv
  <2> QED
    BY <1>2, <2>1, FS_CardinalityType DEF LastIndex
<1> QED
  BY <1>1, <1>2

\* The keys, records and counters of a block's batch are of their kinds, and
\* there are finitely many keys.
LEMMA BatchTyped ==
    ASSUME TypeInv, NEW b \in Blocks, NEW h \in Nat
    PROVE  /\ \A i \in 1..Len(Credits[b]) : TxoKey(b, i) \in Addresses \X Nat
           /\ TxoKeys(b) \in Seq(Addresses \X Nat)
           /\ IsFiniteSet(DOMAIN TxoRecords(b, h))
           /\ IsTable(TxoRecords(b, h), Addresses \X Nat, [out : Outpoints, height : Nat])
           /\ SpentOutpoints(b) \in Seq(Outpoints)
           /\ IsTable(SpentRecords(b), Outpoints, [block : Blocks, tx : Txs])
           /\ IsTable(CountersAfter(b), Addresses, Nat)
<1> DEFINE n == Len(Credits[b])
           m == Len(Debits[b])
<1>1. /\ n \in Nat /\ DOMAIN Credits[b] = 1..n /\ \A i \in 1..n : Credits[b][i] \in Credit
      /\ m \in Nat /\ \A i \in 1..m : Debits[b][i] \in Debit
  BY ContentsTyped
<1> HIDE DEF n, m
<1>2. \A i \in 1..n : TxoKey(b, i) \in Addresses \X Nat
  <2> TAKE i \in 1..n
  <2>1. Credits[b][i].address \in Addresses /\ i \in Nat
    BY <1>1 DEF Credit
  <2>2. /\ LastIndex(Credits[b][i].address) \in Nat
        /\ CreditsTo(b, Credits[b][i].address, i) \in Nat
    BY <2>1, LastIndexType, CreditsToBounds
  <2> QED
    BY <2>1, <2>2 DEF TxoKey
<1>3. TxoKeys(b) \in [1..n -> Addresses \X Nat]
  BY <1>2 DEF TxoKeys, n
<1>4. TxoKeys(b) \in Seq(Addresses \X Nat)
  BY <1>1, <1>3, IsASeq
<1>5. Range(TxoKeys(b)) \subseteq Addresses \X Nat
  BY <1>3 DEF Range
<1>6. IsFiniteSet(Range(TxoKeys(b)))
  <2>1. IsFiniteSet(1..n)
    BY <1>1, PositionsFinite
  <2>2. TxoKeys(b) \in Surjection(1..n, Range(TxoKeys(b)))
    BY <1>3 DEF Range, Surjection
  <2> QED
    BY <2>1, <2>2, FS_Surjection
<1>7. /\ DOMAIN TxoRecords(b, h) = Range(TxoKeys(b))
      /\ Range(TxoRecords(b, h)) \subseteq [out : Outpoints, height : Nat]
  <2>1. ASSUME NEW k \in Range(TxoKeys(b))
        PROVE  TxoRecords(b, h)[k] \in [out : Outpoints, height : Nat]
    <3> DEFINE i == CHOOSE i \in 1..Len(Credits[b]) : TxoKey(b, i) = k
    <3>1. \E j \in 1..n : TxoKey(b, j) = k
      BY <2>1 DEF Range, TxoKeys, n
    <3>2. i \in 1..n
      BY <3>1 DEF n
    <3>3. TxoRecords(b, h)[k] = [out |-> Credits[b][i].out, height |-> h]
      BY DEF TxoRecords
    <3> HIDE DEF i
    <3>4. Credits[b][i].out \in Outpoints
      BY <3>2, <1>1 DEF Credit
    <3> QED
      BY <3>3, <3>4
  <2> QED
    BY <2>1 DEF TxoRecords, Range
<1>8. SpentOutpoints(b) \in [1..m -> Outpoints]
  BY <1>1 DEF SpentOutpoints, Debit, m
<1>9. SpentOutpoints(b) \in Seq(Outpoints) /\ Range(SpentOutpoints(b)) \subseteq Outpoints
  BY <1>1, <1>8, IsASeq DEF Range
<1>10. /\ DOMAIN SpentRecords(b) = Range(SpentOutpoints(b))
       /\ Range(SpentRecords(b)) \subseteq [block : Blocks, tx : Txs]
  <2>1. ASSUME NEW o \in Range(SpentOutpoints(b))
        PROVE  SpentRecords(b)[o] \in [block : Blocks, tx : Txs]
    <3> DEFINE i == CHOOSE i \in 1..Len(Debits[b]) : Debits[b][i].out = o
    <3>1. \E j \in 1..m : Debits[b][j].out = o
      BY <2>1 DEF Range, SpentOutpoints, m
    <3>2. i \in 1..m
      BY <3>1 DEF m
    <3>3. SpentRecords(b)[o] = [block |-> b, tx |-> Debits[b][i].tx]
      BY DEF SpentRecords
    <3> HIDE DEF i
    <3>4. Debits[b][i].tx \in Txs
      BY <3>2, <1>1 DEF Debit
    <3> QED
      BY <3>3, <3>4
  <2>2. DOMAIN SpentRecords(b) = Range(SpentOutpoints(b))
    BY DEF SpentRecords
  <2>3. \A o \in DOMAIN SpentRecords(b) : SpentRecords(b)[o] \in [block : Blocks, tx : Txs]
    BY <2>1, <2>2
  <2>4. Range(SpentRecords(b)) \subseteq [block : Blocks, tx : Txs]
    BY <2>3 DEF Range
  <2> QED
    BY <2>2, <2>4
<1>11. /\ IsTable(CountersAfter(b), Addresses, Nat)
  <2>1. DOMAIN CountersAfter(b) \subseteq Addresses
    BY <1>1 DEF CountersAfter, Range, Credit
  <2>2. ASSUME NEW a \in DOMAIN CountersAfter(b)
        PROVE  CountersAfter(b)[a] \in Nat
    <3>1. LastIndex(a) \in Nat /\ CreditsTo(b, a, n) \in Nat
      BY <2>1, <1>1, LastIndexType, CreditsToBounds
    <3> QED
      BY <3>1 DEF CountersAfter, n
  <2> QED
    BY <2>1, <2>2 DEF IsTable, Range
<1> QED
  BY <1>2, <1>4, <1>5, <1>6, <1>7, <1>9, <1>10, <1>11 DEF n, IsTable

\* In the step "clear" a block is recorded at the height, in every step but
\* "idle" the call has a block: what the first action sets up.
LEMMA IndexBlockTyped ==
    ASSUME TypeInv, NEW b \in Blocks, NEW h \in Nat, IndexBlock(b, h)
    PROVE  TypeInv'
<1>1. job' \in [step : Steps, block : Blocks \cup {NoBlock}, height : Nat]
  BY DEF IndexBlock, Steps
<1>2. job'.step \in {"clear", "highest"} /\ job'.block = b /\ job'.height = h
  BY DEF IndexBlock
<1>3. job'.step = "clear" => h \in DOMAIN blockAt
  BY DEF IndexBlock
<1>4. UNCHANGED <<index, nextTxoIndex, restarts>>
  BY DEF IndexBlock
<1> QED
  BY <1>1, <1>2, <1>3, <1>4 DEF TypeInv, TypeOK, index

\* The removal of what a replaced block left keeps the types.
LEMMA ClearBlockTxosTyped ==
    ASSUME TypeInv, ClearBlockTxos
    PROVE  TypeInv'
<1> DEFINE old == blockAt[job.height]
<1>1. /\ addressTxo' = Restrict(addressTxo, DOMAIN addressTxo \ Range(blockTxo[old]))
      /\ txoSpent' = Restrict(txoSpent, DOMAIN txoSpent \ Range(blockTxoSpent[old]))
  BY DEF ClearBlockTxos
<1>2. /\ IsTable(addressTxo', Addresses \X Nat, [out : Outpoints, height : Nat])
      /\ DOMAIN addressTxo' \subseteq DOMAIN addressTxo
  <2>1. IsTable(addressTxo, Addresses \X Nat, [out : Outpoints, height : Nat])
    BY DEF TypeInv, TypeOK
  <2> QED
    BY <1>1, <2>1, RestrictTyped
<1>3. /\ IsTable(txoSpent', Outpoints, [block : Blocks, tx : Txs])
  BY <1>1, RestrictTyped DEF TypeInv, TypeOK
<1>4. IsFiniteSet(DOMAIN addressTxo')
  BY <1>2, FS_Subset DEF TypeInv
<1>5. /\ job' \in [step : Steps, block : Blocks \cup {NoBlock}, height : Nat]
      /\ job'.step = "highest" /\ job'.block \in Blocks
  BY DEF ClearBlockTxos, TypeInv, TypeOK, Steps
<1>6. UNCHANGED <<blockAt, hashHeight, timeHash, txBlock, txoAddress, blockTxo,
                  blockTxoSpent, highest, nextTxoIndex, restarts>>
  BY DEF ClearBlockTxos
<1> QED
  BY <1>2, <1>3, <1>4, <1>5, <1>6 DEF TypeInv, TypeOK

\* So does the write of "highestblock".
LEMMA PutHighestTyped ==
    ASSUME TypeInv, PutHighest
    PROVE  TypeInv'
<1>1. highest' \in Nat \cup {-1}
  BY DEF PutHighest, TypeInv, TypeOK
<1>2. /\ job' \in [step : Steps, block : Blocks \cup {NoBlock}, height : Nat]
      /\ job'.step = "batch" /\ job'.block \in Blocks
  BY DEF PutHighest, TypeInv, TypeOK, Steps
<1>3. UNCHANGED <<blockAt, hashHeight, timeHash, txBlock, txoAddress, addressTxo,
                  blockTxo, txoSpent, blockTxoSpent, nextTxoIndex, restarts>>
  BY DEF PutHighest
<1> QED
  BY <1>1, <1>2, <1>3 DEF TypeInv, TypeOK

\* So does the batch, and it leaves finitely many keys in the address table.
LEMMA WriteBatchTyped ==
    ASSUME TypeInv, WriteBatch
    PROVE  TypeInv'
<1> DEFINE b == job.block
           h == job.height
<1>1. b \in Blocks /\ h \in Nat
  BY DEF WriteBatch, TypeInv, TypeOK
<1> HIDE DEF b, h
<1>2. IsTable(blockAt', Nat, Blocks)
  <2>1. blockAt' = Put(blockAt, Entry(h, b))
    BY DEF WriteBatch, b, h
  <2> QED
    BY <2>1, <1>1, PutTyped, EntryTyped DEF TypeInv, TypeOK
<1>3. IsTable(hashHeight', Blocks, Nat)
  <2>1. hashHeight' = Put(hashHeight, Entry(b, h))
    BY DEF WriteBatch, b, h
  <2> QED
    BY <2>1, <1>1, PutTyped, EntryTyped DEF TypeInv, TypeOK
<1>4. IsTable(timeHash', Nat, Blocks)
  <2>1. timeHash' = Put(timeHash, Entry(TimeOf[b], b)) /\ TimeOf[b] \in Nat
    BY <1>1, ChainAssumption DEF WriteBatch, b
  <2> QED
    BY <2>1, <1>1, PutTyped, EntryTyped DEF TypeInv, TypeOK
<1>5. IsTable(txBlock', Txs, Blocks)
  <2> DEFINE new == [t \in TxsOf[b] |-> b]
  <2>1. txBlock' = Put(txBlock, new)
    BY DEF WriteBatch, b
  <2>2. IsTable(new, Txs, Blocks)
    BY <1>1, ContentsAssumption DEF IsTable, Range
  <2> QED
    BY <2>1, <2>2, PutTyped DEF TypeInv, TypeOK
<1>6. txoAddress' \in [Credit -> Nat]
  BY DEF WriteBatch, TypeInv, TypeOK
<1>7. /\ IsTable(addressTxo', Addresses \X Nat, [out : Outpoints, height : Nat])
      /\ IsFiniteSet(DOMAIN addressTxo')
  <2>1. addressTxo' = Put(addressTxo, TxoRecords(b, h))
    BY DEF WriteBatch, b, h
  <2>2. /\ IsTable(TxoRecords(b, h), Addresses \X Nat, [out : Outpoints, height : Nat])
        /\ IsFiniteSet(DOMAIN TxoRecords(b, h))
    BY <1>1, BatchTyped
  <2>3. IsFiniteSet(DOMAIN addressTxo \cup DOMAIN TxoRecords(b, h))
    BY <2>2, FS_Union DEF TypeInv
  <2> QED
    BY <2>1, <2>2, <2>3, PutTyped, PutDomain DEF TypeInv, TypeOK
<1>8. blockTxo' \in [Blocks -> Seq(Addresses \X Nat)]
  <2>1. blockTxo' = [blockTxo EXCEPT ![b] = blockTxo[b] \o TxoKeys(b)]
    BY DEF WriteBatch, b
  <2>2. blockTxo[b] \o TxoKeys(b) \in Seq(Addresses \X Nat)
    BY <1>1, BatchTyped, ConcatProperties DEF TypeInv, TypeOK
  <2> QED
    BY <2>1, <2>2 DEF TypeInv, TypeOK
<1>9. /\ IsTable(txoSpent', Outpoints, [block : Blocks, tx : Txs])
  <2>1. txoSpent' = Put(txoSpent, SpentRecords(b))
    BY DEF WriteBatch, b
  <2>2. /\ IsTable(SpentRecords(b), Outpoints, [block : Blocks, tx : Txs])
    BY <1>1, BatchTyped, 0 \in Nat
  <2> QED
    BY <2>1, <2>2, PutTyped DEF TypeInv, TypeOK
<1>10. blockTxoSpent' \in [Blocks -> Seq(Outpoints)]
  <2>1. blockTxoSpent' = [blockTxoSpent EXCEPT ![b] = blockTxoSpent[b] \o SpentOutpoints(b)]
    BY DEF WriteBatch, b
  <2>2. blockTxoSpent[b] \o SpentOutpoints(b) \in Seq(Outpoints)
    BY <1>1, BatchTyped, 0 \in Nat, ConcatProperties DEF TypeInv, TypeOK
  <2> QED
    BY <2>1, <2>2 DEF TypeInv, TypeOK
<1>11. IsTable(nextTxoIndex', Addresses, Nat)
  <2>1. nextTxoIndex' = Put(nextTxoIndex, CountersAfter(b))
    BY DEF WriteBatch, b
  <2>2. IsTable(CountersAfter(b), Addresses, Nat)
    BY <1>1, BatchTyped, 0 \in Nat
  <2> QED
    BY <2>1, <2>2, PutTyped DEF TypeInv, TypeOK
<1>12. /\ job' \in [step : Steps, block : Blocks \cup {NoBlock}, height : Nat]
       /\ job'.step = "idle" /\ job'.block \notin Blocks
  BY ChainAssumption DEF WriteBatch, Idle, Steps
<1>13. highest' \in Nat \cup {-1} /\ restarts' \in 0..MaxRestarts
  BY DEF WriteBatch, TypeInv, TypeOK
<1> QED
  BY <1>2, <1>3, <1>4, <1>5, <1>6, <1>7, <1>8, <1>9, <1>10, <1>11, <1>12, <1>13
     DEF TypeInv, TypeOK

\* So does a restart, which keeps the tables and forgets the counters.
LEMMA RestartIndexerTyped ==
    ASSUME TypeInv, RestartIndexer
    PROVE  TypeInv'
<1>1. /\ job' \in [step : Steps, block : Blocks \cup {NoBlock}, height : Nat]
      /\ job'.step = "idle" /\ job'.block \notin Blocks
  BY ChainAssumption DEF RestartIndexer, Idle, Steps
<1>2. IsTable(nextTxoIndex', Addresses, Nat)
  BY EmptyTyped DEF RestartIndexer
<1>3. restarts' \in 0..MaxRestarts
  BY BoundsAssumption DEF RestartIndexer, TypeInv, TypeOK
<1>4. UNCHANGED index
  BY DEF RestartIndexer
<1> QED
  BY <1>1, <1>2, <1>3, <1>4 DEF TypeInv, TypeOK, index

\* The empty index is type correct.
LEMMA InitTyped == IndexerInit => TypeInv
<1> SUFFICES ASSUME IndexerInit PROVE TypeInv
  OBVIOUS
<1>1. /\ blockAt = EmptyTable /\ hashHeight = EmptyTable /\ timeHash = EmptyTable
      /\ txBlock = EmptyTable /\ addressTxo = EmptyTable /\ txoSpent = EmptyTable
      /\ nextTxoIndex = EmptyTable
  BY DEF IndexerInit
<1>2. /\ txoAddress \in [Credit -> Nat] /\ highest \in Nat \cup {-1}
      /\ restarts \in 0..MaxRestarts
  BY BoundsAssumption DEF IndexerInit
<1>3. /\ blockTxo \in [Blocks -> Seq(Addresses \X Nat)]
      /\ blockTxoSpent \in [Blocks -> Seq(Outpoints)]
  BY EmptySeq DEF IndexerInit
<1>4. /\ job \in [step : Steps, block : Blocks \cup {NoBlock}, height : Nat]
      /\ job.step = "idle" /\ job.block \notin Blocks
  BY ChainAssumption DEF IndexerInit, Idle, Steps
<1>5. IsFiniteSet(DOMAIN addressTxo)
  BY <1>1, EmptyTyped, FS_EmptySet
<1> QED
  BY <1>1, <1>2, <1>3, <1>4, <1>5, EmptyTyped DEF TypeInv, TypeOK

\* Every step keeps the types.
LEMMA StepTyped ==
    ASSUME TypeInv, [IndexerNext]_indexerVars
    PROVE  TypeInv'
<1>1. ASSUME NEW b \in Blocks, CallIndexBlock(b) PROVE TypeInv'
  BY <1>1, IndexBlockTyped, ChainAssumption DEF CallIndexBlock
<1>2. CASE IndexBlockStep
  BY <1>2, ClearBlockTxosTyped, PutHighestTyped, WriteBatchTyped DEF IndexBlockStep
<1>3. CASE RestartIndexer
  BY <1>3, RestartIndexerTyped
<1>4. CASE UNCHANGED indexerVars
  BY <1>4 DEF indexerVars, index, TypeInv, TypeOK
<1> QED
  BY <1>1, <1>2, <1>3, <1>4 DEF IndexerNext

\* Every reachable state is type correct.
THEOREM TypeCorrect == IndexerSpec => []TypeOK
<1>1. IndexerInit => TypeInv
  BY InitTyped
<1>2. TypeInv /\ [IndexerNext]_indexerVars => TypeInv'
  BY StepTyped
<1>3. TypeInv => TypeOK
  BY DEF TypeInv
<1> QED
  BY <1>1, <1>2, <1>3, PTL DEF IndexerSpec

-----------------------------------------------------------------------------
(* Where the recorded blocks are and where the block in hand will go: the  *)
(* part of every invariant that is about heights.                          *)

\* Blocks are recorded, and handed over, at their own heights.
AtOwnHeight ==
    /\ \A h \in DOMAIN blockAt : HeightOf[blockAt[h]] = h
    /\ job.step # "idle" => job.height = HeightOf[job.block]

\* The block in hand is not the one recorded at its height, and its
\* predecessor is recorded below it.
GoesOnTop ==
    job.step # "idle" =>
        /\ ~HasIndexedBlock(job.block, job.height)
        /\ Prev[job.block] # ZeroHash => HasIndexedBlock(Prev[job.block], job.height - 1)

PlaceInv == TypeInv /\ AtOwnHeight /\ GoesOnTop

\* What the batch does to the table of heights.
LEMMA BatchPlaces ==
    ASSUME TypeInv, WriteBatch
    PROVE  /\ job.block \in Blocks /\ job.height \in Nat
           /\ DOMAIN blockAt' = DOMAIN blockAt \cup {job.height}
           /\ \A h \in DOMAIN blockAt' :
                 blockAt'[h] = IF h = job.height THEN job.block ELSE blockAt[h]
<1>1. blockAt' = Put(blockAt, Entry(job.height, job.block)) /\ job.step = "batch"
  BY DEF WriteBatch
<1>2. /\ DOMAIN Entry(job.height, job.block) = {job.height}
      /\ Entry(job.height, job.block)[job.height] = job.block
  BY DEF Entry
<1>3. job.block \in Blocks /\ job.height \in Nat
  BY <1>1 DEF TypeInv, TypeOK
<1> QED
  BY <1>1, <1>2, <1>3 DEF Put

LEMMA InitPlaces == IndexerInit => PlaceInv
<1> SUFFICES ASSUME IndexerInit PROVE PlaceInv
  OBVIOUS
<1>1. DOMAIN blockAt = {} /\ job.step = "idle"
  BY EmptyTyped DEF IndexerInit, Idle
<1> QED
  BY <1>1, InitTyped DEF PlaceInv, AtOwnHeight, GoesOnTop

\* Every step keeps the blocks in their places: only the batch moves one.
LEMMA StepPlaces ==
    ASSUME PlaceInv, [IndexerNext]_indexerVars
    PROVE  PlaceInv'
<1>1. TypeInv'
  BY StepTyped DEF PlaceInv
<1>2. ASSUME NEW b \in Blocks, CallIndexBlock(b) PROVE PlaceInv'
  <2>1. /\ UNCHANGED blockAt /\ job'.block = b /\ job'.height = HeightOf[b]
        /\ ~HasIndexedBlock(b, HeightOf[b])
        /\ Prev[b] # ZeroHash => HasIndexedBlock(Prev[b], HeightOf[b] - 1)
    BY <1>2 DEF CallIndexBlock, IndexBlock, index
  <2> QED
    BY <2>1, <1>1 DEF PlaceInv, AtOwnHeight, GoesOnTop, HasIndexedBlock
<1>3. CASE ClearBlockTxos \/ PutHighest
  <2>1. /\ UNCHANGED blockAt /\ job.step # "idle"
        /\ job'.block = job.block /\ job'.height = job.height
    BY <1>3 DEF ClearBlockTxos, PutHighest, PlaceInv, TypeInv, TypeOK
  <2> QED
    BY <2>1, <1>1 DEF PlaceInv, AtOwnHeight, GoesOnTop, HasIndexedBlock
<1>4. CASE WriteBatch
  <2>1. job.step = "batch" /\ job'.step = "idle"
    BY <1>4 DEF WriteBatch, Idle
  <2> QED
    BY <2>1, <1>1, <1>4, BatchPlaces DEF PlaceInv, AtOwnHeight, GoesOnTop
<1>5. CASE RestartIndexer
  <2>1. UNCHANGED blockAt /\ job'.step = "idle"
    BY <1>5 DEF RestartIndexer, Idle, index
  <2> QED
    BY <2>1, <1>1 DEF PlaceInv, AtOwnHeight, GoesOnTop
<1>6. CASE UNCHANGED indexerVars
  BY <1>6, <1>1 DEF indexerVars, index, PlaceInv, AtOwnHeight, GoesOnTop, HasIndexedBlock
<1> QED
  BY <1>2, <1>3, <1>4, <1>5, <1>6 DEF IndexerNext, IndexBlockStep

LEMMA Placed == IndexerSpec => []PlaceInv
<1>1. PlaceInv /\ [IndexerNext]_indexerVars => PlaceInv'
  BY StepPlaces
<1> QED
  BY <1>1, InitPlaces, PTL DEF IndexerSpec

-----------------------------------------------------------------------------
(* "highestblock", in a process that has not been restarted.               *)

\* The recorded heights have no gap, and once "highestblock" is written it
\* counts the block in hand.
NoGap ==
    restarts = 0 =>
        0..highest = IF job.step = "batch" THEN DOMAIN blockAt \cup {job.height}
                                           ELSE DOMAIN blockAt

\* The height of the block in hand is at most one above the recorded ones.
LEMMA NextHeight ==
    ASSUME PlaceInv, NoGap, restarts = 0, job.step \in {"clear", "highest"}
    PROVE  job.height \in 0..(highest + 1)
<1>1. /\ job.block \in Blocks /\ job.height \in Nat /\ highest \in Nat \cup {-1}
      /\ job.height = HeightOf[job.block]
  BY DEF PlaceInv, TypeInv, TypeOK, AtOwnHeight
<1>2. CASE Prev[job.block] = ZeroHash
  <2>1. job.height = 0
    BY <1>1, <1>2, ChainAssumption
  <2> QED
    BY <1>1, <2>1
<1>3. CASE Prev[job.block] # ZeroHash
  <2>1. job.height - 1 \in DOMAIN blockAt
    BY <1>3 DEF PlaceInv, GoesOnTop, HasIndexedBlock
  <2>2. job.height - 1 \in 0..highest
    BY <2>1 DEF NoGap
  <2> QED
    BY <1>1, <2>2
<1> QED
  BY <1>2, <1>3

LEMMA Gapless == IndexerSpec => []NoGap
<1>1. IndexerInit => NoGap
  <2> SUFFICES ASSUME IndexerInit PROVE NoGap
    OBVIOUS
  <2>1. DOMAIN blockAt = {} /\ job.step = "idle" /\ highest = -1
    BY EmptyTyped DEF IndexerInit, Idle
  <2> QED
    BY <2>1 DEF NoGap
<1>2. PlaceInv /\ NoGap /\ [IndexerNext]_indexerVars => NoGap'
  <2> SUFFICES ASSUME PlaceInv, NoGap, [IndexerNext]_indexerVars, restarts' = 0
               PROVE  NoGap'
    BY DEF NoGap
  <2>1. restarts \in Nat /\ highest \in Nat \cup {-1}
    BY DEF PlaceInv, TypeInv, TypeOK
  <2>2. ASSUME NEW b \in Blocks, CallIndexBlock(b) PROVE NoGap'
    BY <2>2 DEF CallIndexBlock, IndexBlock, index, Idle, NoGap
  <2>3. CASE ClearBlockTxos
    <3>1. job.step = "clear" /\ job'.step = "highest" /\ UNCHANGED <<blockAt, highest, restarts>>
      BY <2>3 DEF ClearBlockTxos, PlaceInv, TypeInv, TypeOK
    <3> QED
      BY <3>1 DEF NoGap
  <2>4. CASE PutHighest
    <3>1. /\ job.step = "highest" /\ job'.step = "batch" /\ job'.height = job.height
          /\ highest' = IF highest < job.height THEN job.height ELSE highest
          /\ UNCHANGED <<blockAt, restarts>>
      BY <2>4 DEF PutHighest, PlaceInv, TypeInv, TypeOK
    <3>2. job.height \in 0..(highest + 1)
      BY <3>1, NextHeight
    <3>3. 0..highest' = (0..highest) \cup {job.height}
      BY <2>1, <3>1, <3>2
    <3> QED
      BY <3>1, <3>3 DEF NoGap
  <2>5. CASE WriteBatch
    <3>1. job.step = "batch" /\ job'.step = "idle" /\ UNCHANGED <<highest, restarts>>
      BY <2>5 DEF WriteBatch, Idle
    <3> QED
      BY <3>1, <2>5, BatchPlaces DEF NoGap, PlaceInv
  <2>6. CASE RestartIndexer
    BY <2>1, <2>6 DEF RestartIndexer
  <2>7. CASE UNCHANGED indexerVars
    BY <2>7 DEF indexerVars, index, NoGap
  <2> QED
    BY <2>2, <2>3, <2>4, <2>5, <2>6, <2>7 DEF IndexerNext, IndexBlockStep
<1> QED
  BY <1>1, <1>2, Placed, PTL DEF IndexerSpec

\* Until the first restart, outside the moment between its own write and the
\* batch, "highestblock" is the top of the recorded heights, and every height
\* up to it has a block, through any number of reorganisations.
THEOREM HighestCorrect == IndexerSpec => []HighestIsTip
<1>1. NoGap => HighestIsTip
  BY DEF NoGap, HighestIsTip
<1> QED
  BY <1>1, Gapless, PTL

-----------------------------------------------------------------------------
(* A spend is reported only by a block that is recorded at its height.     *)
(* The invariant is inductive once it says where the spends of a block are *)
(* listed (what clearBlockTxos finds) and that a block that is about to be *)
(* replaced has none left.                                                 *)

\* A spend is in the list of the block that it names.
SpendsListed ==
    \A o \in DOMAIN txoSpent : o \in Range(blockTxoSpent[txoSpent[o].block])

\* Once cleared, the block to be replaced is named by no spend.
ClearedHasNoSpends ==
    (job.step \in {"highest", "batch"} /\ job.height \in DOMAIN blockAt) =>
        \A o \in DOMAIN txoSpent : txoSpent[o].block # blockAt[job.height]

SpendInv == TypeInv /\ AtOwnHeight /\ SpendsListed /\ ClearedHasNoSpends
            /\ SpentByRecordedBlock

\* Concatenation keeps the elements of both sequences.
LEMMA ConcatRange ==
    ASSUME NEW S, NEW s \in Seq(S), NEW t \in Seq(S)
    PROVE  Range(s \o t) = Range(s) \cup Range(t)
<1>1. /\ Len(s) \in Nat /\ Len(t) \in Nat /\ Len(s \o t) = Len(s) + Len(t)
      /\ DOMAIN s = 1..Len(s) /\ DOMAIN t = 1..Len(t) /\ DOMAIN (s \o t) = 1..Len(s \o t)
      /\ \A i \in 1..Len(s) : (s \o t)[i] = s[i]
      /\ \A i \in 1..Len(t) : (s \o t)[Len(s) + i] = t[i]
  BY ConcatProperties, LenProperties
<1>2. ASSUME NEW i \in DOMAIN s PROVE s[i] \in Range(s \o t)
  BY <1>1 DEF Range
<1>3. ASSUME NEW i \in DOMAIN t PROVE t[i] \in Range(s \o t)
  <2>1. Len(s) + i \in DOMAIN (s \o t)
    BY <1>1
  <2> QED
    BY <2>1, <1>1 DEF Range
<1>4. ASSUME NEW i \in DOMAIN (s \o t) PROVE (s \o t)[i] \in Range(s) \cup Range(t)
  <2>1. CASE i <= Len(s)
    BY <2>1, <1>1 DEF Range
  <2>2. CASE i > Len(s)
    <3>1. i - Len(s) \in 1..Len(t) /\ i = Len(s) + (i - Len(s))
      BY <2>2, <1>1
    <3> QED
      BY <3>1, <1>1 DEF Range
  <2> QED
    BY <2>1, <2>2, <1>1
<1> QED
  BY <1>2, <1>3, <1>4 DEF Range

\* The decision to replace a block records the height to clear and no spend.
LEMMA IndexBlockSpends ==
    ASSUME SpendInv, NEW b \in Blocks, CallIndexBlock(b)
    PROVE  SpendInv'
<1>1. TypeInv'
  BY IndexBlockTyped, ChainAssumption DEF CallIndexBlock, SpendInv
<1>2. /\ job'.block = b /\ job'.height = HeightOf[b]
      /\ job'.step = "highest" => HeightOf[b] \notin DOMAIN blockAt
      /\ job'.step \in {"clear", "highest"}
      /\ UNCHANGED <<blockAt, txoSpent, blockTxoSpent>>
  BY DEF CallIndexBlock, IndexBlock, index
<1> QED
  BY <1>1, <1>2 DEF SpendInv, AtOwnHeight, SpendsListed, ClearedHasNoSpends,
                    SpentByRecordedBlock, HasIndexedBlock

\* After the removal no spend names the block that is being replaced.
LEMMA ClearBlockTxosSpends ==
    ASSUME SpendInv, ClearBlockTxos
    PROVE  SpendInv'
<1> DEFINE old == blockAt[job.height]
<1>1. TypeInv'
  BY ClearBlockTxosTyped DEF SpendInv
<1>2. /\ txoSpent' = Restrict(txoSpent, DOMAIN txoSpent \ Range(blockTxoSpent[old]))
      /\ job.step = "clear"
      /\ job'.height = job.height /\ job'.block = job.block
      /\ UNCHANGED <<blockAt, blockTxoSpent>>
  BY DEF ClearBlockTxos, SpendInv, TypeInv, TypeOK
<1>3. \A o \in DOMAIN txoSpent' :
         /\ o \in DOMAIN txoSpent /\ o \notin Range(blockTxoSpent[old])
         /\ txoSpent'[o] = txoSpent[o]
  BY <1>2 DEF Restrict
<1>4. AtOwnHeight'
  BY <1>2 DEF SpendInv, AtOwnHeight
<1>5. SpendsListed' /\ SpentByRecordedBlock'
  BY <1>2, <1>3 DEF SpendInv, SpendsListed, SpentByRecordedBlock, HasIndexedBlock
<1>6. ClearedHasNoSpends'
  BY <1>2, <1>3 DEF SpendInv, SpendsListed, ClearedHasNoSpends
<1> QED
  BY <1>1, <1>4, <1>5, <1>6 DEF SpendInv

\* "highestblock" has no part in the spends.
LEMMA PutHighestSpends ==
    ASSUME SpendInv, PutHighest
    PROVE  SpendInv'
<1>1. TypeInv'
  BY PutHighestTyped DEF SpendInv
<1>2. /\ job.step = "highest" /\ job'.height = job.height /\ job'.block = job.block
      /\ UNCHANGED <<blockAt, txoSpent, blockTxoSpent>>
  BY DEF PutHighest, SpendInv, TypeInv, TypeOK
<1> QED
  BY <1>1, <1>2 DEF SpendInv, AtOwnHeight, SpendsListed, ClearedHasNoSpends,
                    SpentByRecordedBlock, HasIndexedBlock

\* The step that matters: the replaced block loses its place, but no spend
\* names it; the spends written name the block that takes its place.
LEMMA WriteBatchSpends ==
    ASSUME SpendInv, WriteBatch
    PROVE  SpendInv'
<1> DEFINE b == job.block
           h == job.height
<1>1. TypeInv'
  BY WriteBatchTyped DEF SpendInv
<1>2. /\ job.step = "batch" /\ b \in Blocks /\ h \in Nat /\ h = HeightOf[b]
      /\ job'.step = "idle"
      /\ blockAt' = Put(blockAt, Entry(h, b))
      /\ txoSpent' = Put(txoSpent, SpentRecords(b))
      /\ blockTxoSpent' = [blockTxoSpent EXCEPT ![b] = blockTxoSpent[b] \o SpentOutpoints(b)]
  BY DEF WriteBatch, Idle, SpendInv, TypeInv, TypeOK, AtOwnHeight
<1> HIDE DEF b, h
<1>3. /\ DOMAIN blockAt' = DOMAIN blockAt \cup {h}
      /\ \A g \in DOMAIN blockAt' : blockAt'[g] = IF g = h THEN b ELSE blockAt[g]
  <2>1. DOMAIN Entry(h, b) = {h} /\ Entry(h, b)[h] = b
    BY DEF Entry
  <2> QED
    BY <1>2, <2>1 DEF Put
<1>4. /\ DOMAIN SpentRecords(b) = Range(SpentOutpoints(b))
      /\ \A o \in DOMAIN SpentRecords(b) : SpentRecords(b)[o].block = b
  BY DEF SpentRecords
<1>5. /\ DOMAIN txoSpent' = DOMAIN txoSpent \cup Range(SpentOutpoints(b))
      /\ \A o \in DOMAIN txoSpent' :
            IF o \in Range(SpentOutpoints(b)) THEN txoSpent'[o].block = b
                                              ELSE txoSpent'[o] = txoSpent[o]
  BY <1>2, <1>4 DEF Put
<1>6. /\ \A c \in Blocks : Range(blockTxoSpent[c]) \subseteq Range(blockTxoSpent'[c])
      /\ Range(SpentOutpoints(b)) \subseteq Range(blockTxoSpent'[b])
  <2>1. /\ blockTxoSpent \in [Blocks -> Seq(Outpoints)]
        /\ SpentOutpoints(b) \in Seq(Outpoints)
    BY <1>2, BatchTyped DEF SpendInv, TypeInv, TypeOK
  <2>2. Range(blockTxoSpent[b]) \cup Range(SpentOutpoints(b))
            \subseteq Range(blockTxoSpent[b] \o SpentOutpoints(b))
    BY <1>2, <2>1, ConcatRange
  <2> QED
    BY <1>2, <2>1, <2>2
<1>7. AtOwnHeight'
  BY <1>2, <1>3 DEF SpendInv, AtOwnHeight
<1>8. \A o \in DOMAIN txoSpent : txoSpent[o].block \in Blocks
  BY DEF SpendInv, TypeInv, TypeOK, IsTable, Range
<1>9. SpendsListed'
  BY <1>2, <1>5, <1>6, <1>8 DEF SpendInv, SpendsListed
<1>10. SpentByRecordedBlock'
  <2> SUFFICES ASSUME NEW o \in DOMAIN txoSpent'
               PROVE  /\ HeightOf[txoSpent'[o].block] \in DOMAIN blockAt'
                      /\ blockAt'[HeightOf[txoSpent'[o].block]] = txoSpent'[o].block
    BY DEF SpentByRecordedBlock, HasIndexedBlock
  <2>1. CASE o \in Range(SpentOutpoints(b))
    BY <2>1, <1>2, <1>3, <1>5
  <2>2. CASE o \notin Range(SpentOutpoints(b))
    <3> DEFINE c == txoSpent[o].block
    <3>1. o \in DOMAIN txoSpent /\ txoSpent'[o].block = c
      BY <2>2, <1>5
    <3>2. HeightOf[c] \in DOMAIN blockAt /\ blockAt[HeightOf[c]] = c
      BY <3>1 DEF SpendInv, SpentByRecordedBlock, HasIndexedBlock
    <3>3. HeightOf[c] # h
      BY <3>1, <3>2, <1>2 DEF SpendInv, ClearedHasNoSpends, h
    <3> QED
      BY <3>1, <3>2, <3>3, <1>3
  <2> QED
    BY <2>1, <2>2
<1>11. ClearedHasNoSpends'
  BY <1>2 DEF ClearedHasNoSpends
<1> QED
  BY <1>1, <1>7, <1>9, <1>10, <1>11 DEF SpendInv

\* A restart between the removal and the batch leaves a block without spends.
LEMMA RestartIndexerSpends ==
    ASSUME SpendInv, RestartIndexer
    PROVE  SpendInv'
<1>1. TypeInv'
  BY RestartIndexerTyped DEF SpendInv
<1>2. job'.step = "idle" /\ UNCHANGED <<blockAt, txoSpent, blockTxoSpent>>
  BY DEF RestartIndexer, Idle, index
<1> QED
  BY <1>1, <1>2 DEF SpendInv, AtOwnHeight, SpendsListed, ClearedHasNoSpends,
                    SpentByRecordedBlock, HasIndexedBlock

LEMMA InitSpends == IndexerInit => SpendInv
<1> SUFFICES ASSUME IndexerInit PROVE SpendInv
  OBVIOUS
<1>1. /\ DOMAIN blockAt = {} /\ DOMAIN txoSpent = {} /\ job.step = "idle"
  BY EmptyTyped DEF IndexerInit, Idle
<1> QED
  BY <1>1, InitTyped DEF SpendInv, AtOwnHeight, SpendsListed, ClearedHasNoSpends,
                         SpentByRecordedBlock

LEMMA StepSpends ==
    ASSUME SpendInv, [IndexerNext]_indexerVars
    PROVE  SpendInv'
<1>1. ASSUME NEW b \in Blocks, CallIndexBlock(b) PROVE SpendInv'
  BY <1>1, IndexBlockSpends
<1>2. CASE IndexBlockStep
  BY <1>2, ClearBlockTxosSpends, PutHighestSpends, WriteBatchSpends DEF IndexBlockStep
<1>3. CASE RestartIndexer
  BY <1>3, RestartIndexerSpends
<1>4. CASE UNCHANGED indexerVars
  <2>1. TypeInv'
    BY <1>4 DEF indexerVars, index, TypeInv, TypeOK, SpendInv
  <2> QED
    BY <1>4, <2>1 DEF indexerVars, index, SpendInv, AtOwnHeight, SpendsListed,
                      ClearedHasNoSpends, SpentByRecordedBlock, HasIndexedBlock
<1> QED
  BY <1>1, <1>2, <1>3, <1>4 DEF IndexerNext

\* Whatever is reorganised and wherever the process stops, an output is
\* reported as spent only by a block of the recorded chain.
THEOREM SpentByRecorded == IndexerSpec => []SpentByRecordedBlock
<1>1. SpendInv /\ [IndexerNext]_indexerVars => SpendInv'
  BY StepSpends
<1>2. SpendInv => SpentByRecordedBlock
  BY DEF SpendInv
<1> QED
  BY <1>1, <1>2, InitSpends, PTL DEF IndexerSpec

-----------------------------------------------------------------------------
(* The address records: they are stored under free keys, and they are      *)
(* those of the recorded blocks.  Both are false of a process that stops   *)
(* in the middle of a reorganisation (see NoTxoOverwritten and             *)
(* WalkEndsComplete), so they are proved of executions without restarts    *)
(* and of chains without forks.                                            *)

\* At most one block at every height.
Straight == \A b, c \in Blocks : HeightOf[b] = HeightOf[c] => b = c

NoRestartInReorg == MaxRestarts = 0 \/ Straight

\* On a straight chain nothing is ever replaced.
LEMMA StraightReplacesNothing ==
    ASSUME PlaceInv, Straight, job.step # "idle"
    PROVE  job.height \notin DOMAIN blockAt
<1> SUFFICES ASSUME job.height \in DOMAIN blockAt PROVE FALSE
  OBVIOUS
<1>1. /\ blockAt[job.height] \in Blocks /\ job.block \in Blocks
      /\ HeightOf[blockAt[job.height]] = job.height /\ HeightOf[job.block] = job.height
  BY DEF PlaceInv, TypeInv, TypeOK, IsTable, Range, AtOwnHeight
<1>2. blockAt[job.height] = job.block
  BY <1>1 DEF Straight
<1> QED
  BY <1>2 DEF PlaceInv, GoesOnTop, HasIndexedBlock

-----------------------------------------------------------------------------
(* A TXO is never stored under a key in use.  Without restarts, because    *)
(* the counter in memory bounds all keys that were given out for its       *)
(* address; on a straight chain, because nothing is removed and so the     *)
(* number of keys in the database is the last index.                       *)

\* The keys that have been given out.
Given == DOMAIN addressTxo \cup UNION {Range(blockTxo[c]) : c \in Blocks}

KeysHeld(a) == {k \in DOMAIN addressTxo : k[1] = a}

\* No key that was given out is above the last index of its address.
KeysCounted == \A k \in Given : k[2] <= LastIndex(k[1])

\* The addresses of the keys have counters.
InMemory == \A k \in Given : k[1] \in DOMAIN nextTxoIndex

\* The last index is the number of keys.
Exact == \A a \in Addresses : LastIndex(a) = Cardinality(KeysHeld(a))

CountInv == PlaceInv /\ KeysCounted
            /\ (MaxRestarts = 0 => InMemory) /\ (Straight => Exact)

\* They are keys.
LEMMA GivenTyped ==
    ASSUME TypeInv
    PROVE  Given \subseteq Addresses \X Nat
<1>1. DOMAIN addressTxo \subseteq Addresses \X Nat
  BY DEF TypeInv, TypeOK, IsTable
<1>2. ASSUME NEW c \in Blocks
      PROVE  Range(blockTxo[c]) \subseteq Addresses \X Nat
  <2>1. blockTxo[c] \in Seq(Addresses \X Nat)
    BY DEF TypeInv, TypeOK
  <2> QED
    BY <2>1, ElementOfSeq, LenProperties DEF Range
<1> QED
  BY <1>1, <1>2 DEF Given

\* The two parts of a key.
LEMMA TxoKeyParts ==
    ASSUME NEW b, NEW i
    PROVE  /\ TxoKey(b, i)[1] = Credits[b][i].address
           /\ TxoKey(b, i)[2] = LastIndex(Credits[b][i].address)
                                   + CreditsTo(b, Credits[b][i].address, i)
BY DEF TxoKey

\* The keys of a batch are different from each other.
LEMMA TxoKeyInjective ==
    ASSUME TypeInv, NEW b \in Blocks,
           NEW i \in 1..Len(Credits[b]), NEW j \in 1..Len(Credits[b]),
           TxoKey(b, i) = TxoKey(b, j)
    PROVE  i = j
<1> DEFINE a == Credits[b][i].address
<1>1. Len(Credits[b]) \in Nat /\ a \in Addresses
  BY ContentsTyped DEF Credit
<1>3. Credits[b][j].address = a
  BY TxoKeyParts
<1>4. LastIndex(a) + CreditsTo(b, a, i) = LastIndex(a) + CreditsTo(b, a, j)
  BY TxoKeyParts, <1>3
<1>5. LastIndex(a) \in Nat /\ CreditsTo(b, a, i) \in Nat /\ CreditsTo(b, a, j) \in Nat
  BY <1>1, LastIndexType, CreditsToBounds
<1>6. ~(i < j) /\ ~(j < i)
  <2>1. ASSUME i < j PROVE FALSE
    <3>1. CreditsTo(b, a, i) < CreditsTo(b, a, j)
      BY <2>1, <1>1, <1>3, CreditsToGrows
    <3> QED
      BY <3>1, <1>4, <1>5
  <2>2. ASSUME j < i PROVE FALSE
    <3>1. CreditsTo(b, a, j) < CreditsTo(b, a, i)
      BY <2>2, <1>1, CreditsToGrows
    <3> QED
      BY <3>1, <1>4, <1>5
  <2> QED
    BY <2>1, <2>2
<1> QED
  BY <1>1, <1>6

\* The new keys of an address are as many as its credits in the block.
LEMMA NewKeysOf ==
    ASSUME TypeInv, NEW b \in Blocks, NEW a \in Addresses
    PROVE  LET new == {k \in Range(TxoKeys(b)) : k[1] = a}
           IN  /\ IsFiniteSet(new)
               /\ Cardinality(new) = CreditsTo(b, a, Len(Credits[b]))
<1> DEFINE n == Len(Credits[b])
           new == {k \in Range(TxoKeys(b)) : k[1] = a}
           At == {j \in 1..n : Credits[b][j].address = a}
           f == [i \in At |-> TxoKey(b, i)]
<1>1. n \in Nat
  BY ContentsTyped
<1>2. IsFiniteSet(At) /\ Cardinality(At) = CreditsTo(b, a, n)
  <2>1. IsFiniteSet(1..n)
    BY <1>1, PositionsFinite
  <2> QED
    BY <2>1, FS_Subset DEF CreditsTo
<1>3. \A i \in 1..n : TxoKey(b, i)[1] = Credits[b][i].address
  BY TxoKeyParts
<1>4. \A k : k \in Range(TxoKeys(b)) <=> \E i \in 1..n : k = TxoKey(b, i)
  BY DEF TxoKeys, Range
<1>5. \A k : k \in new <=> \E i \in At : k = TxoKey(b, i)
  BY <1>3, <1>4
<1>6. \A i, j \in At : TxoKey(b, i) = TxoKey(b, j) => i = j
  BY TxoKeyInjective
<1> HIDE DEF new, At
<1>7. f \in Surjection(At, new)
  BY <1>5 DEF Surjection
<1>8. f \in Injection(At, new)
  BY <1>5, <1>6 DEF Injection, IsInjective
<1>9. IsFiniteSet(new) /\ Cardinality(new) = Cardinality(At)
  BY <1>2, <1>7, <1>8, FS_Surjection
<1> QED
  BY <1>2, <1>9 DEF new

\* Keys of a batch are above all that were given out.
LEMMA NewKeysFresh ==
    ASSUME TypeInv, KeysCounted, NEW b \in Blocks, NEW k \in Range(TxoKeys(b))
    PROVE  k \in Addresses \X Nat /\ k \notin Given
<1>1. PICK i \in 1..Len(Credits[b]) : k = TxoKey(b, i)
  BY DEF TxoKeys, Range
<1> DEFINE a == Credits[b][i].address
<1>2. a \in Addresses /\ i \in Nat /\ i \in 1..i
  BY ContentsTyped DEF Credit
<1>3. LastIndex(a) \in Nat /\ CreditsTo(b, a, i) \in Nat /\ 1 <= CreditsTo(b, a, i)
  BY <1>2, LastIndexType, CreditsToBounds
<1>4. k = <<a, LastIndex(a) + CreditsTo(b, a, i)>>
  BY <1>1 DEF TxoKey
<1> HIDE DEF a
<1>5. k \in Addresses \X Nat /\ k[1] = a /\ k[2] > LastIndex(a)
  BY <1>2, <1>3, <1>4
<1>6. k[2] <= LastIndex(k[1]) => FALSE
  BY <1>3, <1>5
<1> QED
  BY <1>5, <1>6 DEF KeysCounted

\* The batch's effect on the keys and the lists.
LEMMA BatchKeys ==
    ASSUME TypeInv, WriteBatch, NEW b, b = job.block
    PROVE  /\ b \in Blocks
           /\ DOMAIN addressTxo' = DOMAIN addressTxo \cup Range(TxoKeys(b))
           /\ \A k \in DOMAIN addressTxo' : addressTxo'[k] =
                 IF k \in Range(TxoKeys(b)) THEN TxoRecords(b, job.height)[k]
                                            ELSE addressTxo[k]
           /\ \A c \in Blocks : Range(blockTxo'[c]) =
                 Range(blockTxo[c]) \cup IF c = b THEN Range(TxoKeys(b)) ELSE {}
<1>1. /\ b \in Blocks /\ job.height \in Nat
      /\ addressTxo' = Put(addressTxo, TxoRecords(b, job.height))
      /\ blockTxo' = [blockTxo EXCEPT ![b] = blockTxo[b] \o TxoKeys(b)]
  BY DEF WriteBatch, TypeInv, TypeOK
<1>2. DOMAIN TxoRecords(b, job.height) = Range(TxoKeys(b))
  BY DEF TxoRecords
<1>3. /\ TxoKeys(b) \in Seq(Addresses \X Nat)
      /\ blockTxo \in [Blocks -> Seq(Addresses \X Nat)]
  BY <1>1, BatchTyped DEF TypeInv, TypeOK
<1>4. Range(blockTxo[b] \o TxoKeys(b)) = Range(blockTxo[b]) \cup Range(TxoKeys(b))
  <2>1. blockTxo[b] \in Seq(Addresses \X Nat)
    BY <1>1, <1>3
  <2> QED
    BY <1>3, <2>1, ConcatRange
<1>5. \A c \in Blocks : Range(blockTxo'[c]) =
         Range(blockTxo[c]) \cup IF c = b THEN Range(TxoKeys(b)) ELSE {}
  BY <1>1, <1>3, <1>4
<1> QED
  BY <1>1, <1>2, <1>5 DEF Put

\* After the batch the last index of every address counts its new keys.
LEMMA BatchLastIndex ==
    ASSUME TypeInv, WriteBatch, NEW b, b = job.block, NEW a \in Addresses
    PROVE  LastIndex(a)' = LastIndex(a) + CreditsTo(b, a, Len(Credits[b]))
<1> DEFINE n == Len(Credits[b])
<1>1. b \in Blocks /\ n \in Nat /\ DOMAIN Credits[b] = 1..n
  BY BatchKeys, ContentsTyped
<1>2. nextTxoIndex' = Put(nextTxoIndex, CountersAfter(b))
  BY DEF WriteBatch
<1>3. CASE a \in DOMAIN CountersAfter(b)
  <2>1. CountersAfter(b)[a] = LastIndex(a) + CreditsTo(b, a, n)
    BY <1>3 DEF CountersAfter
  <2> QED
    BY <1>2, <1>3, <2>1 DEF Put, LastIndex
<1>4. CASE a \notin DOMAIN CountersAfter(b)
  <2>1. \A i \in 1..n : Credits[b][i].address # a
    BY <1>1, <1>4 DEF CountersAfter, Range
  <2>2. CreditsTo(b, a, n) = 0
    <3>1. {j \in 1..n : Credits[b][j].address = a} = {}
      BY <2>1
    <3> QED
      BY <3>1, FS_EmptySet, Zenon DEF CreditsTo
  <2>3. KeysHeld(a)' = KeysHeld(a)
    <3>1. \A k \in Range(TxoKeys(b)) : k[1] # a
      <4>1. \A k \in Range(TxoKeys(b)) : \E i \in 1..n : k = TxoKey(b, i)
        BY DEF TxoKeys, Range
      <4> QED
        BY <4>1, <2>1, TxoKeyParts
    <3>2. DOMAIN addressTxo' = DOMAIN addressTxo \cup Range(TxoKeys(b))
      BY BatchKeys
    <3> QED
      BY <3>1, <3>2 DEF KeysHeld
  <2>4. LastIndex(a)' = LastIndex(a)
    BY <1>2, <1>4, <2>3 DEF LastIndex, KeysHeld, Put
  <2>5. LastIndex(a) \in Nat
    BY LastIndexType
  <2> QED
    BY <2>2, <2>4, <2>5
<1> QED
  BY <1>3, <1>4

\* The batch stores under keys that were not given out, and counts them.
LEMMA WriteBatchCounts ==
    ASSUME CountInv, WriteBatch
    PROVE  /\ CountInv'
           /\ \A k \in DOMAIN addressTxo :
                 k \in DOMAIN addressTxo' /\ addressTxo'[k] = addressTxo[k]
<1> DEFINE b == job.block
           n == Len(Credits[b])
<1>1. PlaceInv' /\ TypeInv
  BY StepPlaces DEF CountInv, PlaceInv, IndexerNext, IndexBlockStep
<1>2. b \in Blocks /\ n \in Nat
  BY <1>1, BatchKeys, ContentsTyped
<1>3. Given' = Given \cup Range(TxoKeys(b))
  <2>1. /\ DOMAIN addressTxo' = DOMAIN addressTxo \cup Range(TxoKeys(b))
        /\ \A c \in Blocks : Range(blockTxo'[c]) =
              Range(blockTxo[c]) \cup IF c = b THEN Range(TxoKeys(b)) ELSE {}
    BY <1>1, BatchKeys
  <2> QED
    BY <2>1, <1>2 DEF Given
<1>4. \A a \in Addresses :
         LastIndex(a) \in Nat /\ CreditsTo(b, a, n) \in Nat
            /\ LastIndex(a)' = LastIndex(a) + CreditsTo(b, a, n)
  BY <1>1, <1>2, LastIndexType, CreditsToBounds, BatchLastIndex
<1>5. ASSUME NEW i \in 1..n, NEW k, k = TxoKey(b, i)
      PROVE  /\ k[1] \in DOMAIN CountersAfter(b)
             /\ k[2] <= LastIndex(k[1])'
  <2>1. PICK a \in Addresses : a = Credits[b][i].address
    BY <1>2, ContentsTyped DEF Credit
  <2>2. i \in Nat /\ i <= n /\ DOMAIN Credits[b] = 1..n
    BY <1>2, ContentsTyped
  <2>3. CreditsTo(b, a, i) \in Nat /\ CreditsTo(b, a, i) <= CreditsTo(b, a, n)
    BY <1>2, <2>2, CreditsToBounds
  <2>4. k[1] = a /\ k[2] = LastIndex(a) + CreditsTo(b, a, i)
    BY <1>5, <2>1, TxoKeyParts
  <2>5. a \in DOMAIN CountersAfter(b)
    BY <2>1, <2>2 DEF CountersAfter, Range
  <2>6. k[2] <= LastIndex(a)'
    BY <2>3, <2>4, <1>4
  <2> QED
    BY <2>4, <2>5, <2>6
<1>6. \A k \in Range(TxoKeys(b)) :
         /\ k[1] \in DOMAIN CountersAfter(b)
         /\ k[2] <= LastIndex(k[1])'
  <2>1. \A k \in Range(TxoKeys(b)) : \E i \in 1..n : k = TxoKey(b, i)
    BY DEF TxoKeys, Range
  <2> QED
    BY <2>1, <1>5
<1>7. KeysCounted'
  <2> SUFFICES ASSUME NEW k \in Given'
               PROVE  k[2] <= LastIndex(k[1])'
    BY DEF KeysCounted
  <2>1. CASE k \in Range(TxoKeys(b))
    BY <2>1, <1>6
  <2>2. CASE k \in Given
    <3>1. k[2] <= LastIndex(k[1]) /\ k[1] \in Addresses /\ k[2] \in Nat
      BY <2>2, <1>1, GivenTyped DEF CountInv, KeysCounted
    <3> QED
      BY <3>1, <1>4
  <2> QED
    BY <2>1, <2>2, <1>3
<1>8. MaxRestarts = 0 => InMemory'
  <2>1. nextTxoIndex' = Put(nextTxoIndex, CountersAfter(b))
    BY DEF WriteBatch
  <2>2. DOMAIN nextTxoIndex' = DOMAIN nextTxoIndex \cup DOMAIN CountersAfter(b)
    BY <2>1, PutDomain
  <2> QED
    BY <2>2, <1>3, <1>6 DEF CountInv, InMemory
<1>9. ASSUME Straight PROVE Exact'
  <2> SUFFICES ASSUME NEW a \in Addresses
               PROVE  LastIndex(a)' = Cardinality(KeysHeld(a)')
    BY DEF Exact
  <2> DEFINE new == {k \in Range(TxoKeys(b)) : k[1] = a}
  <2>1. KeysHeld(a)' = KeysHeld(a) \cup new
    <3>1. DOMAIN addressTxo' = DOMAIN addressTxo \cup Range(TxoKeys(b))
      BY <1>1, BatchKeys
    <3> QED
      BY <3>1 DEF KeysHeld
  <2>2. KeysHeld(a) \cap new = {}
    BY <1>1, <1>2, NewKeysFresh DEF CountInv, KeysHeld, Given
  <2>3. IsFiniteSet(new) /\ Cardinality(new) = CreditsTo(b, a, n)
    BY <1>1, <1>2, NewKeysOf
  <2>4. IsFiniteSet(KeysHeld(a)) /\ Cardinality(KeysHeld(a)) = LastIndex(a)
    BY <1>1, <1>9, FS_Subset DEF CountInv, Exact, TypeInv, KeysHeld
  <2> HIDE DEF new
  <2>5. Cardinality(KeysHeld(a) \cup new)
           = Cardinality(KeysHeld(a)) + Cardinality(new) - Cardinality({})
    BY <2>2, <2>3, <2>4, FS_Union
  <2>6. Cardinality({}) = 0
    BY FS_EmptySet
  <2> QED
    BY <2>1, <2>3, <2>4, <2>5, <2>6, <1>4
<1>10. ASSUME NEW k \in DOMAIN addressTxo
       PROVE  k \in DOMAIN addressTxo' /\ addressTxo'[k] = addressTxo[k]
  <2>1. k \notin Range(TxoKeys(b))
    BY <1>1, <1>2, NewKeysFresh DEF CountInv, Given
  <2> QED
    BY <2>1, <1>1, BatchKeys
<1> QED
  BY <1>1, <1>7, <1>8, <1>9, <1>10 DEF CountInv

\* Every step keeps the counts and leaves every stored TXO as it is, or takes
\* it away.
LEMMA StepCounts ==
    ASSUME NoRestartInReorg, CountInv, [IndexerNext]_indexerVars
    PROVE  /\ CountInv'
           /\ \A k \in DOMAIN addressTxo : k \in DOMAIN addressTxo' =>
                 addressTxo'[k] = addressTxo[k]
<1>1. PlaceInv'
  BY StepPlaces DEF CountInv
<1>2. ASSUME UNCHANGED <<addressTxo, blockTxo, nextTxoIndex>>
      PROVE  CountInv' /\ UNCHANGED addressTxo
  BY <1>1, <1>2 DEF CountInv, KeysCounted, InMemory, Exact, Given, KeysHeld, LastIndex
<1>3. ASSUME NEW b \in Blocks, CallIndexBlock(b)
      PROVE  UNCHANGED <<addressTxo, blockTxo, nextTxoIndex>>
  BY <1>3 DEF CallIndexBlock, IndexBlock, index
<1>4. ASSUME ClearBlockTxos
      PROVE  /\ CountInv'
             /\ \A k \in DOMAIN addressTxo' : addressTxo'[k] = addressTxo[k]
  <2>1. job.step = "clear" /\ job.height \in DOMAIN blockAt
    BY <1>4 DEF ClearBlockTxos, CountInv, PlaceInv, TypeInv, TypeOK
  <2>2. ~Straight
    BY <2>1, StraightReplacesNothing DEF CountInv
  <2>3. /\ \A k \in DOMAIN addressTxo' :
              k \in DOMAIN addressTxo /\ addressTxo'[k] = addressTxo[k]
        /\ UNCHANGED <<blockTxo, nextTxoIndex>>
    BY <1>4 DEF ClearBlockTxos, Restrict
  <2>4. Given' \subseteq Given
    BY <2>3 DEF Given
  <2>5. InMemory' /\ KeysCounted'
    BY <2>2, <2>3, <2>4 DEF CountInv, NoRestartInReorg, InMemory, KeysCounted, LastIndex
  <2> QED
    BY <1>1, <2>2, <2>3, <2>5 DEF CountInv
<1>5. ASSUME PutHighest
      PROVE  UNCHANGED <<addressTxo, blockTxo, nextTxoIndex>>
  BY <1>5 DEF PutHighest
<1>6. CASE WriteBatch
  BY <1>6, WriteBatchCounts
<1>7. ASSUME RestartIndexer
      PROVE  CountInv' /\ UNCHANGED addressTxo
  <2>1. MaxRestarts # 0
    BY <1>7 DEF RestartIndexer, CountInv, PlaceInv, TypeInv, TypeOK
  <2>2. /\ UNCHANGED <<addressTxo, blockTxo>>
        /\ DOMAIN nextTxoIndex' = {}
    BY <1>7, EmptyTyped DEF RestartIndexer, index
  <2>3. \A a \in Addresses : LastIndex(a)' = LastIndex(a)
    BY <2>1, <2>2 DEF CountInv, NoRestartInReorg, Exact, KeysHeld, LastIndex
  <2>4. KeysCounted' /\ (Straight => Exact')
    BY <2>2, <2>3, GivenTyped DEF CountInv, PlaceInv, KeysCounted, Exact, Given, KeysHeld
  <2> QED
    BY <1>1, <2>1, <2>2, <2>4 DEF CountInv
<1>8. ASSUME UNCHANGED indexerVars
      PROVE  UNCHANGED <<addressTxo, blockTxo, nextTxoIndex>>
  BY <1>8 DEF indexerVars, index
<1> QED
  BY <1>2, <1>3, <1>4, <1>5, <1>6, <1>7, <1>8 DEF IndexerNext, IndexBlockStep

LEMMA InitCounts == IndexerInit => CountInv
<1> SUFFICES ASSUME IndexerInit PROVE CountInv
  OBVIOUS
<1>1. /\ DOMAIN addressTxo = {} /\ \A c \in Blocks : Range(blockTxo[c]) = {}
      /\ DOMAIN nextTxoIndex = {}
  BY EmptyTyped DEF IndexerInit, Range
<1>2. \A a : KeysHeld(a) = {}
  BY <1>1 DEF KeysHeld
<1>3. \A a \in Addresses : LastIndex(a) = Cardinality(KeysHeld(a))
  BY <1>1 DEF LastIndex, KeysHeld
<1> QED
  BY <1>1, <1>3, InitPlaces DEF CountInv, KeysCounted, InMemory, Exact, Given

\* As long as the process is not restarted, or nothing is reorganised,
\* getNextTxoIndex returns no index in use: the stored TXOs are not overwritten.
THEOREM NeverOverwritten ==
    ASSUME NoRestartInReorg
    PROVE  IndexerSpec => NoTxoOverwritten
<1>1. CountInv /\ [IndexerNext]_indexerVars => CountInv'
  BY StepCounts
<1>2. CountInv /\ [IndexerNext]_indexerVars =>
         [\A k \in DOMAIN addressTxo : k \in DOMAIN addressTxo' =>
             addressTxo'[k] = addressTxo[k]]_indexerVars
  BY StepCounts
<1> QED
  BY <1>1, <1>2, InitCounts, PTL DEF IndexerSpec, NoTxoOverwritten

-----------------------------------------------------------------------------
(* The address records are those of the recorded blocks.  The removal goes *)
(* by the list of the block, so the lists must not share keys, and a       *)
(* record must be in the list of the block it belongs to, through any      *)
(* number of comings and goings of that block.                             *)

\* No key is in the lists of two blocks.
ListsDisjoint ==
    \A c, d \in Blocks : c # d => Range(blockTxo[c]) \cap Range(blockTxo[d]) = {}

\* The record under key k is of a credit of block b.
RecordOf(k, b) ==
    \E i \in DOMAIN Credits[b] :
        /\ k[1] = Credits[b][i].address
        /\ addressTxo[k] = [out |-> Credits[b][i].out, height |-> HeightOf[b]]

\* Every record is of a recorded block and in its list.
RecordsListed ==
    \A k \in DOMAIN addressTxo : \E b \in Intact :
        k \in Range(blockTxo[b]) /\ RecordOf(k, b)

\* Every credit of a recorded block has a record that is in its list.
CreditsStored ==
    \A b \in Intact : \A i \in DOMAIN Credits[b] :
        \E k \in DOMAIN addressTxo :
            /\ k \in Range(blockTxo[b]) /\ k[1] = Credits[b][i].address
            /\ addressTxo[k] = [out |-> Credits[b][i].out, height |-> HeightOf[b]]

TxoInv == CountInv /\ ListsDisjoint /\ RecordsListed /\ CreditsStored /\ NoTxoTwice

\* The blocks whose records are in place are recorded, each at its height.
LEMMA IntactBlocks ==
    ASSUME PlaceInv
    PROVE  \A b : b \in Intact <=>
              /\ b \in Blocks /\ HasIndexedBlock(b, HeightOf[b])
              /\ HeightOf[b] \notin Replacing
<1>1. \A h \in DOMAIN blockAt : blockAt[h] \in Blocks /\ HeightOf[blockAt[h]] = h
  BY DEF PlaceInv, TypeInv, TypeOK, AtOwnHeight, IsTable, Range
<1> QED
  BY <1>1 DEF Intact, HasIndexedBlock

\* Which blocks come and go.
LEMMA IntactSteps ==
    ASSUME NoRestartInReorg, PlaceInv
    PROVE  /\ \A b \in Blocks : CallIndexBlock(b) => Intact' = Intact
           /\ ClearBlockTxos => /\ blockAt[job.height] \in Intact
                               /\ Intact' = Intact \ {blockAt[job.height]}
           /\ PutHighest => Intact' = Intact
           /\ WriteBatch => /\ job.block \notin Intact
                           /\ Intact' = Intact \cup {job.block}
                           /\ job.height = HeightOf[job.block]
                           /\ \A c \in Intact : HeightOf[c] # HeightOf[job.block]
           /\ RestartIndexer => Intact' = Intact
<1>1. ASSUME NEW b \in Blocks, CallIndexBlock(b) PROVE Intact' = Intact
  <2>1. /\ job.step = "idle" /\ job'.height = HeightOf[b] /\ UNCHANGED blockAt
        /\ job'.step \in {"clear", "highest"}
        /\ job'.step = "highest" => HeightOf[b] \notin DOMAIN blockAt
    BY <1>1 DEF CallIndexBlock, IndexBlock, Idle, index
  <2>2. DOMAIN blockAt \ Replacing' = DOMAIN blockAt \ Replacing
    BY <2>1 DEF Replacing
  <2> QED
    BY <2>1, <2>2 DEF Intact
<1>2. ASSUME ClearBlockTxos
      PROVE  /\ blockAt[job.height] \in Intact
             /\ Intact' = Intact \ {blockAt[job.height]}
  <2>1. /\ job.step = "clear" /\ job'.step = "highest" /\ job'.height = job.height
        /\ UNCHANGED blockAt /\ job.height \in DOMAIN blockAt
    BY <1>2 DEF ClearBlockTxos, PlaceInv, TypeInv, TypeOK
  <2>2. Replacing = {} /\ Replacing' = {job.height}
    BY <2>1 DEF Replacing
  <2>3. \A g, h \in DOMAIN blockAt : blockAt[g] = blockAt[h] => g = h
    BY DEF PlaceInv, AtOwnHeight
  <2> QED
    BY <2>1, <2>2, <2>3 DEF Intact
<1>3. ASSUME PutHighest PROVE Intact' = Intact
  <2>1. /\ job.step = "highest" /\ job'.step = "batch" /\ job'.height = job.height
        /\ UNCHANGED blockAt
    BY <1>3 DEF PutHighest, PlaceInv, TypeInv, TypeOK
  <2> QED
    BY <2>1 DEF Intact, Replacing
<1>4. ASSUME WriteBatch
      PROVE  /\ job.block \notin Intact
             /\ Intact' = Intact \cup {job.block}
             /\ job.height = HeightOf[job.block]
             /\ \A c \in Intact : HeightOf[c] # HeightOf[job.block]
  <2>1. job.step = "batch" /\ job'.step = "idle"
    BY <1>4 DEF WriteBatch, Idle
  <2>2. Replacing = {job.height} /\ Replacing' = {}
    BY <2>1 DEF Replacing
  <2>3. /\ DOMAIN blockAt' = DOMAIN blockAt \cup {job.height}
        /\ \A h \in DOMAIN blockAt' :
              blockAt'[h] = IF h = job.height THEN job.block ELSE blockAt[h]
    BY <1>4, BatchPlaces DEF PlaceInv
  <2>4. job.height = HeightOf[job.block]
    BY <2>1 DEF PlaceInv, AtOwnHeight
  <2>5. \A c \in Intact : HeightOf[c] # HeightOf[job.block]
    BY <2>2, <2>4, IntactBlocks
  <2>6. Intact' = Intact \cup {job.block}
    BY <2>2, <2>3 DEF Intact
  <2> QED
    BY <2>4, <2>5, <2>6
<1>5. ASSUME RestartIndexer PROVE Intact' = Intact
  <2>1. MaxRestarts # 0
    BY <1>5 DEF RestartIndexer, PlaceInv, TypeInv, TypeOK
  <2>2. job.step # "idle" => job.height \notin DOMAIN blockAt
    BY <2>1, StraightReplacesNothing DEF NoRestartInReorg
  <2>3. UNCHANGED blockAt /\ job'.step = "idle"
    BY <1>5 DEF RestartIndexer, Idle, index
  <2>4. DOMAIN blockAt \ Replacing' = DOMAIN blockAt \ Replacing
    BY <2>2, <2>3 DEF Replacing
  <2> QED
    BY <2>3, <2>4 DEF Intact
<1> QED
  BY <1>1, <1>2, <1>3, <1>4, <1>5

\* A step that leaves the tables and the intact blocks alone.
LEMMA NoTxoStep ==
    ASSUME TxoInv, CountInv', UNCHANGED <<addressTxo, blockTxo>>, Intact' = Intact
    PROVE  TxoInv'
<1>1. ListsDisjoint'
  BY DEF TxoInv, ListsDisjoint
<1>2. RecordsListed'
  BY DEF TxoInv, RecordsListed, RecordOf
<1>3. CreditsStored'
  BY DEF TxoInv, CreditsStored
<1>4. NoTxoTwice'
  BY DEF TxoInv, NoTxoTwice
<1> QED
  BY <1>1, <1>2, <1>3, <1>4 DEF TxoInv

\* The removal takes the records of one block, and none that another lists.
LEMMA ClearBlockTxosKeeps ==
    ASSUME NoRestartInReorg, TxoInv, CountInv', ClearBlockTxos
    PROVE  TxoInv'
<1> DEFINE old == blockAt[job.height]
<1>1. PlaceInv
  BY DEF TxoInv, CountInv
<1>2. /\ DOMAIN addressTxo' = DOMAIN addressTxo \ Range(blockTxo[old])
      /\ \A k \in DOMAIN addressTxo' : addressTxo'[k] = addressTxo[k]
      /\ UNCHANGED blockTxo
  BY DEF ClearBlockTxos, Restrict
<1>3. old \in Intact /\ Intact' = Intact \ {old} /\ Intact \subseteq Blocks
  BY <1>1, IntactSteps, IntactBlocks
<1> HIDE DEF old
<1>4. RecordsListed'
  <2> SUFFICES ASSUME NEW k \in DOMAIN addressTxo'
               PROVE  \E b \in Intact' : k \in Range(blockTxo'[b]) /\ RecordOf(k, b)'
    BY DEF RecordsListed
  <2>1. k \in DOMAIN addressTxo /\ k \notin Range(blockTxo[old])
        /\ addressTxo'[k] = addressTxo[k]
    BY <1>2
  <2>2. PICK b \in Intact : k \in Range(blockTxo[b]) /\ RecordOf(k, b)
    BY <2>1 DEF TxoInv, RecordsListed
  <2>3. b # old
    BY <2>1, <2>2
  <2>4. RecordOf(k, b)'
    BY <2>1, <2>2 DEF RecordOf
  <2> QED
    BY <1>2, <1>3, <2>2, <2>3, <2>4
<1>5. CreditsStored'
  <2> SUFFICES ASSUME NEW b \in Intact', NEW i \in DOMAIN Credits[b]
               PROVE  \E k \in DOMAIN addressTxo' :
                         /\ k \in Range(blockTxo'[b]) /\ k[1] = Credits[b][i].address
                         /\ addressTxo'[k] = [out |-> Credits[b][i].out,
                                              height |-> HeightOf[b]]
    BY DEF CreditsStored
  <2>1. b \in Intact /\ b # old
    BY <1>3
  <2>2. PICK k \in DOMAIN addressTxo :
            /\ k \in Range(blockTxo[b]) /\ k[1] = Credits[b][i].address
            /\ addressTxo[k] = [out |-> Credits[b][i].out, height |-> HeightOf[b]]
    BY <2>1 DEF TxoInv, CreditsStored
  <2>3. k \notin Range(blockTxo[old])
    BY <2>1, <2>2, <1>3 DEF TxoInv, ListsDisjoint
  <2> QED
    BY <2>2, <2>3, <1>2
<1>6. NoTxoTwice'
  BY <1>2 DEF TxoInv, NoTxoTwice
<1>7. ListsDisjoint'
  BY <1>2 DEF TxoInv, ListsDisjoint
<1> QED
  BY <1>4, <1>5, <1>6, <1>7 DEF TxoInv

\* The record that the batch stores under its i-th key is of the i-th credit.
LEMMA RecordOfBatch ==
    ASSUME TypeInv, NEW b \in Blocks, NEW h, NEW i \in 1..Len(Credits[b])
    PROVE  TxoRecords(b, h)[TxoKey(b, i)] = [out |-> Credits[b][i].out, height |-> h]
<1> DEFINE k == TxoKey(b, i)
           j == CHOOSE j \in 1..Len(Credits[b]) : TxoKey(b, j) = k
<1>1. j \in 1..Len(Credits[b]) /\ TxoKey(b, j) = k
  OBVIOUS
<1>2. j = i
  BY <1>1, TxoKeyInjective
<1>3. k \in Range(TxoKeys(b))
  BY DEF TxoKeys, Range
<1>4. TxoRecords(b, h)[k] = [out |-> Credits[b][j].out, height |-> h]
  BY <1>3 DEF TxoRecords
<1> QED
  BY <1>2, <1>4

\* The batch adds the records of its block, under keys of its own.
LEMMA WriteBatchKeeps ==
    ASSUME NoRestartInReorg, TxoInv, CountInv', WriteBatch
    PROVE  TxoInv'
<1>0. PICK b : b = job.block
  OBVIOUS
<1> DEFINE n == Len(Credits[b])
<1>1. PlaceInv /\ TypeInv /\ KeysCounted
  BY DEF TxoInv, CountInv, PlaceInv
<1>2. /\ b \in Blocks
      /\ DOMAIN addressTxo' = DOMAIN addressTxo \cup Range(TxoKeys(b))
      /\ \A k \in DOMAIN addressTxo' : addressTxo'[k] =
            IF k \in Range(TxoKeys(b)) THEN TxoRecords(b, job.height)[k]
                                       ELSE addressTxo[k]
      /\ \A c \in Blocks : Range(blockTxo'[c]) =
            Range(blockTxo[c]) \cup IF c = b THEN Range(TxoKeys(b)) ELSE {}
  BY <1>0, <1>1, BatchKeys
<1>3. /\ b \notin Intact /\ Intact' = Intact \cup {b} /\ Intact \subseteq Blocks
      /\ job.height = HeightOf[b]
      /\ \A c \in Intact : HeightOf[c] # HeightOf[b]
  BY <1>0, <1>1, IntactSteps, IntactBlocks
<1>4. /\ DOMAIN Credits[b] = 1..n
      /\ \A k : k \in Range(TxoKeys(b)) <=> \E i \in 1..n : k = TxoKey(b, i)
  BY <1>2, ContentsTyped DEF TxoKeys, Range
<1>5. \A k \in Range(TxoKeys(b)) :
         k \notin DOMAIN addressTxo /\ \A c \in Blocks : k \notin Range(blockTxo[c])
  BY <1>1, <1>2, NewKeysFresh DEF Given
<1>6. \A i \in 1..n :
         /\ TxoKey(b, i)[1] = Credits[b][i].address
         /\ TxoKey(b, i) \in DOMAIN addressTxo'
         /\ addressTxo'[TxoKey(b, i)] = [out |-> Credits[b][i].out, height |-> HeightOf[b]]
  BY <1>1, <1>2, <1>3, <1>4, RecordOfBatch, TxoKeyParts
<1>7. \A k \in DOMAIN addressTxo : addressTxo'[k] = addressTxo[k]
  BY <1>2, <1>5
<1>8. \A k \in Range(TxoKeys(b)) : \E i \in 1..n :
          /\ k = TxoKey(b, i) /\ k[1] = Credits[b][i].address
          /\ addressTxo'[k] = [out |-> Credits[b][i].out, height |-> HeightOf[b]]
  <2> TAKE k \in Range(TxoKeys(b))
  <2>1. PICK i \in 1..n : k = TxoKey(b, i)
    BY <1>4
  <2> QED
    BY <2>1, <1>6
<1>9. ListsDisjoint'
  <2> SUFFICES ASSUME NEW c \in Blocks, NEW d \in Blocks, c # d,
                      NEW k, k \in Range(blockTxo'[c]), k \in Range(blockTxo'[d])
               PROVE  FALSE
    BY DEF ListsDisjoint
  <2>1. CASE k \in Range(TxoKeys(b))
    BY <2>1, <1>2, <1>5
  <2>2. CASE k \notin Range(TxoKeys(b))
    BY <2>2, <1>2 DEF TxoInv, ListsDisjoint
  <2> QED
    BY <2>1, <2>2
<1> HIDE DEF n
<1>10. RecordsListed'
  <2> SUFFICES ASSUME NEW k \in DOMAIN addressTxo'
               PROVE  \E c \in Intact' : k \in Range(blockTxo'[c]) /\ RecordOf(k, c)'
    BY DEF RecordsListed
  <2>1. CASE k \in Range(TxoKeys(b))
    <3>1. RecordOf(k, b)'
      BY <2>1, <1>4, <1>8 DEF RecordOf
    <3> QED
      BY <2>1, <3>1, <1>2, <1>3
  <2>2. CASE k \in DOMAIN addressTxo
    <3>1. PICK c \in Intact : k \in Range(blockTxo[c]) /\ RecordOf(k, c)
      BY <2>2 DEF TxoInv, RecordsListed
    <3>2. RecordOf(k, c)'
      BY <2>2, <3>1, <1>7 DEF RecordOf
    <3> QED
      BY <3>1, <3>2, <1>2, <1>3
  <2> QED
    BY <2>1, <2>2, <1>2
<1>11. CreditsStored'
  <2> SUFFICES ASSUME NEW c \in Intact', NEW i \in DOMAIN Credits[c]
               PROVE  \E k \in DOMAIN addressTxo' :
                         /\ k \in Range(blockTxo'[c]) /\ k[1] = Credits[c][i].address
                         /\ addressTxo'[k] = [out |-> Credits[c][i].out,
                                              height |-> HeightOf[c]]
    BY DEF CreditsStored
  <2>1. CASE c = b
    <3>1. i \in 1..n /\ TxoKey(b, i) \in Range(TxoKeys(b))
      BY <2>1, <1>4
    <3> QED
      BY <2>1, <3>1, <1>2, <1>6
  <2>2. CASE c \in Intact
    <3>1. PICK k \in DOMAIN addressTxo :
            /\ k \in Range(blockTxo[c]) /\ k[1] = Credits[c][i].address
            /\ addressTxo[k] = [out |-> Credits[c][i].out, height |-> HeightOf[c]]
      BY <2>2 DEF TxoInv, CreditsStored
    <3> QED
      BY <2>2, <3>1, <1>2, <1>3, <1>7
  <2> QED
    BY <2>1, <2>2, <1>3
<1>12. NoTxoTwice'
  <2>1. \A k \in DOMAIN addressTxo : addressTxo'[k].height # HeightOf[b]
    <3> TAKE k \in DOMAIN addressTxo
    <3>1. PICK c \in Intact : RecordOf(k, c)
      BY DEF TxoInv, RecordsListed
    <3>2. addressTxo[k].height = HeightOf[c]
      BY <3>1 DEF RecordOf
    <3> QED
      BY <3>2, <1>3, <1>7
  <2>2. \A k \in Range(TxoKeys(b)) : addressTxo'[k].height = HeightOf[b]
    <3> TAKE k \in Range(TxoKeys(b))
    <3>1. PICK i \in 1..n :
             addressTxo'[k] = [out |-> Credits[b][i].out, height |-> HeightOf[b]]
      BY <1>8
    <3> QED
      BY <3>1
  <2>3. ASSUME NEW k \in Range(TxoKeys(b)), NEW l \in Range(TxoKeys(b)),
               k[1] = l[1], addressTxo'[k] = addressTxo'[l]
        PROVE  k = l
    <3>1. PICK i \in 1..n :
             /\ k = TxoKey(b, i) /\ k[1] = Credits[b][i].address
             /\ addressTxo'[k] = [out |-> Credits[b][i].out, height |-> HeightOf[b]]
      BY <1>8
    <3>2. PICK j \in 1..n :
             /\ l = TxoKey(b, j) /\ l[1] = Credits[b][j].address
             /\ addressTxo'[l] = [out |-> Credits[b][j].out, height |-> HeightOf[b]]
      BY <1>8
    <3>3. /\ Credits[b][i].address = Credits[b][j].address
          /\ Credits[b][i].out = Credits[b][j].out
      BY <2>3, <3>1, <3>2
    <3>4. Credits[b][i] \in Credit /\ Credits[b][j] \in Credit
      BY <1>2, ContentsTyped DEF n
    <3>5. Credits[b][i] = Credits[b][j]
      BY <3>3, <3>4 DEF Credit
    <3>6. i = j
      BY <3>5, <1>2, <1>4, ContentsAssumption
    <3> QED
      BY <3>1, <3>2, <3>6
  <2>4. ASSUME NEW k \in DOMAIN addressTxo', NEW l \in DOMAIN addressTxo',
               k[1] = l[1], addressTxo'[k] = addressTxo'[l]
        PROVE  k = l
    <3>1. CASE k \in Range(TxoKeys(b)) /\ l \in Range(TxoKeys(b))
      BY <3>1, <2>3, <2>4
    <3>2. CASE k \in DOMAIN addressTxo /\ l \in DOMAIN addressTxo
      BY <3>2, <2>4, <1>7 DEF TxoInv, NoTxoTwice
    <3> QED
      BY <3>1, <3>2, <2>1, <2>2, <2>4, <1>2
  <2> QED
    BY <2>4 DEF NoTxoTwice
<1> QED
  BY <1>9, <1>10, <1>11, <1>12 DEF TxoInv

LEMMA StepTxos ==
    ASSUME NoRestartInReorg, TxoInv, [IndexerNext]_indexerVars
    PROVE  TxoInv'
<1>1. CountInv' /\ PlaceInv
  BY StepCounts DEF TxoInv, CountInv
<1>2. ASSUME NEW b \in Blocks, CallIndexBlock(b) PROVE TxoInv'
  <2>1. UNCHANGED <<addressTxo, blockTxo>>
    BY <1>2 DEF CallIndexBlock, IndexBlock, index
  <2> QED
    BY <1>1, <1>2, <2>1, IntactSteps, NoTxoStep
<1>3. CASE ClearBlockTxos
  BY <1>1, <1>3, ClearBlockTxosKeeps
<1>4. CASE PutHighest
  <2>1. UNCHANGED <<addressTxo, blockTxo>>
    BY <1>4 DEF PutHighest
  <2> QED
    BY <1>1, <1>4, <2>1, IntactSteps, NoTxoStep
<1>5. CASE WriteBatch
  BY <1>1, <1>5, WriteBatchKeeps
<1>6. CASE RestartIndexer
  <2>1. UNCHANGED <<addressTxo, blockTxo>>
    BY <1>6 DEF RestartIndexer, index
  <2> QED
    BY <1>1, <1>6, <2>1, IntactSteps, NoTxoStep
<1>7. CASE UNCHANGED indexerVars
  <2>1. UNCHANGED <<addressTxo, blockTxo>> /\ Intact' = Intact
    BY <1>7 DEF indexerVars, index, Intact, Replacing
  <2> QED
    BY <1>1, <2>1, NoTxoStep
<1> QED
  BY <1>2, <1>3, <1>4, <1>5, <1>6, <1>7 DEF IndexerNext, IndexBlockStep

LEMMA InitTxos == IndexerInit => TxoInv
<1> SUFFICES ASSUME IndexerInit PROVE TxoInv
  OBVIOUS
<1>1. /\ DOMAIN addressTxo = {} /\ DOMAIN blockAt = {}
      /\ \A c \in Blocks : Range(blockTxo[c]) = {}
  BY EmptyTyped DEF IndexerInit, Range
<1>2. Intact = {}
  BY <1>1 DEF Intact
<1> QED
  BY <1>1, <1>2, InitCounts
     DEF TxoInv, ListsDisjoint, RecordsListed, CreditsStored, NoTxoTwice

\* The records in the database are those of the intact blocks, no more and
\* no fewer.
LEMMA RecordsMatch ==
    ASSUME TxoInv
    PROVE  TxosMatchBlocks
<1>1. \A b \in Intact : b \in Blocks /\ DOMAIN Credits[b] = 1..Len(Credits[b])
  BY IntactBlocks, ContentsTyped DEF TxoInv, CountInv
<1>2. ASSUME NEW x \in StoredTxos PROVE \E b \in Intact : x \in TxosOf(b)
  <2>1. PICK k \in DOMAIN addressTxo :
           x = [address |-> k[1], out |-> addressTxo[k].out, height |-> addressTxo[k].height]
    BY DEF StoredTxos
  <2>2. PICK b \in Intact : RecordOf(k, b)
    BY DEF TxoInv, RecordsListed
  <2>3. PICK i \in DOMAIN Credits[b] :
           /\ k[1] = Credits[b][i].address
           /\ addressTxo[k] = [out |-> Credits[b][i].out, height |-> HeightOf[b]]
    BY <2>2 DEF RecordOf
  <2>4. x = [address |-> Credits[b][i].address, out |-> Credits[b][i].out,
             height |-> HeightOf[b]]
    BY <2>1, <2>3
  <2>5. Credits[b][i] \in Range(Credits[b])
    BY DEF Range
  <2> QED
    BY <2>4, <2>5 DEF TxosOf
<1>3. ASSUME NEW b \in Intact, NEW x \in TxosOf(b) PROVE x \in StoredTxos
  <2>1. PICK c \in Range(Credits[b]) :
           x = [address |-> c.address, out |-> c.out, height |-> HeightOf[b]]
    BY DEF TxosOf
  <2>2. PICK i \in DOMAIN Credits[b] : c = Credits[b][i]
    BY <2>1 DEF Range
  <2>3. PICK k \in DOMAIN addressTxo :
           /\ k[1] = Credits[b][i].address
           /\ addressTxo[k] = [out |-> Credits[b][i].out, height |-> HeightOf[b]]
    BY DEF TxoInv, CreditsStored
  <2>4. x = [address |-> k[1], out |-> addressTxo[k].out, height |-> addressTxo[k].height]
    BY <2>1, <2>2, <2>3
  <2> QED
    BY <2>4 DEF StoredTxos
<1> QED
  BY <1>2, <1>3 DEF TxosMatchBlocks

\* Without a restart in a reorganisation, the invariant holds throughout.
LEMMA TxosKept ==
    ASSUME NoRestartInReorg
    PROVE  IndexerSpec => []TxoInv
<1>1. TxoInv /\ [IndexerNext]_indexerVars => TxoInv'
  BY StepTxos
<1> QED
  BY <1>1, InitTxos, PTL DEF IndexerSpec

\* The address records are those of the recorded blocks: a reorganisation
\* takes away the records of every replaced block and of no other, and a block
\* that comes back gets its own back, however often.
THEOREM TxosCorrect ==
    ASSUME NoRestartInReorg
    PROVE  IndexerSpec => []TxosMatchBlocks
<1>1. TxoInv => TxosMatchBlocks
  BY RecordsMatch
<1> QED
  BY <1>1, TxosKept, PTL

\* No output is ever stored twice for an address at one height.
THEOREM NeverTwice ==
    ASSUME NoRestartInReorg
    PROVE  IndexerSpec => []NoTxoTwice
<1>1. TxoInv => NoTxoTwice
  BY DEF TxoInv
<1> QED
  BY <1>1, TxosKept, PTL

-----------------------------------------------------------------------------
(* The spends.                                                             *)

\* No output is spent at two heights, by blocks of two branches.  The key of a
\* spend does not name its block, so without this the removal for one branch
\* takes away a spend of the other (see SpendsRecorded).
SpentAtOneHeight ==
    \A b, c \in Blocks : \A i \in DOMAIN Debits[b], j \in DOMAIN Debits[c] :
        Debits[b][i].out = Debits[c][j].out => HeightOf[b] = HeightOf[c]

Spends(b, o) == \E i \in DOMAIN Debits[b] : Debits[b][i].out = o

\* The list of a block names outputs that it spends.
ListsOwnSpends ==
    \A b \in Blocks : \A o \in Range(blockTxoSpent[b]) : Spends(b, o)

\* Every spend record is of a debit of an intact block.
RecordsAreDebits ==
    \A o \in DOMAIN txoSpent : \E b \in Intact : \E i \in DOMAIN Debits[b] :
        o = Debits[b][i].out /\ txoSpent[o] = [block |-> b, tx |-> Debits[b][i].tx]

\* Every debit of an intact block is recorded as its own.
DebitsRecorded ==
    \A b \in Intact : \A i \in DOMAIN Debits[b] :
        /\ Debits[b][i].out \in DOMAIN txoSpent
        /\ txoSpent[Debits[b][i].out] = [block |-> b, tx |-> Debits[b][i].tx]

DebitInv == SpendInv /\ PlaceInv /\ ListsOwnSpends /\ RecordsAreDebits /\ DebitsRecorded

-----------------------------------------------------------------------------
(* The spends of the recorded blocks.                                      *)

\* A step that leaves the spends and the intact blocks alone.
LEMMA NoDebitStep ==
    ASSUME DebitInv, SpendInv', PlaceInv',
           UNCHANGED <<txoSpent, blockTxoSpent>>, Intact' = Intact
    PROVE  DebitInv'
BY DEF DebitInv, ListsOwnSpends, RecordsAreDebits, DebitsRecorded

\* Blocks of different heights spend different outputs.
LEMMA SpendsApart ==
    ASSUME SpentAtOneHeight, NEW b \in Blocks, NEW c \in Blocks,
           HeightOf[b] # HeightOf[c], NEW o, Spends(b, o)
    PROVE  ~Spends(c, o)
BY DEF SpentAtOneHeight, Spends

\* The removal takes the spends of one block.
LEMMA ClearBlockTxosDebits ==
    ASSUME NoRestartInReorg, SpentAtOneHeight, DebitInv, SpendInv', PlaceInv',
           ClearBlockTxos
    PROVE  DebitInv'
<1>0. PICK old : old = blockAt[job.height]
  OBVIOUS
<1>1. /\ DOMAIN txoSpent' = DOMAIN txoSpent \ Range(blockTxoSpent[old])
      /\ \A o \in DOMAIN txoSpent' : txoSpent'[o] = txoSpent[o]
      /\ UNCHANGED blockTxoSpent
  BY <1>0 DEF ClearBlockTxos, Restrict
<1>2. old \in Intact /\ Intact' = Intact \ {old}
  BY <1>0, IntactSteps DEF DebitInv
<1>3. \A b \in Intact : b \in Blocks /\ HasIndexedBlock(b, HeightOf[b])
  BY IntactBlocks DEF DebitInv
<1>4. \A b \in Intact' : HeightOf[b] # HeightOf[old]
  BY <1>2, <1>3 DEF HasIndexedBlock
<1>5. ListsOwnSpends'
  BY <1>1 DEF DebitInv, ListsOwnSpends
<1>6. RecordsAreDebits'
  <2> SUFFICES ASSUME NEW o \in DOMAIN txoSpent'
               PROVE  \E b \in Intact' : \E i \in DOMAIN Debits[b] :
                         /\ o = Debits[b][i].out
                         /\ txoSpent'[o] = [block |-> b, tx |-> Debits[b][i].tx]
    BY DEF RecordsAreDebits
  <2>1. o \in DOMAIN txoSpent /\ txoSpent'[o] = txoSpent[o]
        /\ o \notin Range(blockTxoSpent[old])
    BY <1>1
  <2>2. PICK b \in Intact : \E i \in DOMAIN Debits[b] :
           o = Debits[b][i].out /\ txoSpent[o] = [block |-> b, tx |-> Debits[b][i].tx]
    BY <2>1 DEF DebitInv, RecordsAreDebits
  <2>3. o \in Range(blockTxoSpent[b])
    <3>1. txoSpent[o].block = b
      BY <2>2
    <3> QED
      BY <2>1, <3>1 DEF DebitInv, SpendInv, SpendsListed
  <2> QED
    BY <2>1, <2>2, <2>3, <1>2
<1>7. DebitsRecorded'
  <2> SUFFICES ASSUME NEW b \in Intact', NEW i \in DOMAIN Debits[b]
               PROVE  Debits[b][i].out \notin Range(blockTxoSpent[old])
    BY <1>1, <1>2 DEF DebitInv, DebitsRecorded
  <2>1. Spends(b, Debits[b][i].out)
    BY DEF Spends
  <2>2. ~Spends(old, Debits[b][i].out)
    BY <2>1, <1>2, <1>3, <1>4, SpendsApart
  <2> QED
    BY <2>2, <1>2, <1>3 DEF DebitInv, ListsOwnSpends
<1> QED
  BY <1>5, <1>6, <1>7 DEF DebitInv

\* What the batch records of its block's debits.
LEMMA SpendRecordsOf ==
    ASSUME NEW b \in Blocks
    PROVE  /\ \A o : o \in DOMAIN SpentRecords(b) <=> Spends(b, o)
           /\ \A o : o \in Range(SpentOutpoints(b)) <=> Spends(b, o)
           /\ \A i \in DOMAIN Debits[b] :
                 SpentRecords(b)[Debits[b][i].out] = [block |-> b, tx |-> Debits[b][i].tx]
<1>1. DOMAIN Debits[b] = 1..Len(Debits[b])
  BY ContentsTyped
<1>2. \A o : o \in Range(SpentOutpoints(b)) <=> Spends(b, o)
  BY <1>1 DEF SpentOutpoints, Range, Spends
<1>3. DOMAIN SpentRecords(b) = Range(SpentOutpoints(b))
  BY DEF SpentRecords
<1>4. ASSUME NEW i \in DOMAIN Debits[b]
      PROVE  SpentRecords(b)[Debits[b][i].out] = [block |-> b, tx |-> Debits[b][i].tx]
  <2> DEFINE o == Debits[b][i].out
             j == CHOOSE j \in 1..Len(Debits[b]) : Debits[b][j].out = o
  <2>1. j \in 1..Len(Debits[b]) /\ Debits[b][j].out = o
    BY <1>1
  <2>2. j = i
    BY <2>1, <1>1, ContentsAssumption
  <2>3. o \in Range(SpentOutpoints(b))
    BY <1>2 DEF Spends
  <2>4. SpentRecords(b)[o] = [block |-> b, tx |-> Debits[b][j].tx]
    BY <2>3 DEF SpentRecords
  <2> QED
    BY <2>2, <2>4
<1> QED
  BY <1>2, <1>3, <1>4

\* The batch records the spends of its block over none of another.
LEMMA WriteBatchDebits ==
    ASSUME NoRestartInReorg, SpentAtOneHeight, DebitInv, SpendInv', PlaceInv',
           WriteBatch
    PROVE  DebitInv'
<1>0. PICK b : b = job.block
  OBVIOUS
<1>1. /\ b \in Blocks
      /\ txoSpent' = Put(txoSpent, SpentRecords(b))
      /\ blockTxoSpent' = [blockTxoSpent EXCEPT ![b] = blockTxoSpent[b] \o SpentOutpoints(b)]
  BY <1>0 DEF WriteBatch, DebitInv, SpendInv, TypeInv, TypeOK
<1>2. /\ Intact' = Intact \cup {b}
      /\ \A c \in Intact : c \in Blocks /\ HeightOf[c] # HeightOf[b]
  BY <1>0, IntactSteps, IntactBlocks DEF DebitInv
<1>3. /\ \A o : o \in DOMAIN txoSpent' <=> o \in DOMAIN txoSpent \/ Spends(b, o)
      /\ \A o \in DOMAIN txoSpent' :
            txoSpent'[o] = IF Spends(b, o) THEN SpentRecords(b)[o] ELSE txoSpent[o]
  BY <1>1, SpendRecordsOf DEF Put
<1>4. \A i \in DOMAIN Debits[b] :
         /\ Debits[b][i].out \in DOMAIN txoSpent'
         /\ txoSpent'[Debits[b][i].out] = [block |-> b, tx |-> Debits[b][i].tx]
  BY <1>1, <1>3, SpendRecordsOf DEF Spends
<1>5. ListsOwnSpends'
  <2>1. /\ blockTxoSpent \in [Blocks -> Seq(Outpoints)]
        /\ SpentOutpoints(b) \in Seq(Outpoints)
    BY <1>1, BatchTyped, 0 \in Nat DEF DebitInv, SpendInv, TypeInv, TypeOK
  <2>2. blockTxoSpent[b] \in Seq(Outpoints)
    BY <1>1, <2>1
  <2>3. Range(blockTxoSpent[b] \o SpentOutpoints(b))
           = Range(blockTxoSpent[b]) \cup Range(SpentOutpoints(b))
    BY <2>1, <2>2, ConcatRange
  <2>4. \A c \in Blocks : Range(blockTxoSpent'[c]) =
           Range(blockTxoSpent[c]) \cup IF c = b THEN Range(SpentOutpoints(b)) ELSE {}
    BY <1>1, <2>1, <2>3
  <2>5. \A o \in Range(SpentOutpoints(b)) : Spends(b, o)
    BY <1>1, SpendRecordsOf
  <2> QED
    BY <2>4, <2>5 DEF DebitInv, ListsOwnSpends
<1>6. RecordsAreDebits'
  <2> SUFFICES ASSUME NEW o \in DOMAIN txoSpent'
               PROVE  \E c \in Intact' : \E i \in DOMAIN Debits[c] :
                         /\ o = Debits[c][i].out
                         /\ txoSpent'[o] = [block |-> c, tx |-> Debits[c][i].tx]
    BY DEF RecordsAreDebits
  <2>1. CASE Spends(b, o)
    <3>1. PICK i \in DOMAIN Debits[b] : o = Debits[b][i].out
      BY <2>1 DEF Spends
    <3> QED
      BY <3>1, <1>2, <1>4
  <2>2. CASE ~Spends(b, o)
    <3>1. o \in DOMAIN txoSpent /\ txoSpent'[o] = txoSpent[o]
      BY <2>2, <1>3
    <3> QED
      BY <3>1, <1>2 DEF DebitInv, RecordsAreDebits
  <2> QED
    BY <2>1, <2>2
<1>7. DebitsRecorded'
  <2> SUFFICES ASSUME NEW c \in Intact', NEW i \in DOMAIN Debits[c]
               PROVE  /\ Debits[c][i].out \in DOMAIN txoSpent'
                      /\ txoSpent'[Debits[c][i].out] = [block |-> c, tx |-> Debits[c][i].tx]
    BY DEF DebitsRecorded
  <2>1. CASE c = b
    BY <2>1, <1>4
  <2>2. CASE c \in Intact
    <3>1. ~Spends(b, Debits[c][i].out)
      <4>1. Spends(c, Debits[c][i].out)
        BY DEF Spends
      <4> QED
        BY <4>1, <2>2, <1>1, <1>2, SpendsApart
    <3>2. /\ Debits[c][i].out \in DOMAIN txoSpent
          /\ txoSpent[Debits[c][i].out] = [block |-> c, tx |-> Debits[c][i].tx]
      BY <2>2 DEF DebitInv, DebitsRecorded
    <3> QED
      BY <3>1, <3>2, <1>3
  <2> QED
    BY <2>1, <2>2, <1>2
<1> QED
  BY <1>5, <1>6, <1>7 DEF DebitInv

LEMMA StepDebits ==
    ASSUME NoRestartInReorg, SpentAtOneHeight, DebitInv, [IndexerNext]_indexerVars
    PROVE  DebitInv'
<1>1. SpendInv' /\ PlaceInv' /\ PlaceInv
  BY StepSpends, StepPlaces DEF DebitInv
<1>2. ASSUME NEW b \in Blocks, CallIndexBlock(b) PROVE DebitInv'
  <2>1. UNCHANGED <<txoSpent, blockTxoSpent>>
    BY <1>2 DEF CallIndexBlock, IndexBlock, index
  <2> QED
    BY <1>1, <1>2, <2>1, IntactSteps, NoDebitStep
<1>3. CASE ClearBlockTxos
  BY <1>1, <1>3, ClearBlockTxosDebits
<1>4. CASE PutHighest
  <2>1. UNCHANGED <<txoSpent, blockTxoSpent>>
    BY <1>4 DEF PutHighest
  <2> QED
    BY <1>1, <1>4, <2>1, IntactSteps, NoDebitStep
<1>5. CASE WriteBatch
  BY <1>1, <1>5, WriteBatchDebits
<1>6. CASE RestartIndexer
  <2>1. UNCHANGED <<txoSpent, blockTxoSpent>>
    BY <1>6 DEF RestartIndexer, index
  <2> QED
    BY <1>1, <1>6, <2>1, IntactSteps, NoDebitStep
<1>7. CASE UNCHANGED indexerVars
  <2>1. UNCHANGED <<txoSpent, blockTxoSpent>> /\ Intact' = Intact
    BY <1>7 DEF indexerVars, index, Intact, Replacing
  <2> QED
    BY <1>1, <2>1, NoDebitStep
<1> QED
  BY <1>2, <1>3, <1>4, <1>5, <1>6, <1>7 DEF IndexerNext, IndexBlockStep

LEMMA InitDebits == IndexerInit => DebitInv /\ Intact = {}
<1> SUFFICES ASSUME IndexerInit PROVE DebitInv /\ Intact = {}
  OBVIOUS
<1>1. /\ DOMAIN blockAt = {} /\ DOMAIN txoSpent = {}
      /\ \A c \in Blocks : Range(blockTxoSpent[c]) = {}
  BY EmptyTyped DEF IndexerInit, Range
<1>2. Intact = {}
  BY <1>1 DEF Intact
<1> QED
  BY <1>1, <1>2, InitSpends, InitPlaces
     DEF DebitInv, ListsOwnSpends, RecordsAreDebits, DebitsRecorded

LEMMA DebitsKept ==
    ASSUME NoRestartInReorg, SpentAtOneHeight
    PROVE  IndexerSpec => []DebitInv
<1>1. DebitInv /\ [IndexerNext]_indexerVars => DebitInv'
  BY StepDebits
<1>2. IndexerInit => DebitInv
  BY InitDebits
<1> QED
  BY <1>1, <1>2, PTL DEF IndexerSpec

\* Every output that a recorded block spends is reported as spent, through any
\* number of reorganisations.
THEOREM SpendsKept ==
    ASSUME NoRestartInReorg, SpentAtOneHeight
    PROVE  IndexerSpec => []SpendsRecorded
<1>1. DebitInv => SpendsRecorded
  BY DEF DebitInv, DebitsRecorded, SpendsRecorded
<1> QED
  BY <1>1, DebitsKept, PTL

-----------------------------------------------------------------------------
(* The refinement.  What the ledger holds is a function of the intact      *)
(* blocks, so a step of the indexer maps to the step that adds or takes    *)
(* the block by which the intact ones differ.                              *)

BookOf(b) == {[out |-> d.out, block |-> b, tx |-> d.tx] : d \in Range(Debits[b])}

\* The ledger holds what the intact blocks give and take.
HoldsIntact == /\ StoredTxos = UNION {TxosOf(b) : b \in Intact}
               /\ StoredSpends = UNION {BookOf(b) : b \in Intact}

LEMMA LedgerOfIntact == TxoInv /\ DebitInv => HoldsIntact
<1> SUFFICES ASSUME TxoInv, DebitInv PROVE HoldsIntact
  OBVIOUS
<1>1. ASSUME NEW x \in StoredSpends PROVE \E b \in Intact : x \in BookOf(b)
  <2>1. PICK o \in DOMAIN txoSpent :
           x = [out |-> o, block |-> txoSpent[o].block, tx |-> txoSpent[o].tx]
    BY DEF StoredSpends
  <2>2. PICK b \in Intact : \E i \in DOMAIN Debits[b] :
           o = Debits[b][i].out /\ txoSpent[o] = [block |-> b, tx |-> Debits[b][i].tx]
    BY DEF DebitInv, RecordsAreDebits
  <2>3. PICK i \in DOMAIN Debits[b] :
           o = Debits[b][i].out /\ txoSpent[o] = [block |-> b, tx |-> Debits[b][i].tx]
    BY <2>2
  <2>4. x = [out |-> Debits[b][i].out, block |-> b, tx |-> Debits[b][i].tx]
    BY <2>1, <2>3
  <2>5. Debits[b][i] \in Range(Debits[b])
    BY DEF Range
  <2> QED
    BY <2>4, <2>5 DEF BookOf
<1>2. ASSUME NEW b \in Intact, NEW x \in BookOf(b) PROVE x \in StoredSpends
  <2>1. PICK i \in DOMAIN Debits[b] :
           x = [out |-> Debits[b][i].out, block |-> b, tx |-> Debits[b][i].tx]
    BY DEF BookOf, Range
  <2>2. /\ Debits[b][i].out \in DOMAIN txoSpent
        /\ txoSpent[Debits[b][i].out] = [block |-> b, tx |-> Debits[b][i].tx]
    BY DEF DebitInv, DebitsRecorded
  <2>3. x = [out |-> Debits[b][i].out, block |-> txoSpent[Debits[b][i].out].block,
             tx |-> txoSpent[Debits[b][i].out].tx]
    BY <2>1, <2>2
  <2> QED
    BY <2>2, <2>3 DEF StoredSpends
<1>3. StoredTxos = UNION {TxosOf(b) : b \in Intact}
  BY RecordsMatch DEF TxosMatchBlocks
<1>4. StoredSpends = UNION {BookOf(b) : b \in Intact}
  BY <1>1, <1>2
<1> QED
  BY <1>3, <1>4 DEF HoldsIntact

\* In every state of a step, so also in the one after it.
LEMMA LedgerBeforeAndAfter ==
    ASSUME TxoInv, DebitInv, TxoInv', DebitInv'
    PROVE  HoldsIntact /\ HoldsIntact'
BY LedgerOfIntact, PTL

\* The two actions of the ledger, in the terms of the index.
LEMMA LedgerActions ==
    ASSUME NEW b \in Blocks
    PROVE  /\ Books!Post(b) <=>
                 /\ \A c \in Intact : HeightOf[c] # HeightOf[b]
                 /\ Prev[b] \in Blocks => Prev[b] \in Intact
                 /\ \A s \in StoredSpends, t \in BookOf(b) : s.out # t.out
                 /\ Intact' = Intact \cup {b}
                 /\ StoredTxos' = StoredTxos \cup TxosOf(b)
                 /\ StoredSpends' = StoredSpends \cup BookOf(b)
           /\ Books!Withdraw(b) <=>
                 /\ b \in Intact
                 /\ Intact' = Intact \ {b}
                 /\ StoredTxos' = StoredTxos \ TxosOf(b)
                 /\ StoredSpends' = StoredSpends \ BookOf(b)
BY DEF Books!Post, Books!Withdraw, BookOf

\* The batch posts its block.
LEMMA BatchPosts ==
    ASSUME NoRestartInReorg, SpentAtOneHeight, WriteBatch,
           TxoInv, DebitInv, TxoInv', DebitInv'
    PROVE  \E b \in Blocks : Books!Post(b)
<1>0. PICK b : b = job.block
  OBVIOUS
<1>1. /\ b \in Blocks /\ HeightOf[b] \in Nat
      /\ b \notin Intact /\ Intact' = Intact \cup {b} /\ job.height = HeightOf[b]
      /\ \A c \in Intact : c \in Blocks /\ HeightOf[c] # HeightOf[b]
  BY <1>0, IntactSteps, IntactBlocks, ChainAssumption
     DEF DebitInv, WriteBatch, PlaceInv, TypeInv, TypeOK
<1>2. ASSUME Prev[b] \in Blocks PROVE Prev[b] \in Intact
  <2>1. Prev[b] # ZeroHash /\ HeightOf[b] = HeightOf[Prev[b]] + 1
        /\ HeightOf[Prev[b]] \in Nat
    BY <1>1, <1>2, ChainAssumption
  <2>2. job.step = "batch"
    BY DEF WriteBatch
  <2>3. HasIndexedBlock(Prev[b], HeightOf[b] - 1)
    BY <1>0, <1>1, <2>1, <2>2 DEF DebitInv, PlaceInv, GoesOnTop
  <2>4. HeightOf[Prev[b]] = HeightOf[b] - 1 /\ HeightOf[Prev[b]] # HeightOf[b]
    BY <2>1, <1>1
  <2>5. Replacing = {HeightOf[b]}
    BY <2>2, <1>1 DEF Replacing
  <2> QED
    BY <1>2, <2>3, <2>4, <2>5, IntactBlocks DEF DebitInv
<1>3. \A s \in StoredSpends, t \in BookOf(b) : s.out # t.out
  <2> SUFFICES ASSUME NEW s \in StoredSpends, NEW t \in BookOf(b), s.out = t.out
               PROVE  FALSE
    OBVIOUS
  <2>1. PICK c \in Intact : s \in BookOf(c)
    BY LedgerOfIntact DEF HoldsIntact
  <2>2. Spends(c, s.out) /\ Spends(b, t.out)
    BY <2>1 DEF BookOf, Range, Spends
  <2> QED
    BY <2>1, <2>2, <1>1, SpendsApart
<1>4. StoredTxos' = StoredTxos \cup TxosOf(b)
  BY <1>1, LedgerBeforeAndAfter DEF HoldsIntact
<1>5. StoredSpends' = StoredSpends \cup BookOf(b)
  BY <1>1, LedgerBeforeAndAfter DEF HoldsIntact
<1> QED
  BY <1>1, <1>2, <1>3, <1>4, <1>5, LedgerActions

\* The removal withdraws the block at the height to be written: no two intact
\* blocks give or take the same, because the records name height and block.
LEMMA RemovalWithdraws ==
    ASSUME NoRestartInReorg, ClearBlockTxos, TxoInv, DebitInv, TxoInv', DebitInv'
    PROVE  \E b \in Blocks : Books!Withdraw(b)
<1>0. PICK b : b = blockAt[job.height]
  OBVIOUS
<1>1. /\ b \in Intact /\ Intact' = Intact \ {b}
      /\ \A c \in Intact : c \in Blocks /\ HasIndexedBlock(c, HeightOf[c])
  BY <1>0, IntactSteps, IntactBlocks DEF DebitInv
<1>2. \A c \in Intact : c # b => HeightOf[c] # HeightOf[b]
  BY <1>1 DEF HasIndexedBlock
<1>3. \A c : \A x \in TxosOf(c) : x.height = HeightOf[c]
  BY DEF TxosOf
<1>4. \A c : \A x \in BookOf(c) : x.block = c
  BY DEF BookOf
<1>5. StoredTxos' = StoredTxos \ TxosOf(b)
  BY <1>1, <1>2, <1>3, LedgerBeforeAndAfter DEF HoldsIntact
<1>6. StoredSpends' = StoredSpends \ BookOf(b)
  BY <1>1, <1>4, LedgerBeforeAndAfter DEF HoldsIntact
<1> QED
  BY <1>1, <1>5, <1>6, LedgerActions

\* What the index starts with is an empty ledger.
LEMMA StartsEmpty == IndexerInit => Books!LedgerInit
<1> SUFFICES ASSUME IndexerInit PROVE Books!LedgerInit
  OBVIOUS
<1>1. DOMAIN addressTxo = {} /\ DOMAIN txoSpent = {}
  BY EmptyTyped DEF IndexerInit
<1> QED
  BY <1>1, InitDebits DEF Books!LedgerInit, StoredTxos, StoredSpends

\* The other steps change nothing that the ledger shows.
LEMMA LedgerStutters ==
    ASSUME TxoInv, DebitInv, TxoInv', DebitInv', Intact' = Intact
    PROVE  UNCHANGED <<Intact, StoredTxos, StoredSpends>>
BY LedgerBeforeAndAfter DEF HoldsIntact

\* Every step of the indexer posts one whole block, withdraws one whole block,
\* or shows nothing.
LEMMA StepsOfLedger ==
    ASSUME NoRestartInReorg, SpentAtOneHeight, [IndexerNext]_indexerVars,
           TxoInv, DebitInv, TxoInv', DebitInv'
    PROVE  [Books!LedgerNext]_<<Intact, StoredTxos, StoredSpends>>
<1>1. CASE ClearBlockTxos
  BY <1>1, RemovalWithdraws DEF Books!LedgerNext
<1>2. CASE WriteBatch
  BY <1>2, BatchPosts DEF Books!LedgerNext
<1>3. CASE ~ClearBlockTxos /\ ~WriteBatch
  <2>1. CASE UNCHANGED indexerVars
    BY <2>1, LedgerStutters DEF indexerVars, index, Intact, Replacing
  <2>2. CASE ~UNCHANGED indexerVars
    <3>1. Intact' = Intact
      BY <1>3, <2>2, IntactSteps DEF IndexerNext, IndexBlockStep, DebitInv
    <3> QED
      BY <3>1, LedgerStutters
  <2> QED
    BY <2>1, <2>2
<1> QED
  BY <1>1, <1>2, <1>3

\* The indexer implements the ledger.
THEOREM Implements ==
    ASSUME NoRestartInReorg, SpentAtOneHeight
    PROVE  IndexerSpec => KeepsLedger
<1>1. TxoInv /\ DebitInv /\ TxoInv' /\ DebitInv' /\ [IndexerNext]_indexerVars
         => [Books!LedgerNext]_<<Intact, StoredTxos, StoredSpends>>
  BY StepsOfLedger
<1> QED
  BY <1>1, TxosKept, DebitsKept, StartsEmpty, PTL
     DEF IndexerSpec, KeepsLedger, Books!LedgerSpec, Books!ledgerVars
=============================================================================
