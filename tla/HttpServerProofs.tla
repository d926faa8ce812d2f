-------------------------- MODULE HttpServerProofs --------------------------
(***************************************************************************)
(* Theorems about the answers of HttpServer.                               *)
(***************************************************************************)
EXTENDS HttpServer, BlockIndexerProofs, CommonLemmas

-----------------------------------------------------------------------------
(* Enumerations.                                                           *)

\* A function onto S, from as many numbers as S has elements, that takes no
\* value twice.
Enumerates(f, S) ==
    /\ Cardinality(S) \in Nat
    /\ f \in [1..Cardinality(S) -> S] /\ f \in Seq(S) /\ Len(f) = Cardinality(S)
    /\ \A i, j \in 1..Cardinality(S) : f[i] = f[j] => i = j
    /\ \A x \in S : \E i \in 1..Cardinality(S) : f[i] = x

LEMMA SetToSeqEnumerates ==
    ASSUME NEW S, IsFiniteSet(S)
    PROVE  Enumerates(SetToSeq(S), S)
<1> DEFINE n == Cardinality(S)
<1>1. n \in Nat /\ Bijection(1..n, S) # {}
  BY FS_CardinalityType DEF ExistsBijection
<1>2. \E f \in [1..n -> S] : IsInjective(f)
  BY <1>1 DEF Bijection, Injection, IsInjective
<1>3. SetToSeq(S) \in [1..n -> S] /\ IsInjective(SetToSeq(S))
  BY <1>2 DEF SetToSeq
<1>4. SetToSeq(S) \in Injection(1..n, S)
  BY <1>3 DEF Injection, IsInjective
<1>5. Cardinality(1..n) = n
  BY <1>1, FS_Interval
<1>6. SetToSeq(S) \in Surjection(1..n, S)
  BY <1>4, <1>5, FS_Injection
<1>7. SetToSeq(S) \in Seq(S) /\ Len(SetToSeq(S)) = n
  BY <1>1, <1>3
<1> QED
  BY <1>1, <1>3, <1>6, <1>7 DEF Enumerates, IsInjective, Surjection

LEMMA AscendingEnumerates ==
    ASSUME NEW S \in SUBSET Nat, IsFiniteSet(S)
    PROVE  Enumerates(Ascending(S), S)
<1> DEFINE n == Cardinality(S)
           Below(x) == {m \in S : m < x}
           rank == [x \in S |-> Cardinality(Below(x)) + 1]
<1>1. n \in Nat
  BY FS_CardinalityType
<1>2. ASSUME NEW x \in S
      PROVE  /\ IsFiniteSet(Below(x)) /\ Cardinality(Below(x)) \in Nat
             /\ Cardinality(Below(x)) < n
  <2>1. Below(x) \in SUBSET S /\ x \notin Below(x)
    OBVIOUS
  <2>2. Below(x) # S
    BY <2>1
  <2> HIDE DEF Below
  <2>3. IsFiniteSet(Below(x)) /\ Cardinality(Below(x)) <= n /\ Cardinality(Below(x)) # n
    BY <2>1, <2>2, FS_Subset
  <2>4. Cardinality(Below(x)) \in Nat
    BY <2>3, FS_CardinalityType
  <2> QED
    BY <1>1, <2>3, <2>4
<1>3. ASSUME NEW x \in S, NEW y \in S, x < y
      PROVE  Cardinality(Below(x)) < Cardinality(Below(y))
  <2>0. x \in Nat /\ y \in Nat /\ \A m \in S : m \in Nat
    OBVIOUS
  <2>1. Below(x) \in SUBSET Below(y) /\ x \in Below(y) /\ x \notin Below(x)
    <3>1. \A m \in S : m < x => m < y
      BY <1>3, <2>0
    <3>2. ~(x < x)
      BY <2>0
    <3> QED
      BY <1>3, <3>1, <3>2
  <2> HIDE DEF Below
  <2>2. Below(x) # Below(y)
    BY <2>1
  <2>3. /\ Cardinality(Below(x)) <= Cardinality(Below(y))
        /\ Cardinality(Below(x)) # Cardinality(Below(y))
    BY <1>2, <2>1, <2>2, FS_Subset
  <2> QED
    BY <1>2, <2>3
<1>4. rank \in Injection(S, 1..n)
  <2>1. rank \in [S -> 1..n]
    <3> HIDE DEF Below
    <3> QED
      BY <1>1, <1>2
  <2>2. \A x, y \in S : rank[x] = rank[y] => x = y
    <3> HIDE DEF Below
    <3> QED
      BY <1>2, <1>3
  <2> HIDE DEF rank
  <2> QED
    BY <2>1, <2>2 DEF Injection, IsInjective
<1>5. rank \in Surjection(S, 1..n)
  <2>1. IsFiniteSet(1..n) /\ Cardinality(1..n) = n
    BY <1>1, FS_Interval
  <2> HIDE DEF rank
  <2> QED
    BY <1>4, <2>1, FS_Injection
<1>6. \A i \in 1..n : \E x \in S : Cardinality(Below(x)) = i - 1
  <2> HIDE DEF Below
  <2>1. \A i \in 1..n : \E x \in S : rank[x] = i
    BY <1>5 DEF Surjection
  <2> QED
    BY <1>2, <2>1
<1> DEFINE f == Ascending(S)
<1>7. f = [i \in 1..n |-> CHOOSE x \in S : Cardinality(Below(x)) = i - 1]
  BY DEF Ascending
<1> HIDE DEF Below, rank, f
<1>8. \A i \in 1..n : f[i] \in S /\ Cardinality(Below(f[i])) = i - 1
  BY <1>6, <1>7
<1>9. f \in [1..n -> S]
  BY <1>7, <1>8
<1>10. f \in Seq(S) /\ Len(f) = n
  BY <1>1, <1>9
<1>11. \A i, j \in 1..n : f[i] = f[j] => i = j
  BY <1>1, <1>8
<1>12. \A x \in S : \E i \in 1..n : f[i] = x
  <2> SUFFICES ASSUME NEW x \in S PROVE \E i \in 1..n : f[i] = x
    OBVIOUS
  <2>1. PICK i \in 1..n : i = Cardinality(Below(x)) + 1
    BY <1>1, <1>2
  <2>2. f[i] \in S /\ Cardinality(Below(f[i])) = Cardinality(Below(x))
    BY <1>2, <1>8, <2>1
  <2>3. PICK y \in S : y = f[i]
    BY <2>2
  <2>4. Cardinality(Below(y)) = Cardinality(Below(x)) /\ Cardinality(Below(x)) \in Nat
    BY <1>2, <2>2, <2>3
  <2>5. ~(y < x) /\ ~(x < y)
    BY <1>3, <2>4
  <2>6. y \in Nat /\ x \in Nat
    OBVIOUS
  <2> QED
    BY <2>3, <2>5, <2>6
<1> QED
  BY <1>1, <1>9, <1>10, <1>11, <1>12 DEF Enumerates, f

-----------------------------------------------------------------------------
(* The index under the server.                                             *)

\* A read of a handler changes nothing but the handler's locals.
LEMMA HandlerAside ==
    ASSUME Handler
    PROVE  Aside
BY DEF Handler,
       ReadHighest, ReadTxBlock, ReadHeight, ReadPosition, EndPositions, CountBlocks, ReadIds,
       ReadTxBlockOfOutput, ReadSpent, ReadSpentHeight, ReadMempool, EndOutpoints,
       ReadPage, ReadPart, ReadPartSpent, EndParts,
       TakeSnapshot, LookUpSpend, LookUpSpendOfTxo, ReadTxoTime, LookUpSpender,
       ReadPending, LookUpPending, EndOutputs,
       ListBlocks, ListByDate, ReadListedHeight, ReadInfo, EndList

\* Whoever writes the index goes through the steps of BlockIndexer, but for a
\* restart.
LEMMA ServerSteps ==
    ASSUME [Next]_serverVars
    PROVE  [IndexerNext]_indexerVars
BY HandlerAside
   DEF Next, Close, Begin, Aside, Index, Clear, BuildBatch, Batch,
       transactionIndexed, MonitorInserts, serverVars, IndexerNext, IndexBlockStep

LEMMA ServerRunsIndexer == Spec => IndexerSpec
<1>1. Init => IndexerInit
  BY DEF Init
<1>2. [Next]_serverVars => [IndexerNext]_indexerVars
  BY ServerSteps
<1> QED
  BY <1>1, <1>2, PTL DEF Spec, IndexerSpec

\* The blocks that have ever been recorded.
Known == DOMAIN hashHeight

KnownBlocks ==
    /\ \A b \in Known : hashHeight[b] = HeightOf[b] /\ HeightOf[b] \in DOMAIN blockAt
    /\ Range(blockAt) \subseteq Known /\ Range(timeHash) \subseteq Known
    /\ IsFiniteSet(DOMAIN timeHash)
    /\ Grounded(Known)

KnownContents ==
    /\ \A b \in Known : TxsOf[b] \subseteq DOMAIN txBlock
    /\ \A t \in DOMAIN txBlock : txBlock[t] \in Known /\ t \in TxsOf[txBlock[t]]
    /\ \A c \in Credit : txoAddress[c] > 0 <=> \E b \in Known : c \in Range(Credits[b])

\* A spend is recorded as its block has it.
SpendsTrue ==
    \A o \in DOMAIN txoSpent :
        \E d \in Range(Debits[txoSpent[o].block]) : d.out = o /\ d.tx = txoSpent[o].tx

Facts == KnownBlocks /\ KnownContents /\ SpendsTrue

LEMMA InitFacts == IndexerInit => Facts
<1> SUFFICES ASSUME IndexerInit PROVE Facts
  OBVIOUS
<1>1. /\ DOMAIN hashHeight = {} /\ DOMAIN blockAt = {} /\ DOMAIN timeHash = {}
      /\ DOMAIN txBlock = {} /\ DOMAIN txoSpent = {}
  BY EmptyTyped DEF IndexerInit
<1>2. \A c \in Credit : txoAddress[c] = 0
  BY DEF IndexerInit
<1> QED
  BY <1>1, <1>2, FS_EmptySet
     DEF Facts, KnownBlocks, KnownContents, SpendsTrue, Known, Grounded, Range

\* What a batch adds to the tables.
LEMMA BatchTables ==
    ASSUME TypeInv, WriteBatch, NEW b, b = job.block
    PROVE  /\ b \in Blocks
           /\ DOMAIN hashHeight' = DOMAIN hashHeight \cup {b}
           /\ \A c \in DOMAIN hashHeight' :
                 hashHeight'[c] = IF c = b THEN job.height ELSE hashHeight[c]
           /\ Range(timeHash') \subseteq Range(timeHash) \cup {b}
           /\ DOMAIN timeHash' = DOMAIN timeHash \cup {TimeOf[b]}
           /\ DOMAIN txBlock' = DOMAIN txBlock \cup TxsOf[b]
           /\ \A t \in DOMAIN txBlock' :
                 txBlock'[t] = IF t \in TxsOf[b] THEN b ELSE txBlock[t]
           /\ DOMAIN txoSpent' = DOMAIN txoSpent \cup DOMAIN SpentRecords(b)
           /\ \A o \in DOMAIN txoSpent' :
                 txoSpent'[o] = IF o \in DOMAIN SpentRecords(b) THEN SpentRecords(b)[o]
                                                                ELSE txoSpent[o]
           /\ \A c \in Credit : txoAddress'[c] =
                 txoAddress[c] + IF c \in Range(Credits[b]) THEN 1 ELSE 0
<1>1. b \in Blocks /\ TimeOf[b] \in Nat
  BY ChainAssumption DEF TypeInv, TypeOK, WriteBatch
<1>2. /\ hashHeight' = Put(hashHeight, Entry(b, job.height))
      /\ timeHash' = Put(timeHash, Entry(TimeOf[b], b))
      /\ txBlock' = Put(txBlock, [t \in TxsOf[b] |-> b])
      /\ txoSpent' = Put(txoSpent, SpentRecords(b))
      /\ txoAddress' = [c \in Credit |->
             txoAddress[c] + IF c \in Range(Credits[b]) THEN 1 ELSE 0]
  BY DEF WriteBatch
<1>3. /\ DOMAIN Entry(b, job.height) = {b} /\ Entry(b, job.height)[b] = job.height
      /\ DOMAIN Entry(TimeOf[b], b) = {TimeOf[b]} /\ Entry(TimeOf[b], b)[TimeOf[b]] = b
  BY DEF Entry
<1>4. Range(timeHash') \subseteq Range(timeHash) \cup {b}
  BY <1>2, <1>3 DEF Put, Range
<1> QED
  BY <1>1, <1>2, <1>3, <1>4 DEF Put

\* The record of a spend in a batch is of a debit of its block.
LEMMA SpentRecordTrue ==
    ASSUME NEW b \in Blocks, NEW o \in DOMAIN SpentRecords(b)
    PROVE  \E d \in Range(Debits[b]) :
              /\ d.out = o
              /\ SpentRecords(b)[o] = [block |-> b, tx |-> d.tx]
<1>1. DOMAIN Debits[b] = 1..Len(Debits[b])
  BY ContentsTyped
<1>2. \E i \in 1..Len(Debits[b]) : Debits[b][i].out = o
  BY DEF SpentRecords, SpentOutpoints, Range
<1> DEFINE i == CHOOSE i \in 1..Len(Debits[b]) : Debits[b][i].out = o
<1>3. i \in 1..Len(Debits[b]) /\ Debits[b][i].out = o
  BY <1>2
<1>4. SpentRecords(b)[o] = [block |-> b, tx |-> Debits[b][i].tx]
  BY DEF SpentRecords
<1> HIDE DEF i
<1> QED
  BY <1>1, <1>3, <1>4 DEF Range

LEMMA StepFacts ==
    ASSUME PlaceInv, PlaceInv', Facts, [IndexerNext]_indexerVars
    PROVE  Facts'
<1>1. CASE WriteBatch
  <2> DEFINE b == job.block
  <2>1. /\ b \in Blocks /\ job.height \in Nat
        /\ DOMAIN blockAt' = DOMAIN blockAt \cup {job.height}
        /\ \A h \in DOMAIN blockAt' :
              blockAt'[h] = IF h = job.height THEN b ELSE blockAt[h]
    BY <1>1, BatchPlaces DEF PlaceInv
  <2>2. /\ Known' = Known \cup {b}
        /\ \A c \in Known' : hashHeight'[c] = IF c = b THEN job.height ELSE hashHeight[c]
        /\ Range(timeHash') \subseteq Range(timeHash) \cup {b}
        /\ DOMAIN timeHash' = DOMAIN timeHash \cup {TimeOf[b]}
        /\ DOMAIN txBlock' = DOMAIN txBlock \cup TxsOf[b]
        /\ \A t \in DOMAIN txBlock' : txBlock'[t] = IF t \in TxsOf[b] THEN b ELSE txBlock[t]
        /\ DOMAIN txoSpent' = DOMAIN txoSpent \cup DOMAIN SpentRecords(b)
        /\ \A o \in DOMAIN txoSpent' :
              txoSpent'[o] = IF o \in DOMAIN SpentRecords(b) THEN SpentRecords(b)[o]
                                                             ELSE txoSpent[o]
        /\ \A c \in Credit : txoAddress'[c] =
              txoAddress[c] + IF c \in Range(Credits[b]) THEN 1 ELSE 0
    BY <1>1, BatchTables DEF Known, PlaceInv
  <2>3. job.height = HeightOf[b]
    BY <1>1 DEF WriteBatch, PlaceInv, AtOwnHeight
  <2>4. Prev[b] \in Known \cup {ZeroHash}
    BY <1>1 DEF WriteBatch, PlaceInv, GoesOnTop, HasIndexedBlock, Facts, KnownBlocks, Range
  <2>5. KnownBlocks'
    <3> HIDE DEF b
    <3>1. \A c \in Known' : hashHeight'[c] = HeightOf[c] /\ HeightOf[c] \in DOMAIN blockAt'
      BY <2>1, <2>2, <2>3 DEF Facts, KnownBlocks
    <3>2. Range(blockAt') \subseteq Known' /\ Range(timeHash') \subseteq Known'
      <4>1. Range(blockAt') \subseteq Range(blockAt) \cup {b}
        BY <2>1 DEF Range
      <4>2. Known' = Known \cup {b} /\ Range(timeHash') \subseteq Range(timeHash) \cup {b}
        BY <2>2
      <4> QED
        BY <4>1, <4>2, Zenon DEF Facts, KnownBlocks
    <3>3. Grounded(Known')
      BY <2>2, <2>4 DEF Facts, KnownBlocks, Grounded
    <3>4. IsFiniteSet(DOMAIN timeHash')
      BY <2>2, FS_AddElement DEF Facts, KnownBlocks
    <3> QED
      BY <3>1, <3>2, <3>3, <3>4 DEF KnownBlocks
  <2>6. KnownContents'
    <3> HIDE DEF b
    <3>1. \A c \in Credit : txoAddress[c] \in Nat
      BY DEF PlaceInv, TypeInv, TypeOK
    <3>2. \A c \in Credit : txoAddress'[c] > 0 <=> \E d \in Known' : c \in Range(Credits[d])
      BY <2>2, <3>1 DEF Facts, KnownContents
    <3>3. \A c \in Known' : TxsOf[c] \subseteq DOMAIN txBlock'
      BY <2>2 DEF Facts, KnownContents
    <3>4. \A t \in DOMAIN txBlock' : txBlock'[t] \in Known' /\ t \in TxsOf[txBlock'[t]]
      BY <2>2 DEF Facts, KnownContents
    <3> QED
      BY <3>2, <3>3, <3>4 DEF KnownContents
  <2>7. SpendsTrue'
    <3> HIDE DEF b
    <3> SUFFICES ASSUME NEW o \in DOMAIN txoSpent'
                 PROVE  \E d \in Range(Debits[txoSpent'[o].block]) :
                           d.out = o /\ d.tx = txoSpent'[o].tx
      BY DEF SpendsTrue
    <3>1. CASE o \in DOMAIN SpentRecords(b)
      BY <3>1, <2>1, <2>2, SpentRecordTrue
    <3>2. CASE o \notin DOMAIN SpentRecords(b)
      BY <3>2, <2>2 DEF Facts, SpendsTrue
    <3> QED
      BY <3>1, <3>2
  <2> QED
    BY <2>5, <2>6, <2>7 DEF Facts
<1>2. CASE ClearBlockTxos
  <2>1. /\ UNCHANGED <<hashHeight, blockAt, timeHash, txBlock, txoAddress>>
        /\ DOMAIN txoSpent' \subseteq DOMAIN txoSpent
        /\ \A o \in DOMAIN txoSpent' : txoSpent'[o] = txoSpent[o]
    BY <1>2 DEF ClearBlockTxos, Restrict
  <2> QED
    BY <2>1 DEF Facts, KnownBlocks, KnownContents, SpendsTrue, Known
<1>3. ASSUME UNCHANGED <<hashHeight, blockAt, timeHash, txBlock, txoAddress, txoSpent>>
      PROVE  Facts'
  BY <1>3 DEF Facts, KnownBlocks, KnownContents, SpendsTrue, Known
<1>4. ASSUME NEW b \in Blocks, CallIndexBlock(b) PROVE Facts'
  BY <1>3, <1>4 DEF CallIndexBlock, IndexBlock, index
<1>5. CASE PutHighest \/ RestartIndexer \/ UNCHANGED indexerVars
  BY <1>3, <1>5 DEF PutHighest, RestartIndexer, indexerVars, index
<1> QED
  BY <1>1, <1>2, <1>4, <1>5 DEF IndexerNext, IndexBlockStep

\* All that is known of the index.
Base == /\ PlaceInv /\ NoGap /\ SpendInv /\ TxoInv /\ Facts
        /\ restarts = 0

LEMMA BaseAlways == Spec => []Base
<1>1. NoRestartInReorg
  BY ServerAssumption DEF NoRestartInReorg
<1>2. IndexerSpec => []PlaceInv /\ []NoGap
  BY Placed, Gapless
<1>3. IndexerSpec => []TxoInv
  BY <1>1, TxosKept
<1>4. IndexerSpec => []SpendInv
  <2>1. SpendInv /\ [IndexerNext]_indexerVars => SpendInv'
    BY StepSpends
  <2> QED
    BY <2>1, InitSpends, PTL DEF IndexerSpec
<1>5. IndexerSpec => []Facts
  <2>1. PlaceInv /\ PlaceInv' /\ Facts /\ [IndexerNext]_indexerVars => Facts'
    BY StepFacts
  <2> QED
    BY <2>1, Placed, InitFacts, PTL DEF IndexerSpec
<1>6. PlaceInv => restarts = 0
  BY ServerAssumption DEF PlaceInv, TypeInv, TypeOK
<1> QED
  BY <1>2, <1>3, <1>4, <1>5, <1>6, ServerRunsIndexer, PTL DEF Base

-----------------------------------------------------------------------------
(* The types, and which reads belong to which request.                     *)

OpsAt(s) ==
    CASE s = "idle" -> {"none"}
      [] s = "highest" -> {"getBlock", "getBlockTransactions", "getBlocks", "sync"}
      [] s = "count" -> {"sync"}
      [] s = "ids" -> {"mempoolTransactionIds"}
      [] s = "txBlock" -> {"getTransactionProof", "outpointSpend", "outpointSpends"}
      [] s \in {"height", "position"} ->
            {"getBlock", "getBlockTransactions", "getTransactionProof"}
      [] s = "part" -> {"getBlockTransactions"}
      [] s \in {"spent", "spentHeight", "mempool"} -> {"outpointSpend", "outpointSpends"}
      [] s \in {"snapshot", "txo", "spender", "pending"} -> {"addressBalance", "addressTxos"}
      [] s = "time" -> {"addressTxos"}
      [] s = "list" -> {"getBlocks"}
      [] s \in {"range", "listed"} -> {"getBlocksByDate"}
      [] s = "info" -> {"getBlocks", "getBlocksByDate"}
      [] s = "done" -> Operations
      [] OTHER -> {}

RequestOK ==
    /\ op \in OpsAt(step)
    /\ op # "none" => arg \in Arguments(op)
    /\ (status = "") <=> (step # "done")
    /\ torn \in BOOLEAN
    /\ op = "none" => todo = <<>> /\ items = <<>> /\ unconfirmed = <<>>

ReadOK == tip \in Nat \cup {-1} /\ hash \in Blocks \cup {NoBlock} /\ height \in Nat

\* Requests are answered read by read.
LEMMA HandlerRequest ==
    ASSUME RequestOK, Handler
    PROVE  RequestOK' /\ op # "none"
<1>1. /\ UNCHANGED <<op, arg, torn>>
  BY HandlerAside DEF Aside, request, history
<1>2. CASE ReadHighest \/ ReadTxBlock \/ ReadHeight \/ ReadPosition \/ EndPositions
  BY <1>1, <1>2
     DEF RequestOK, OpsAt, Operations, GoTo, Finish, AsksBlock, AsksSpends, locals,
         ReadHighest, ReadTxBlock, ReadHeight, ReadPosition, EndPositions
<1>3. CASE CountBlocks \/ ReadIds \/ ReadPage \/ ReadPart \/ ReadPartSpent \/ EndParts
  BY <1>1, <1>3
     DEF RequestOK, OpsAt, Operations, GoTo, Finish, AsksBlock, AsksSpends, locals,
         CountBlocks, ReadIds, ReadPage, ReadPart, ReadPartSpent, EndParts
<1>4. CASE ReadTxBlockOfOutput \/ ReadSpent \/ ReadSpentHeight \/ ReadMempool \/ EndOutpoints
  BY <1>1, <1>4
     DEF RequestOK, OpsAt, Operations, GoTo, Finish, AsksBlock, AsksSpends, NextOutpoint, locals,
         ReadTxBlockOfOutput, ReadSpent, ReadSpentHeight, ReadMempool, EndOutpoints
<1>5. CASE TakeSnapshot \/ LookUpSpend \/ LookUpSpendOfTxo \/ ReadTxoTime \/ LookUpSpender
  BY <1>1, <1>5
     DEF RequestOK, OpsAt, Operations, GoTo, Finish, AsksBlock, AsksSpends, ListTxo,
         TakeSnapshot, LookUpSpend, LookUpSpendOfTxo, ReadTxoTime, LookUpSpender
<1>6. CASE ReadPending \/ LookUpPending \/ EndOutputs
  BY <1>1, <1>6
     DEF RequestOK, OpsAt, Operations, GoTo, Finish, AsksBlock, AsksSpends, locals,
         ReadPending, LookUpPending, EndOutputs
<1>7. CASE ListBlocks \/ ListByDate \/ ReadListedHeight \/ ReadInfo \/ EndList
  BY <1>1, <1>7
     DEF RequestOK, OpsAt, Operations, GoTo, Finish, AsksBlock, AsksSpends, locals,
         ListBlocks, ListByDate, ReadListedHeight, ReadInfo, EndList
<1> QED
  BY <1>2, <1>3, <1>4, <1>5, <1>6, <1>7 DEF Handler

\* What is read is of its kind.
LEMMA HandlerReads ==
    ASSUME TypeOK, RequestOK, ReadOK, Handler
    PROVE  ReadOK'
<1>1. /\ highest \in Nat \cup {-1}
      /\ IsTable(txBlock, Txs, Blocks) /\ IsTable(hashHeight, Blocks, Nat)
      /\ IsTable(txoSpent, Outpoints, [block : Blocks, tx : Txs])
  BY DEF TypeOK
<1>2. CASE ReadHighest
  <2>1. op = "getBlock" => arg \in Blocks
    BY DEF RequestOK, Arguments
  <2>2. op = "getBlockTransactions" => arg.block \in Blocks
    BY ServerAssumption DEF RequestOK, Arguments
  <2> QED
    BY <1>1, <1>2, <2>1, <2>2 DEF ReadOK, ReadHighest
<1>3. CASE ReadTxBlock
  BY <1>1, <1>3 DEF ReadOK, ReadTxBlock, IsTable, Range
<1>4. CASE ReadHeight
  BY <1>1, <1>4 DEF ReadOK, ReadHeight, IsTable, Range
<1>5. CASE ReadTxBlockOfOutput
  BY <1>1, <1>5 DEF ReadOK, ReadTxBlockOfOutput, IsTable, Range
<1>6. CASE ReadSpent
  BY <1>1, <1>6 DEF ReadOK, ReadSpent, IsTable, Range
<1>7. CASE UNCHANGED <<tip, hash, height>>
  BY <1>7 DEF ReadOK
<1> QED
  BY <1>2, <1>3, <1>4, <1>5, <1>6, <1>7
     DEF Handler, locals, ReadPosition, EndPositions, CountBlocks, ReadIds,
         ReadSpentHeight, ReadMempool, EndOutpoints, ReadPage, ReadPart, ReadPartSpent,
         EndParts, TakeSnapshot, LookUpSpend, LookUpSpendOfTxo, ReadTxoTime, LookUpSpender,
         ReadPending, LookUpPending, EndOutputs, ListBlocks, ListByDate, ReadListedHeight,
         ReadInfo, EndList

\* A step that is no part of a request: of the indexer or of the monitor.
Writes == \/ \E b \in Blocks : Index(b)
          \/ Clear \/ BuildBatch \/ Batch
          \/ \E t \in Txs : transactionIndexed(t) \/ MonitorInserts(t)

\* A write leaves the request alone, but for the trace of a reorganisation.
LEMMA WritesAside ==
    ASSUME Writes
    PROVE  /\ UNCHANGED handler
           /\ torn' = torn \/ (torn' = (op # "none") /\ ClearBlockTxos)
BY DEF Writes, Index, Clear, BuildBatch, Batch, transactionIndexed, MonitorInserts

LEMMA StepRequest ==
    ASSUME RequestOK, [Next]_serverVars
    PROVE  RequestOK'
<1>1. CASE Close
  BY <1>1 DEF Close, RequestOK, OpsAt
<1>2. ASSUME NEW o \in Operations, NEW x \in Arguments(o), Begin(o, x), step # "done"
      PROVE  RequestOK'
  BY <1>2 DEF Begin, RequestOK, OpsAt, FirstRead, Operations
<1>3. CASE Handler
  BY <1>3, HandlerRequest
<1>4. CASE Writes
  BY <1>4, WritesAside DEF RequestOK, handler, request, locals
<1>5. CASE UNCHANGED serverVars
  BY <1>5 DEF RequestOK, serverVars, handler, request, locals
<1> QED
  BY <1>1, <1>2, <1>3, <1>4, <1>5 DEF Next, Writes

LEMMA StepReads ==
    ASSUME TypeOK, RequestOK, ReadOK, [Next]_serverVars
    PROVE  ReadOK'
<1>1. CASE Close
  BY <1>1 DEF Close, ReadOK
<1>2. ASSUME NEW o, NEW x, Begin(o, x)
      PROVE  ReadOK'
  BY <1>2 DEF Begin, ReadOK
<1>3. CASE Handler
  BY <1>3, HandlerReads
<1>4. CASE Writes
  BY <1>4, WritesAside DEF ReadOK, handler, locals
<1>5. CASE UNCHANGED serverVars
  BY <1>5 DEF ReadOK, serverVars, handler, locals
<1> QED
  BY <1>1, <1>2, <1>3, <1>4, <1>5 DEF Next, Writes

-----------------------------------------------------------------------------
(* The mempool: what is in it is not recorded.                             *)

MempoolOK ==
    /\ mempool \subseteq Txs /\ IsFiniteSet(mempool)
    /\ toNotify \subseteq Txs /\ (toNotify # {} => job.step = "batch")
    /\ \A t \in mempool : Unrecorded(t)
    /\ job.step = "batch" => /\ mempool \cap TxsOf[job.block] \subseteq toNotify
                             /\ toNotify \subseteq TxsOf[job.block]

LEMMA StepMempool ==
    ASSUME PlaceInv, MempoolOK, [Next]_serverVars
    PROVE  MempoolOK'
<1>1. TypeInv /\ TypeOK
  BY DEF PlaceInv, TypeInv
<1>2. ASSUME UNCHANGED <<indexerVars, mempool, toNotify>>
      PROVE  MempoolOK'
  BY <1>2 DEF MempoolOK, Unrecorded, indexerVars, index
<1>3. ASSUME NEW b \in Blocks, Index(b) PROVE MempoolOK'
  <2>1. UNCHANGED <<blockAt, mempool, toNotify>> /\ job.step = "idle" /\ job'.step # "batch"
    BY <1>3 DEF Index, CallIndexBlock, IndexBlock, index, Idle
  <2> QED
    BY <2>1 DEF MempoolOK, Unrecorded
<1>4. CASE Clear
  <2>1. UNCHANGED <<blockAt, mempool, toNotify>> /\ job.step = "clear" /\ job'.step = "highest"
    BY <1>1, <1>4 DEF Clear, ClearBlockTxos, TypeOK
  <2> QED
    BY <2>1 DEF MempoolOK, Unrecorded
<1>5. CASE BuildBatch
  <2>1. /\ UNCHANGED <<blockAt, mempool>> /\ toNotify' = TxsOf[job.block]
        /\ job'.step = "batch" /\ job'.block = job.block /\ job.block \in Blocks
    BY <1>1, <1>5 DEF BuildBatch, PutHighest, TypeOK
  <2> QED
    BY <2>1, ContentsAssumption DEF MempoolOK, Unrecorded
<1>6. CASE Batch
  <2>1. UNCHANGED <<mempool, toNotify>> /\ toNotify = {} /\ job.step = "batch"
        /\ job'.step = "idle" /\ WriteBatch
    BY <1>6 DEF Batch, WriteBatch, Idle
  <2>2. \A t \in mempool : t \notin TxsOf[job.block]
    BY <2>1 DEF MempoolOK
  <2>3. \A t \in mempool : Unrecorded(t)'
    BY <1>1, <2>1, <2>2, BatchPlaces DEF MempoolOK, Unrecorded
  <2> QED
    BY <2>1, <2>3 DEF MempoolOK
<1>7. ASSUME NEW t \in Txs, transactionIndexed(t) PROVE MempoolOK'
  <2>1. /\ UNCHANGED <<blockAt, job>> /\ toNotify' = toNotify \ {t}
        /\ mempool' = mempool \ {t} /\ job.step = "batch"
    BY <1>7 DEF transactionIndexed, indexerVars, index
  <2>2. IsFiniteSet(mempool')
    BY <2>1, FS_Subset DEF MempoolOK
  <2> QED
    BY <2>1, <2>2 DEF MempoolOK, Unrecorded
<1>8. ASSUME NEW t \in Txs, MonitorInserts(t) PROVE MempoolOK'
  <2>1. /\ UNCHANGED <<blockAt, job, toNotify>> /\ mempool' = mempool \cup {t}
        /\ Unrecorded(t) /\ (job.step = "batch" => t \in toNotify \/ t \notin TxsOf[job.block])
    BY <1>8 DEF MonitorInserts, indexerVars, index
  <2>2. IsFiniteSet(mempool')
    BY <2>1, FS_AddElement DEF MempoolOK
  <2> QED
    BY <2>1, <2>2 DEF MempoolOK, Unrecorded
<1>9. CASE Close \/ (\E o \in Operations : \E x \in Arguments(o) : Begin(o, x))
           \/ Handler \/ UNCHANGED serverVars
  BY <1>2, <1>9, HandlerAside DEF Close, Begin, Aside, serverVars
<1> QED
  BY <1>3, <1>4, <1>5, <1>6, <1>7, <1>8, <1>9 DEF Next

ServerInv == Base /\ RequestOK /\ ReadOK /\ MempoolOK

LEMMA ServerAlways == Spec => []ServerInv
<1>1. Init => RequestOK /\ ReadOK /\ MempoolOK
  <2> SUFFICES ASSUME Init PROVE RequestOK /\ ReadOK /\ MempoolOK
    OBVIOUS
  <2>1. job.step = "idle"
    BY DEF Init, IndexerInit, Idle
  <2> QED
    BY <2>1, FS_EmptySet DEF Init, RequestOK, ReadOK, MempoolOK, OpsAt
<1>2. Base /\ RequestOK /\ ReadOK /\ MempoolOK /\ [Next]_serverVars
      => RequestOK' /\ ReadOK' /\ MempoolOK'
  BY StepRequest, StepReads, StepMempool DEF Base, PlaceInv, TypeInv
<1> QED
  BY <1>1, <1>2, BaseAlways, PTL DEF Spec, ServerInv

\* The index stays type correct beside the handlers, and a handler that has
\* not answered has its next read before it.
THEOREM ServerTypeCorrect == Spec => []ServerTypeOK
<1>1. ServerInv => ServerTypeOK
  BY DEF ServerInv, Base, PlaceInv, TypeInv, RequestOK, OpsAt, Operations, ReadOK, MempoolOK,
         ServerTypeOK
<1> QED
  BY <1>1, ServerAlways, PTL

-----------------------------------------------------------------------------
(* A request that has seen no reorganisation: all the while the recorded   *)
(* blocks are one chain, and the tables only grow.                         *)

HasLeft(t) == \/ ~Unrecorded(t)
              \/ job.step = "batch" /\ t \in TxsOf[job.block] \ toNotify

Undisturbed ==
    op # "none" /\ ~torn =>
        /\ Settled
        /\ before.recorded \subseteq Intact
        /\ before.spent \subseteq DOMAIN txoSpent
        /\ \A t \in before.mempool \ mempool : HasLeft(t)

Extends(f, g) == DOMAIN f \subseteq DOMAIN g /\ \A k \in DOMAIN f : g[k] = f[k]

TablesGrow ==
    /\ Extends(blockAt, blockAt') /\ Extends(hashHeight, hashHeight')
    /\ Extends(txoSpent, txoSpent') /\ Extends(addressTxo, addressTxo')
    /\ DOMAIN txBlock \subseteq DOMAIN txBlock'
    /\ highest <= highest' /\ Intact \subseteq Intact'
    /\ before.mempool \cap mempool' \subseteq mempool

\* The recorded blocks, when none is being replaced, are intact.
LEMMA SettledIntact ==
    ASSUME Base, Settled
    PROVE  Intact = Range(blockAt)
<1>1. DOMAIN blockAt \ Replacing = DOMAIN blockAt
  BY DEF Settled
<1> QED
  BY <1>1, Zenon DEF Intact, Range

\* A batch whose block comes on top of a chain: its height is free, and the
\* chain does not have what it spends.
LEMMA BatchOnTop ==
    ASSUME Base, Settled, WriteBatch
    PROVE  /\ job.height \notin DOMAIN blockAt
           /\ DOMAIN SpentRecords(job.block) \cap DOMAIN txoSpent = {}
<1> DEFINE b == job.block
<1>1. /\ job.step = "batch" /\ b \in Blocks /\ job.height = HeightOf[b]
      /\ Prev[b] # ZeroHash => HasIndexedBlock(Prev[b], job.height - 1)
  BY DEF WriteBatch, Base, PlaceInv, AtOwnHeight, GoesOnTop, TypeInv, TypeOK
<1>2. job.height \notin DOMAIN blockAt
  BY <1>1 DEF Settled, Replacing
<1>3. IsTable(blockAt, Nat, Blocks) /\ \A h \in DOMAIN blockAt : HeightOf[blockAt[h]] = h
  BY DEF Base, PlaceInv, AtOwnHeight, TypeInv, TypeOK
<1> DEFINE S == Range(blockAt) \cup {b}
<1>4. S \in SUBSET Blocks
  BY <1>1, <1>3 DEF IsTable
<1>5. IsChain(S)
  <2>1. \A c \in S : Prev[c] \in S \cup {ZeroHash}
    <3>1. Prev[b] \in S \cup {ZeroHash}
      BY <1>1 DEF HasIndexedBlock, Range
    <3>2. ASSUME NEW h \in DOMAIN blockAt PROVE Prev[blockAt[h]] \in S \cup {ZeroHash}
      <4>1. CASE h = 0
        <5>1. blockAt[h] \in Blocks /\ HeightOf[blockAt[h]] = 0
          BY <1>3, <4>1 DEF IsTable, Range
        <5> QED
          BY <5>1, ChainAssumption
      <4>2. CASE h # 0
        BY <4>2 DEF Settled, Range
      <4> QED
        BY <4>1, <4>2
    <3> QED
      BY <3>1, <3>2 DEF Range
  <2>2. \A c, d \in S : HeightOf[c] = HeightOf[d] => c = d
    BY <1>1, <1>2, <1>3 DEF Range
  <2> QED
    BY <2>1, <2>2 DEF IsChain, Grounded
<1>6. ASSUME NEW o \in DOMAIN SpentRecords(b), o \in DOMAIN txoSpent PROVE FALSE
  <2>1. PICK d \in Range(Debits[b]) : d.out = o
    BY <1>1, SpentRecordTrue
  <2> DEFINE c == txoSpent[o].block
  <2>2. c \in Range(blockAt) /\ c # b
    BY <1>1, <1>2, <1>6 DEF Base, SpendInv, SpentByRecordedBlock, HasIndexedBlock, Range
  <2>3. PICK e \in Range(Debits[c]) : e.out = o
    BY <1>6 DEF Base, Facts, SpendsTrue
  <2> QED
    BY <1>4, <1>5, <2>1, <2>2, <2>3, ValidityAssumption
<1> QED
  BY <1>2, <1>6

\* A step that leaves the tables alone lets them grow.
LEMMA SameTables ==
    ASSUME PlaceInv, UNCHANGED <<blockAt, hashHeight, txoSpent, addressTxo, txBlock>>,
           highest <= highest', Intact \subseteq Intact',
           before.mempool \cap mempool' \subseteq mempool
    PROVE  TablesGrow
BY DEF TablesGrow, Extends

\* While the indexer and the monitor go on, nothing that an undisturbed request
\* has read becomes untrue.
LEMMA WritesGrow ==
    ASSUME ServerInv, ServerInv', Undisturbed, Writes, op # "none", ~torn'
    PROVE  TablesGrow /\ Undisturbed'
<1>1. ~torn /\ UNCHANGED <<op, before>>
  <2>1. UNCHANGED <<op, before>>
    BY WritesAside DEF handler, request
  <2>2. torn \in BOOLEAN
    BY DEF ServerInv, RequestOK
  <2> QED
    BY <2>1, <2>2, WritesAside
<1>2. /\ Settled
      /\ before.recorded \subseteq Intact
      /\ before.spent \subseteq DOMAIN txoSpent
      /\ \A t \in before.mempool \ mempool : HasLeft(t)
  BY <1>1 DEF Undisturbed
<1>3. PlaceInv /\ TypeOK /\ highest \in Nat \cup {-1}
  BY DEF ServerInv, Base, PlaceInv, TypeInv, TypeOK
<1>4. /\ job.step = "batch" => toNotify \subseteq TxsOf[job.block]
      /\ toNotify # {} => job.step = "batch"
  BY DEF ServerInv, MempoolOK
<1>5. NoRestartInReorg
  BY ServerAssumption DEF NoRestartInReorg
<1>6. ASSUME NEW b \in Blocks, Index(b) PROVE TablesGrow /\ Undisturbed'
  <2>1. /\ UNCHANGED <<blockAt, hashHeight, txoSpent, addressTxo, txBlock, highest, mempool>>
        /\ CallIndexBlock(b) /\ job.step = "idle"
        /\ job'.step = IF HeightOf[b] \in DOMAIN blockAt THEN "clear" ELSE "highest"
        /\ job'.height = HeightOf[b]
    BY <1>6 DEF Index, CallIndexBlock, IndexBlock, index, Idle
  <2>2. Intact' = Intact
    BY <1>3, <1>5, <2>1, IntactSteps
  <2>3. Settled'
    BY <1>2, <2>1 DEF Settled, Replacing
  <2>4. \A t \in before.mempool \ mempool : HasLeft(t)'
    BY <1>2, <2>1 DEF HasLeft, Unrecorded
  <2> QED
    BY <1>1, <1>2, <1>3, <2>1, <2>2, <2>3, <2>4, SameTables DEF Undisturbed
<1>7. CASE Clear
  BY <1>1, <1>7 DEF Clear
<1>8. CASE BuildBatch
  <2>1. /\ UNCHANGED <<blockAt, hashHeight, txoSpent, addressTxo, txBlock, mempool>>
        /\ PutHighest /\ job.step = "highest" /\ job'.step = "batch"
        /\ job'.height = job.height /\ job.height \in Nat
        /\ highest' = IF highest < job.height THEN job.height ELSE highest
    BY <1>3, <1>8 DEF BuildBatch, PutHighest, TypeOK
  <2>2. Intact' = Intact
    BY <1>3, <1>5, <2>1, IntactSteps
  <2>3. Settled'
    BY <1>2, <2>1 DEF Settled, Replacing
  <2>4. \A t \in before.mempool \ mempool : HasLeft(t)'
    BY <1>2, <2>1 DEF HasLeft, Unrecorded
  <2>5. highest <= highest'
    BY <1>3, <2>1
  <2> QED
    BY <1>1, <1>2, <1>3, <2>1, <2>2, <2>3, <2>4, <2>5, SameTables DEF Undisturbed
<1>9. CASE Batch
  <2>1. /\ WriteBatch /\ UNCHANGED <<mempool, toNotify, highest>> /\ toNotify = {}
        /\ job.step = "batch" /\ job'.step = "idle"
    BY <1>9 DEF Batch, WriteBatch, Idle
  <2>2. /\ job.height \notin DOMAIN blockAt
        /\ DOMAIN SpentRecords(job.block) \cap DOMAIN txoSpent = {}
    BY <1>2, <2>1, BatchOnTop DEF ServerInv
  <2>3. /\ job.block \in Blocks /\ job.height = HeightOf[job.block]
        /\ Prev[job.block] # ZeroHash => HasIndexedBlock(Prev[job.block], job.height - 1)
    BY <2>1 DEF WriteBatch, ServerInv, Base, PlaceInv, AtOwnHeight, GoesOnTop, TypeInv, TypeOK
  <2>4. /\ DOMAIN blockAt' = DOMAIN blockAt \cup {job.height}
        /\ \A h \in DOMAIN blockAt' :
              blockAt'[h] = IF h = job.height THEN job.block ELSE blockAt[h]
    BY <1>3, <2>1, BatchPlaces DEF PlaceInv
  <2>5. Extends(blockAt, blockAt')
    BY <2>2, <2>4 DEF Extends
  <2>6. Extends(hashHeight, hashHeight')
    <3>1. Known' = Known \cup {job.block}
      BY <1>3, <2>1, BatchTables DEF PlaceInv, Known
    <3>2. \A c \in Known : hashHeight'[c] = HeightOf[c] /\ hashHeight[c] = HeightOf[c]
      BY <3>1 DEF ServerInv, Base, Facts, KnownBlocks
    <3> QED
      BY <3>1, <3>2 DEF Extends, Known
  <2>7. Extends(txoSpent, txoSpent') /\ DOMAIN txBlock \subseteq DOMAIN txBlock'
    <3>1. /\ DOMAIN txBlock' = DOMAIN txBlock \cup TxsOf[job.block]
          /\ DOMAIN txoSpent' = DOMAIN txoSpent \cup DOMAIN SpentRecords(job.block)
          /\ \A o \in DOMAIN txoSpent' :
                txoSpent'[o] = IF o \in DOMAIN SpentRecords(job.block)
                               THEN SpentRecords(job.block)[o] ELSE txoSpent[o]
      BY <1>3, <2>1, BatchTables DEF PlaceInv
    <3> QED
      BY <3>1, <2>2 DEF Extends
  <2>8. Extends(addressTxo, addressTxo')
    BY <2>1, WriteBatchCounts DEF Extends, ServerInv, Base, TxoInv
  <2>9. Intact \subseteq Intact'
    BY <1>3, <1>5, <2>1, IntactSteps
  <2>10. TablesGrow
    BY <1>3, <2>1, <2>5, <2>6, <2>7, <2>8, <2>9 DEF TablesGrow
  <2>11. Settled'
    <3>1. Replacing' = {}
      BY <2>1 DEF Replacing
    <3>2. ASSUME NEW h \in DOMAIN blockAt', h # 0
          PROVE  h - 1 \in DOMAIN blockAt' /\ blockAt'[h - 1] = Prev[blockAt'[h]]
      <4>1. CASE h = job.height
        <5>1. Prev[job.block] # ZeroHash
          BY <2>3, <3>2, <4>1, ChainAssumption
        <5> QED
          BY <2>3, <2>4, <2>5, <4>1, <5>1 DEF HasIndexedBlock, Extends
      <4>2. CASE h # job.height
        BY <1>2, <2>4, <2>5, <3>2, <4>2 DEF Settled, Extends
      <4> QED
        BY <4>1, <4>2
    <3> QED
      BY <3>1, <3>2 DEF Settled
  <2>12. \A t \in before.mempool \ mempool : HasLeft(t)'
    <3> SUFFICES ASSUME NEW t \in before.mempool \ mempool PROVE ~Unrecorded(t)'
      BY DEF HasLeft
    <3>1. ~Unrecorded(t) \/ t \in TxsOf[job.block]
      BY <1>2 DEF HasLeft
    <3> QED
      BY <3>1, <2>4, <2>5 DEF Unrecorded, Extends
  <2> QED
    BY <1>1, <1>2, <2>1, <2>7, <2>9, <2>10, <2>11, <2>12 DEF Undisturbed, Extends
<1>10. ASSUME NEW t \in Txs, transactionIndexed(t) PROVE TablesGrow /\ Undisturbed'
  <2>1. /\ UNCHANGED <<blockAt, hashHeight, txoSpent, addressTxo, txBlock, highest, job>>
        /\ job.step = "batch" /\ t \in toNotify
        /\ toNotify' = toNotify \ {t} /\ mempool' = mempool \ {t}
    BY <1>10 DEF transactionIndexed, indexerVars, index
  <2>2. Intact' = Intact /\ Settled'
    BY <1>2, <2>1 DEF Intact, Settled, Replacing
  <2>3. \A u \in before.mempool \ mempool' : HasLeft(u)'
    BY <1>2, <1>4, <2>1 DEF HasLeft, Unrecorded
  <2> QED
    BY <1>1, <1>2, <1>3, <2>1, <2>2, <2>3, SameTables DEF Undisturbed
<1>11. ASSUME NEW t \in Txs, MonitorInserts(t) PROVE TablesGrow /\ Undisturbed'
  <2>1. /\ UNCHANGED <<blockAt, hashHeight, txoSpent, addressTxo, txBlock, highest, job, toNotify>>
        /\ mempool' = mempool \cup {t} /\ ~HasLeft(t)
    BY <1>11 DEF MonitorInserts, indexerVars, index, HasLeft
  <2>2. Intact' = Intact /\ Settled'
    BY <1>2, <2>1 DEF Intact, Settled, Replacing
  <2>3. \A u \in before.mempool \ mempool' : HasLeft(u)'
    BY <1>2, <2>1 DEF HasLeft, Unrecorded
  <2>4. before.mempool \cap mempool' \subseteq mempool
    BY <1>2, <2>1
  <2> QED
    BY <1>1, <1>2, <1>3, <2>1, <2>2, <2>3, <2>4, SameTables DEF Undisturbed
<1> QED
  BY <1>6, <1>7, <1>8, <1>9, <1>10, <1>11 DEF Writes

\* A read leaves the tables alone.
LEMMA HandlerUndisturbed ==
    ASSUME Undisturbed, Handler
    PROVE  Undisturbed'
BY HandlerAside DEF Aside, indexerVars, index, request, history, Undisturbed, Settled,
                    Replacing, Intact, HasLeft, Unrecorded

LEMMA BeginUndisturbed ==
    ASSUME NEW o, NEW x, Begin(o, x)
    PROVE  Undisturbed'
BY DEF Begin, indexerVars, index, Undisturbed, Settled, Replacing, Intact

LEMMA UndisturbedAlways == Spec => []Undisturbed
<1>1. Init => Undisturbed
  BY DEF Init, Undisturbed
<1>2. ServerInv /\ ServerInv' /\ Undisturbed /\ [Next]_serverVars => Undisturbed'
  <2> SUFFICES ASSUME ServerInv, ServerInv', Undisturbed, [Next]_serverVars PROVE Undisturbed'
    OBVIOUS
  <2>1. CASE Close
    BY <2>1 DEF Close, Undisturbed
  <2>2. CASE \E o \in Operations : \E x \in Arguments(o) : Begin(o, x)
    BY <2>2, BeginUndisturbed
  <2>3. CASE Handler
    BY <2>3, HandlerUndisturbed
  <2>4. CASE Writes
    <3>1. op' = op
      BY <2>4, WritesAside DEF handler, request
    <3>2. op # "none" /\ ~torn' => Undisturbed'
      BY <2>4, WritesGrow
    <3> QED
      BY <3>1, <3>2 DEF Undisturbed
  <2>5. CASE UNCHANGED serverVars
    BY <2>5 DEF serverVars, handler, request, indexerVars, index, Undisturbed, Settled,
                Replacing, Intact, HasLeft, Unrecorded
  <2> QED
    BY <2>1, <2>2, <2>3, <2>4, <2>5 DEF Next, Writes
<1> QED
  BY <1>1, <1>2, ServerAlways, PTL DEF Spec

\* What the writes between two reads do to an undisturbed request.
LEMMA WritesBetween ==
    ASSUME ServerInv, ServerInv', Undisturbed, Writes, op # "none", ~torn'
    PROVE  /\ ~torn /\ TablesGrow
           /\ UNCHANGED <<op, arg, step, tip, hash, height, todo, items, unconfirmed, status,
                          before>>
<1>1. torn \in BOOLEAN
  BY DEF ServerInv, RequestOK
<1>2. ~torn
  BY <1>1, WritesAside
<1>3. TablesGrow
  BY WritesGrow
<1> QED
  BY <1>2, <1>3, WritesAside DEF handler, request, locals

\* A read changes neither the request nor what was noted at its start.
LEMMA ReadsBetween ==
    ASSUME Handler
    PROVE  UNCHANGED <<indexerVars, blockAt, hashHeight, timeHash, txBlock, txoAddress,
                       addressTxo, txoSpent, highest, job, mempool, op, arg, torn, before>>
BY HandlerAside DEF Aside, request, history, indexerVars, index

\* The index names the height of a block that is recorded, and "highestblock"
\* is not below it.
LEMMA RecordedBlock ==
    ASSUME ServerInv, NEW b \in Intact
    PROVE  /\ b \in Blocks /\ b \in Known /\ hashHeight[b] = HeightOf[b]
           /\ HeightOf[b] \in DOMAIN blockAt /\ blockAt[HeightOf[b]] = b
           /\ HeightOf[b] \in 0..highest
<1>1. /\ b \in Blocks /\ HeightOf[b] \in DOMAIN blockAt /\ blockAt[HeightOf[b]] = b
  BY IntactBlocks DEF ServerInv, Base, HasIndexedBlock
<1>2. b \in Known /\ hashHeight[b] = HeightOf[b]
  BY <1>1 DEF ServerInv, Base, Facts, KnownBlocks, Range
<1>3. HeightOf[b] \in 0..highest
  BY <1>1 DEF ServerInv, Base, NoGap
<1> QED
  BY <1>1, <1>2, <1>3

\* "highestblock" is the height of a block.
LEMMA HighestBlock ==
    ASSUME ServerInv, highest # -1
    PROVE  highest \in Nat /\ highest + ProofDepth < Modulus
<1>1. highest \in Nat /\ highest \in 0..highest
  BY DEF ServerInv, Base, PlaceInv, TypeInv, TypeOK
<1>2. CASE highest \in DOMAIN blockAt
  <2>1. blockAt[highest] \in Blocks /\ HeightOf[blockAt[highest]] = highest
    BY <1>2 DEF ServerInv, Base, PlaceInv, AtOwnHeight, TypeInv, TypeOK, IsTable, Range
  <2> QED
    BY <1>1, <2>1, ServerAssumption
<1>3. CASE highest \notin DOMAIN blockAt
  <2>1. job.step = "batch" /\ job.height = highest
    BY <1>1, <1>3 DEF ServerInv, Base, NoGap
  <2>2. job.block \in Blocks /\ HeightOf[job.block] = highest
    BY <2>1 DEF ServerInv, Base, PlaceInv, AtOwnHeight, TypeInv, TypeOK
  <2> QED
    BY <1>1, <2>2, ServerAssumption
<1> QED
  BY <1>2, <1>3

-----------------------------------------------------------------------------
(* getBlock.                                                               *)

\* What the reads of getBlock have found when the block asked for is recorded.
BlockInv ==
    op = "getBlock" /\ ~torn /\ arg \in before.recorded =>
        /\ step \in {"highest", "height"} => todo = <<>> /\ items = <<>>
        /\ step # "highest" => tip \in HeightOf[arg]..highest /\ hash = arg
        /\ step = "position" => \/ todo = <<HeightOf[arg]>> /\ items = <<>>
                                \/ todo = <<>> /\ items = <<arg>>
        /\ step = "done" /\ status = "ok" => items = <<arg>>

LEMMA BlockReads ==
    ASSUME ServerInv, Undisturbed, BlockInv, Handler,
           op = "getBlock", ~torn, arg \in before.recorded
    PROVE  BlockInv'
<1>1. UNCHANGED <<highest, op, arg, torn, before>>
  BY ReadsBetween
<1>2. /\ arg \in Blocks /\ arg \in DOMAIN hashHeight /\ hashHeight[arg] = HeightOf[arg]
      /\ HeightOf[arg] \in DOMAIN blockAt /\ blockAt[HeightOf[arg]] = arg
      /\ HeightOf[arg] \in 0..highest
  BY RecordedBlock DEF Undisturbed, Known
<1>3. step \in {"highest", "height", "position", "done"}
  BY DEF ServerInv, RequestOK, OpsAt
<1>4. CASE ReadHighest
  <2>1. highest \in Int /\ highest # -1
    BY <1>2 DEF ServerInv, Base, PlaceInv, TypeInv, TypeOK
  <2>2. /\ tip' = highest /\ hash' = arg /\ step' = "height"
        /\ todo' = <<>> /\ items' = <<>> /\ status' = status
    BY <1>4, <2>1 DEF ReadHighest, BlockInv, GoTo, AsksBlock
  <2> QED
    BY <1>1, <1>2, <2>1, <2>2 DEF BlockInv
<1>5. CASE ReadHeight
  BY <1>1, <1>2, <1>5 DEF ReadHeight, BlockInv, GoTo, Finish, AsksBlock
<1>6. CASE ReadPosition
  BY <1>1, <1>2, <1>6 DEF ReadPosition, BlockInv, GoTo, Finish, AsksBlock
<1>7. CASE EndPositions
  BY <1>1, <1>2, <1>7 DEF EndPositions, BlockInv, GoTo, Finish, AsksBlock, locals
<1> QED
  BY <1>3, <1>4, <1>5, <1>6, <1>7
     DEF Handler, ReadTxBlock, CountBlocks, ReadIds, ReadTxBlockOfOutput, ReadSpent,
         ReadSpentHeight, ReadMempool, EndOutpoints, ReadPage, ReadPart, ReadPartSpent,
         EndParts, TakeSnapshot, LookUpSpend, LookUpSpendOfTxo, ReadTxoTime, LookUpSpender,
         ReadPending, LookUpPending, EndOutputs, ListBlocks, ListByDate, ReadListedHeight,
         ReadInfo, EndList

\* getBlock answers a recorded block with that block, and with at least one
\* confirmation: the height read after "highestblock" is never above it.
THEOREM BlocksAnswered == Spec => []BlockAnswered
<1>1. Init => BlockInv
  BY DEF Init, BlockInv
<1>2. ServerInv /\ ServerInv' /\ Undisturbed /\ BlockInv /\ [Next]_serverVars => BlockInv'
  <2> SUFFICES ASSUME ServerInv, ServerInv', Undisturbed, BlockInv, [Next]_serverVars,
                      op' = "getBlock", ~torn', arg' \in before'.recorded
               PROVE  BlockInv'
    BY DEF BlockInv
  <2>1. CASE Close
    BY <2>1 DEF Close
  <2>2. ASSUME NEW o \in Operations, NEW x \in Arguments(o), Begin(o, x)
        PROVE  BlockInv'
    BY <2>2 DEF Begin, BlockInv, FirstRead, ServerInv, RequestOK
  <2>3. CASE Handler
    <3>1. UNCHANGED <<op, arg, torn, before>>
      BY <2>3, ReadsBetween
    <3> QED
      BY <2>3, <3>1, BlockReads
  <2>4. CASE Writes
    <3>1. op # "none"
      BY <2>4, WritesAside DEF handler, request
    <3>2. /\ ~torn /\ highest <= highest'
          /\ UNCHANGED <<op, arg, step, tip, hash, todo, items, status, before>>
      BY <2>4, <3>1, WritesBetween DEF TablesGrow
    <3>3. highest \in Int /\ highest' \in Int
      BY DEF ServerInv, Base, PlaceInv, TypeInv, TypeOK
    <3> QED
      BY <3>2, <3>3 DEF BlockInv
  <2>5. CASE UNCHANGED serverVars
    BY <2>5 DEF serverVars, handler, request, locals, indexerVars, index, BlockInv
  <2> QED
    BY <2>1, <2>2, <2>3, <2>4, <2>5 DEF Next, Writes
<1>3. ServerInv /\ Undisturbed /\ BlockInv => BlockAnswered
  <2> SUFFICES ASSUME ServerInv, Undisturbed, BlockInv, Answered("getBlock"),
                      arg \in before.recorded
               PROVE  /\ items = <<arg>>
                      /\ Unsigned(tip - HeightOf[arg] + 1) \in 1..(highest + 1)
    BY DEF BlockAnswered
  <2>1. step = "done" /\ op = "getBlock" /\ ~torn /\ status = "ok"
    BY DEF Answered, ServerInv, RequestOK
  <2>2. items = <<arg>> /\ tip \in HeightOf[arg]..highest
    BY <2>1 DEF BlockInv
  <2>3. HeightOf[arg] \in 0..highest
    BY <2>1, RecordedBlock DEF Undisturbed
  <2>4. highest \in Nat /\ highest + ProofDepth < Modulus
    BY <2>3, HighestBlock
  <2>5. tip - HeightOf[arg] + 1 \in 1..(highest + 1)
    BY <2>2, <2>3, <2>4
  <2>6. Modulus \in Nat /\ highest + 1 < Modulus
    BY <2>4, ServerAssumption
  <2>7. Unsigned(tip - HeightOf[arg] + 1) = tip - HeightOf[arg] + 1
    BY <2>5, <2>6, <2>4 DEF Unsigned
  <2> QED
    BY <2>2, <2>5, <2>7
<1> QED
  BY <1>1, <1>2, <1>3, ServerAlways, UndisturbedAlways, PTL DEF Spec

-----------------------------------------------------------------------------
(* getTransactionProof.                                                    *)

\* No two blocks, of whatever branches, have a transaction at different
\* heights.  "tx-<tx>-block" names the block that was written last, so one of
\* another branch and height stays named when a reorganisation is given up
\* half-way: the branch that comes back is rewritten only where it was lost.
OneHeight ==
    \A b, c \in Blocks : TxsOf[b] \cap TxsOf[c] # {} => HeightOf[b] = HeightOf[c]

ProofLength(h) == IF h < ProofDepth THEN 0 ELSE ProofDepth

\* The heights of a proof go down from that of the transaction.
LEMMA ProofHeightsAre ==
    ASSUME NEW h \in Nat, h + ProofDepth < Modulus
    PROVE  /\ ProofLength(h) \in Nat
           /\ ProofHeights(h) = [i \in 1..ProofLength(h) |-> h + 1 - i]
<1>1. ProofDepth \in Nat \ {0} /\ Modulus \in Nat
  BY ServerAssumption
<1>2. CASE h < ProofDepth
  <2>1. h - ProofDepth + Modulus \in 0..(Modulus - 1)
    BY <1>1, <1>2
  <2>2. Unsigned(h - ProofDepth) = h - ProofDepth + Modulus
    BY <1>1, <2>1 DEF Unsigned
  <2>3. 1..(h - Unsigned(h - ProofDepth)) = {} /\ 1..0 = {}
    BY <1>1, <2>2
  <2> QED
    BY <1>1, <1>2, <2>3 DEF ProofHeights, ProofLength
<1>3. CASE ~(h < ProofDepth)
  <2>1. h - ProofDepth \in 0..(Modulus - 1)
    BY <1>1, <1>3
  <2>2. Unsigned(h - ProofDepth) = h - ProofDepth
    BY <1>1, <2>1 DEF Unsigned
  <2>3. h - Unsigned(h - ProofDepth) = ProofDepth
    BY <1>1, <2>2
  <2> QED
    BY <1>1, <1>3, <2>3 DEF ProofHeights, ProofLength
<1> QED
  BY <1>2, <1>3

\* The blocks read so far are those from the height down, and the heights that
\* are left follow on.
ProofSoFar ==
    /\ height \in DOMAIN blockAt /\ arg \in TxsOf[blockAt[height]]
    /\ todo \in Seq(Nat) /\ items \in Seq(Blocks)
    /\ Len(items) + Len(todo) = ProofLength(height)
    /\ \A i \in 1..Len(items) :
          height + 1 - i \in DOMAIN blockAt /\ items[i] = blockAt[height + 1 - i]
    /\ \A i \in 1..Len(todo) : todo[i] = height + 1 - Len(items) - i

AskedRecorded == \E b \in before.recorded : arg \in TxsOf[b]

ProofInv ==
    op = "getTransactionProof" /\ ~torn /\ AskedRecorded =>
        /\ step \in {"txBlock", "height"} => items = <<>>
        /\ step = "height" =>
              /\ hash \in Known
              /\ HeightOf[hash] \in DOMAIN blockAt /\ arg \in TxsOf[blockAt[HeightOf[hash]]]
        /\ step = "position" => ProofSoFar
        /\ step = "done" /\ status = "ok" => ProofSoFar /\ todo = <<>>

LEMMA ProofReads ==
    ASSUME ServerInv, Undisturbed, ProofInv, Handler, OneHeight,
           op = "getTransactionProof", ~torn, AskedRecorded
    PROVE  ProofInv'
<1>1. UNCHANGED <<blockAt, hashHeight, txBlock, op, arg, torn, before>>
  BY ReadsBetween
<1>2. PICK b \in before.recorded : arg \in TxsOf[b]
  BY DEF AskedRecorded
<1>3. /\ b \in Blocks /\ b \in Known
      /\ HeightOf[b] \in DOMAIN blockAt /\ blockAt[HeightOf[b]] = b
  BY RecordedBlock DEF Undisturbed
<1>4. IsTable(blockAt, Nat, Blocks) /\ IsTable(txBlock, Txs, Blocks)
  BY DEF ServerInv, Base, PlaceInv, TypeInv, TypeOK
<1>5. step \in {"txBlock", "height", "position", "done"}
  BY DEF ServerInv, RequestOK, OpsAt
<1>6. CASE ReadTxBlock
  <2>1. arg \in DOMAIN txBlock
    BY <1>2, <1>3 DEF ServerInv, Base, Facts, KnownContents
  <2>2. /\ txBlock[arg] \in Known /\ txBlock[arg] \in Blocks /\ arg \in TxsOf[txBlock[arg]]
    BY <1>4, <2>1 DEF ServerInv, Base, Facts, KnownContents, IsTable, Range
  <2>3. HeightOf[txBlock[arg]] = HeightOf[b]
    BY <1>2, <1>3, <2>2 DEF OneHeight
  <2>4. hash' = txBlock[arg] /\ step' = "height" /\ items' = items
    BY <1>6, <2>1 DEF ReadTxBlock, GoTo
  <2>5. step = "txBlock"
    BY <1>6 DEF ReadTxBlock
  <2> QED
    BY <1>1, <1>2, <1>3, <2>2, <2>3, <2>4, <2>5 DEF ProofInv, Known
<1>7. CASE ReadHeight
  <2>1. /\ items = <<>> /\ hash \in Known
        /\ HeightOf[hash] \in DOMAIN blockAt /\ arg \in TxsOf[blockAt[HeightOf[hash]]]
    BY <1>7 DEF ReadHeight, ProofInv
  <2>2. hashHeight[hash] = HeightOf[hash] /\ hash \in Blocks /\ HeightOf[hash] \in Nat
    BY <2>1, ChainAssumption
       DEF ServerInv, Base, Facts, KnownBlocks, Known, PlaceInv, TypeInv, TypeOK, IsTable
  <2> DEFINE h == HeightOf[hash]
  <2>3. /\ height' = h /\ todo' = ProofHeights(h) /\ step' = "position" /\ items' = <<>>
    BY <1>7, <2>1, <2>2 DEF ReadHeight, GoTo, AsksBlock, Known
  <2>4. /\ ProofLength(h) \in Nat
        /\ todo' = [i \in 1..ProofLength(h) |-> h + 1 - i]
    BY <2>2, <2>3, ProofHeightsAre, ServerAssumption
  <2>5. \A i \in 1..ProofLength(h) : h + 1 - i \in Nat
    BY <2>2, ServerAssumption DEF ProofLength
  <2> HIDE DEF h
  <2>6. todo' \in Seq(Nat) /\ Len(todo') = ProofLength(h)
    BY <2>4, <2>5
  <2>7. items' \in Seq(Blocks) /\ Len(items') = 0
    BY <2>3
  <2>8. ProofSoFar'
    BY <1>1, <2>1, <2>2, <2>3, <2>4, <2>6, <2>7 DEF ProofSoFar, h
  <2> QED
    BY <2>3, <2>8 DEF ProofInv
<1>8. CASE ReadPosition
  <2>1. /\ ProofSoFar /\ todo # <<>> /\ UNCHANGED height /\ step = "position"
    BY <1>8 DEF ReadPosition, ProofInv
  <2>2. CASE Head(todo) \in DOMAIN blockAt
    <3> DEFINE h == Head(todo)
    <3>1. /\ items' = Append(items, blockAt[h]) /\ todo' = Tail(todo)
          /\ UNCHANGED <<step, status>>
      BY <1>8, <2>2 DEF ReadPosition
    <3>2. /\ todo \in Seq(Nat) /\ items \in Seq(Blocks) /\ Len(todo) \in Nat /\ Len(todo) > 0
          /\ Len(items) \in Nat /\ height \in Nat
      BY <2>1, <1>4 DEF ProofSoFar, IsTable
    <3>3. h = height + 1 - (Len(items) + 1) /\ blockAt[h] \in Blocks
      BY <2>1, <2>2, <3>2, <1>4 DEF ProofSoFar, IsTable, Range
    <3>4. /\ todo' \in Seq(Nat) /\ Len(todo') = Len(todo) - 1
          /\ \A i \in 1..Len(todo') : todo'[i] = todo[i + 1]
      BY <3>1, <3>2
    <3>5. /\ items' \in Seq(Blocks) /\ Len(items') = Len(items) + 1
          /\ items'[Len(items) + 1] = blockAt[h]
          /\ \A i \in 1..Len(items) : items'[i] = items[i]
      BY <3>1, <3>2, <3>3
    <3> HIDE DEF h
    <3>6. \A i \in 1..Len(items') :
              height + 1 - i \in DOMAIN blockAt /\ items'[i] = blockAt[height + 1 - i]
      <4> SUFFICES ASSUME NEW i \in 1..Len(items')
                   PROVE  /\ height + 1 - i \in DOMAIN blockAt
                          /\ items'[i] = blockAt[height + 1 - i]
        OBVIOUS
      <4>1. CASE i \in 1..Len(items)
        BY <2>1, <3>5, <4>1 DEF ProofSoFar
      <4>2. CASE i = Len(items) + 1
        BY <2>2, <3>3, <3>5, <4>2 DEF h
      <4> QED
        BY <3>2, <3>5, <4>1, <4>2
    <3>7. \A i \in 1..Len(todo') : todo'[i] = height + 1 - Len(items') - i
      <4> SUFFICES ASSUME NEW i \in 1..Len(todo')
                   PROVE  todo'[i] = height + 1 - Len(items') - i
        OBVIOUS
      <4>1. i + 1 \in 1..Len(todo)
        BY <3>2, <3>4
      <4>2. todo[i + 1] = height + 1 - Len(items) - (i + 1)
        BY <2>1, <4>1 DEF ProofSoFar
      <4> QED
        BY <3>2, <3>4, <3>5, <4>2
    <3>8. Len(items') + Len(todo') = ProofLength(height)
      BY <2>1, <3>2, <3>4, <3>5 DEF ProofSoFar
    <3>9. ProofSoFar'
      BY <1>1, <2>1, <3>4, <3>5, <3>6, <3>7, <3>8 DEF ProofSoFar
    <3> QED
      BY <2>1, <3>1, <3>9 DEF ProofInv
  <2>3. CASE Head(todo) \notin DOMAIN blockAt
    BY <1>8, <2>3 DEF ReadPosition, ProofInv, Finish
  <2> QED
    BY <2>2, <2>3
<1>9. CASE EndPositions
  <2>1. UNCHANGED <<height, todo, items>> /\ step' = "done" /\ todo = <<>> /\ ProofSoFar
    BY <1>9 DEF EndPositions, Finish, locals, ProofInv
  <2> QED
    BY <1>1, <2>1 DEF ProofSoFar, ProofInv
<1> QED
  BY <1>5, <1>6, <1>7, <1>8, <1>9
     DEF Handler, ReadHighest, CountBlocks, ReadIds, ReadTxBlockOfOutput, ReadSpent,
         ReadSpentHeight, ReadMempool, EndOutpoints, ReadPage, ReadPart, ReadPartSpent,
         EndParts, TakeSnapshot, LookUpSpend, LookUpSpendOfTxo, ReadTxoTime, LookUpSpender,
         ReadPending, LookUpPending, EndOutputs, ListBlocks, ListByDate, ReadListedHeight,
         ReadInfo, EndList, AsksSpends

LEMMA ProofWrites ==
    ASSUME ServerInv, TablesGrow, ProofInv,
           UNCHANGED <<op, arg, torn, before, step, status, hash, height, todo, items>>
    PROVE  ProofInv'
<1>1. ASSUME NEW h \in DOMAIN blockAt PROVE h \in DOMAIN blockAt' /\ blockAt'[h] = blockAt[h]
  BY DEF TablesGrow, Extends
<1>2. ProofSoFar => ProofSoFar'
  BY <1>1 DEF ProofSoFar
<1>3. Known \subseteq Known'
  BY DEF TablesGrow, Extends, Known
<1> QED
  BY <1>1, <1>2, <1>3 DEF ProofInv, AskedRecorded

\* The proof of a transaction in a recorded block is a piece of the chain, of
\* full length, that ends in a block with the transaction, unless branches had
\* the transaction at different heights; below the height that the length
\* needs, it is empty.
THEOREM ProofsAreChains ==
    ASSUME OneHeight
    PROVE  Spec => []ProofIsChain
<1>1. Init => ProofInv
  BY DEF Init, ProofInv
<1>2. ServerInv /\ ServerInv' /\ Undisturbed /\ ProofInv /\ [Next]_serverVars => ProofInv'
  <2> SUFFICES ASSUME ServerInv, ServerInv', Undisturbed, ProofInv, [Next]_serverVars,
                      op' = "getTransactionProof", ~torn', AskedRecorded'
               PROVE  ProofInv'
    BY DEF ProofInv
  <2>1. CASE Close
    BY <2>1 DEF Close
  <2>2. ASSUME NEW o \in Operations, NEW x \in Arguments(o), Begin(o, x)
        PROVE  ProofInv'
    BY <2>2 DEF Begin, ProofInv, FirstRead, ServerInv, RequestOK
  <2>3. CASE Handler
    <3>1. UNCHANGED <<op, arg, torn, before>>
      BY <2>3, ReadsBetween
    <3> QED
      BY <2>3, <3>1, ProofReads DEF AskedRecorded
  <2>4. CASE Writes
    <3>1. op # "none"
      BY <2>4, WritesAside DEF handler, request
    <3>2. /\ ~torn /\ torn \in BOOLEAN /\ torn' \in BOOLEAN /\ TablesGrow
          /\ UNCHANGED <<op, arg, step, status, hash, height, todo, items, before>>
      BY <2>4, <3>1, WritesBetween DEF ServerInv, RequestOK
    <3> QED
      BY <3>2, ProofWrites
  <2>5. CASE UNCHANGED serverVars
    BY <2>5 DEF serverVars, handler, request, locals, indexerVars, index, ProofInv, ProofSoFar,
                AskedRecorded, Known
  <2> QED
    BY <2>1, <2>2, <2>3, <2>4, <2>5 DEF Next, Writes
<1>3. ServerInv /\ Undisturbed /\ ProofInv => ProofIsChain
  <2> SUFFICES ASSUME ServerInv, Undisturbed, ProofInv, Answered("getTransactionProof"),
                      AskedRecorded
               PROVE  /\ Len(items) = ProofLength(height)
                      /\ items # <<>> => arg \in TxsOf[items[1]]
                      /\ \A i \in 1..(Len(items) - 1) : Prev[items[i]] = items[i + 1]
    BY DEF ProofIsChain, ProofLength, AskedRecorded
  <2>1. step = "done" /\ op = "getTransactionProof" /\ ~torn /\ status = "ok"
    BY DEF Answered, ServerInv, RequestOK
  <2>2. ProofSoFar /\ todo = <<>> /\ Settled
    BY <2>1 DEF ProofInv, Undisturbed
  <2>3. Len(items) \in Nat /\ Len(todo) = 0 /\ height \in Nat
    BY <2>2 DEF ProofSoFar, ServerInv, ReadOK
  <2>4. Len(items) = ProofLength(height)
    BY <2>2, <2>3 DEF ProofSoFar
  <2>5. items # <<>> => arg \in TxsOf[items[1]]
    <3> SUFFICES ASSUME items # <<>> PROVE arg \in TxsOf[items[1]]
      OBVIOUS
    <3>1. 1 \in 1..Len(items)
      BY <2>2, <2>3 DEF ProofSoFar
    <3>2. items[1] = blockAt[height + 1 - 1] /\ height + 1 - 1 = height
      BY <2>2, <2>3, <3>1 DEF ProofSoFar
    <3> QED
      BY <2>2, <3>2 DEF ProofSoFar
  <2>6. ASSUME NEW i \in 1..(Len(items) - 1)
        PROVE  Prev[items[i]] = items[i + 1]
    <3>1. i \in 1..Len(items) /\ i + 1 \in 1..Len(items)
      BY <2>3
    <3>2. PICK h : h = height + 1 - i
      OBVIOUS
    <3>3. h \in DOMAIN blockAt /\ items[i] = blockAt[h]
      BY <2>2, <3>1, <3>2 DEF ProofSoFar
    <3>4. height + 1 - (i + 1) \in DOMAIN blockAt /\ items[i + 1] = blockAt[height + 1 - (i + 1)]
      BY <2>2, <3>1 DEF ProofSoFar
    <3>5. h - 1 = height + 1 - (i + 1)
      BY <2>3, <3>2
    <3>6. h - 1 \in Nat /\ h # 0
      BY <2>3, <3>2, <3>4, <3>5 DEF ServerInv, Base, PlaceInv, TypeInv, TypeOK, IsTable
    <3>7. blockAt[h - 1] = Prev[blockAt[h]]
      BY <2>2, <3>3, <3>6 DEF Settled
    <3> QED
      BY <3>3, <3>4, <3>5, <3>7
  <2> QED
    BY <2>4, <2>5, <2>6
<1> QED
  BY <1>1, <1>2, <1>3, ServerAlways, UndisturbedAlways, PTL DEF Spec

-----------------------------------------------------------------------------
(* outpointSpend and outpointSpends.                                       *)

\* A recorded spend is of a transaction of a block that was recorded, and what
\* it spends was made by one.
LEMMA SpendRecorded ==
    ASSUME ServerInv, NEW o \in DOMAIN txoSpent
    PROVE  /\ o \in Outpoints /\ txoSpent[o] \in [block : Blocks, tx : Txs]
           /\ HasIndexedBlock(txoSpent[o].block, HeightOf[txoSpent[o].block])
           /\ txoSpent[o].block \in Known
           /\ txoSpent[o].tx \in TxsOf[txoSpent[o].block]
           /\ MadeBy[o] \in DOMAIN txBlock
<1> DEFINE b == txoSpent[o].block
<1>1. o \in Outpoints /\ txoSpent[o] \in [block : Blocks, tx : Txs]
  BY DEF ServerInv, Base, PlaceInv, TypeInv, TypeOK, IsTable, Range
<1>2. HasIndexedBlock(b, HeightOf[b])
  BY DEF ServerInv, Base, SpendInv, SpentByRecordedBlock
<1>3. b \in Known
  BY <1>2 DEF ServerInv, Base, Facts, KnownBlocks, HasIndexedBlock, Range
<1>4. PICK d \in Range(Debits[b]) : d.out = o /\ d.tx = txoSpent[o].tx
  BY DEF ServerInv, Base, Facts, SpendsTrue
<1>5. txoSpent[o].tx \in TxsOf[b]
  BY <1>1, <1>4, ServerAssumption
<1>6. Known \in SUBSET Blocks /\ Grounded(Known)
  BY DEF ServerInv, Base, Facts, KnownBlocks, Known, PlaceInv, TypeInv, TypeOK, IsTable
<1>7. \E c \in Known : MadeBy[o] \in TxsOf[c]
  BY <1>3, <1>4, <1>6, ValidityAssumption
<1>8. MadeBy[o] \in DOMAIN txBlock
  BY <1>7 DEF ServerInv, Base, Facts, KnownContents
<1> QED
  BY <1>1, <1>2, <1>3, <1>5, <1>8

\* What was spent when the request came, is spent by a block that was recorded
\* then.
SpentThen ==
    op # "none" /\ ~torn =>
        \A o \in before.spent : /\ o \in DOMAIN txoSpent
                                /\ txoSpent[o].block \in before.recorded

LEMMA SpentThenAlways == Spec => []SpentThen
<1>1. Init => SpentThen
  BY DEF Init, SpentThen
<1>2. ServerInv /\ ServerInv' /\ Undisturbed /\ SpentThen /\ [Next]_serverVars => SpentThen'
  <2> SUFFICES ASSUME ServerInv, ServerInv', Undisturbed, SpentThen, [Next]_serverVars,
                      op' # "none", ~torn'
               PROVE  SpentThen'
    BY DEF SpentThen
  <2>1. CASE Close
    BY <2>1 DEF Close
  <2>2. ASSUME NEW o \in Operations, NEW x \in Arguments(o), Begin(o, x)
        PROVE  SpentThen'
    <3>1. /\ Settled /\ UNCHANGED txoSpent
          /\ before'.spent = DOMAIN txoSpent /\ before'.recorded = Intact
      BY <2>2 DEF Begin, indexerVars, index
    <3>2. \A p \in DOMAIN txoSpent : txoSpent[p].block \in Range(blockAt)
      BY SpendRecorded DEF HasIndexedBlock, Range
    <3>3. Intact = Range(blockAt)
      BY <3>1, SettledIntact DEF ServerInv
    <3> QED
      BY <3>1, <3>2, <3>3 DEF SpentThen
  <2>3. CASE Handler
    BY <2>3, ReadsBetween DEF SpentThen
  <2>4. CASE Writes
    <3>1. op # "none"
      BY <2>4, WritesAside DEF handler, request
    <3>2. ~torn /\ TablesGrow /\ UNCHANGED <<op, before>>
      BY <2>4, <3>1, WritesBetween
    <3> QED
      BY <3>1, <3>2 DEF SpentThen, TablesGrow, Extends
  <2>5. CASE UNCHANGED serverVars
    BY <2>5 DEF serverVars, handler, request, indexerVars, index, SpentThen
  <2> QED
    BY <2>1, <2>2, <2>3, <2>4, <2>5 DEF Next, Writes
<1> QED
  BY <1>1, <1>2, ServerAlways, UndisturbedAlways, PTL DEF Spec

Answer == [out : Outpoints, spent : {"yes", "no", "error", ""},
           spender : Txs \cup {NoBlock}, height : Nat \cup {-1}]

\* What was asked for, and how many of it have been answered.
Asked == IF op = "outpointSpend" THEN <<arg>> ELSE arg
Complete == IF step = "spentHeight" THEN Len(items) - 1 ELSE Len(items)

AnswerTrue(x) ==
    /\ x.out \in before.spent => /\ x.spender = txoSpent[x.out].tx
                                 /\ x.height = HeightOf[txoSpent[x.out].block]
    /\ x.spent = "no" => \A t \in before.mempool \cap mempool : x.out \notin Takes[t]

SpendersSoFar ==
    /\ Asked \in Seq(Outpoints) /\ todo \in Seq(Outpoints) /\ items \in Seq(Answer)
    /\ Complete \in Nat /\ Len(todo) = Len(Asked) - Complete
    /\ \A i \in 1..Len(todo) : todo[i] = Asked[Complete + i]
    /\ \A i \in 1..Len(items) : items[i].out = Asked[i]
    /\ \A i \in 1..Complete : AnswerTrue(items[i])

SpendersInv ==
    AsksSpends /\ ~torn =>
        /\ SpendersSoFar
        /\ step \in {"spent", "spentHeight", "mempool"} => todo # <<>>
        /\ step = "spentHeight" =>
              LET o == Head(todo)
              IN  /\ o \in DOMAIN txoSpent /\ hash = txoSpent[o].block
                  /\ items[Len(items)].spent = "yes"
                  /\ items[Len(items)].spender = txoSpent[o].tx
        /\ step = "mempool" => Head(todo) \notin before.spent
        /\ step = "done" => todo = <<>>

\* An outpoint is done with, and the next one is looked at.
LEMMA NextAnswer ==
    ASSUME SpendersSoFar, todo # <<>>, UNCHANGED <<op, arg, before, txoSpent, mempool>>,
           todo' = Tail(todo), step' = "txBlock",
           items' \in Seq(Answer), Len(items') = Complete + 1,
           \A i \in 1..Complete : items'[i] = items[i],
           items'[Complete + 1].out = Head(todo),
           AnswerTrue(items'[Complete + 1])
    PROVE  SpendersSoFar'
<1> DEFINE k == Complete
<1>1. /\ k \in Nat /\ Asked \in Seq(Outpoints) /\ todo \in Seq(Outpoints)
      /\ Len(todo) = Len(Asked) - k /\ Len(todo) \in Nat /\ Len(todo) > 0
  BY DEF SpendersSoFar
<1>2. Complete' = k + 1 /\ Asked' = Asked
  BY DEF Complete, Asked
<1>3. /\ todo' \in Seq(Outpoints) /\ Len(todo') = Len(todo) - 1
      /\ \A i \in 1..Len(todo') : todo'[i] = todo[i + 1]
  BY <1>1
<1>4. \A i \in 1..Len(todo') : todo'[i] = Asked[k + 1 + i]
  <2> SUFFICES ASSUME NEW i \in 1..Len(todo') PROVE todo'[i] = Asked[k + 1 + i]
    OBVIOUS
  <2>1. i + 1 \in 1..Len(todo) /\ k + (i + 1) = k + 1 + i
    BY <1>1, <1>3
  <2>2. todo[i + 1] = Asked[k + (i + 1)]
    BY <2>1 DEF SpendersSoFar
  <2> QED
    BY <1>3, <2>1, <2>2
<1>5. Head(todo) = Asked[k + 1]
  <2>1. 1 \in 1..Len(todo)
    BY <1>1
  <2> QED
    BY <1>1, <2>1 DEF SpendersSoFar
<1>6. \A i \in 1..Len(items') : items'[i].out = Asked[i]
  <2>1. ASSUME NEW i \in 1..k PROVE items'[i].out = Asked[i]
    <3>1. i \in 1..Len(items)
      BY <1>1 DEF Complete, SpendersSoFar
    <3> QED
      BY <2>1, <3>1 DEF SpendersSoFar
  <2> QED
    BY <1>1, <1>5, <2>1
<1>7. \A i \in 1..(k + 1) : AnswerTrue(items'[i])
  <2>1. ASSUME NEW i \in 1..k PROVE AnswerTrue(items'[i])
    <3>1. AnswerTrue(items[i]) /\ items'[i] = items[i]
      BY DEF SpendersSoFar
    <3> QED
      BY <3>1
  <2>2. \A i \in 1..(k + 1) : i \in 1..k \/ i = k + 1
    BY <1>1
  <2> QED
    BY <2>1, <2>2
<1>8. \A x : AnswerTrue(x) => AnswerTrue(x)'
  BY DEF AnswerTrue
<1> QED
  BY <1>1, <1>2, <1>3, <1>4, <1>6, <1>7, <1>8 DEF SpendersSoFar, AnswerTrue

LEMMA SpendersReads ==
    ASSUME ServerInv, Undisturbed, SpentThen, SpendersInv, Handler, AsksSpends, ~torn
    PROVE  SpendersInv'
<1>1. UNCHANGED <<blockAt, hashHeight, txBlock, txoSpent, mempool, op, arg, torn, before>>
  BY ReadsBetween
<1>2. step \in {"txBlock", "spent", "spentHeight", "mempool", "done"}
  BY DEF ServerInv, RequestOK, OpsAt, AsksSpends
<1>3. /\ SpendersSoFar /\ items \in Seq(Answer) /\ todo \in Seq(Outpoints)
      /\ Len(items) \in Nat
  BY DEF SpendersInv, SpendersSoFar
<1>4. todo # <<>> => Head(todo) \in Outpoints
  BY <1>3
<1>5. before.spent \subseteq DOMAIN txoSpent
  BY DEF Undisturbed, AsksSpends
<1>6. ASSUME NEW x \in Answer, todo # <<>>, step # "spentHeight", x.out = Head(todo),
             AnswerTrue(x), items' = Append(items, x), todo' = Tail(todo), step' = "txBlock"
      PROVE  SpendersInv'
  <2>1. /\ items' \in Seq(Answer) /\ Len(items') = Len(items) + 1
        /\ \A i \in 1..Len(items) : items'[i] = items[i]
        /\ items'[Len(items) + 1] = x
    BY <1>3, <1>6
  <2>2. Complete = Len(items)
    BY <1>6 DEF Complete
  <2>3. SpendersSoFar'
    BY <1>1, <1>3, <1>6, <2>1, <2>2, NextAnswer
  <2> QED
    BY <1>6, <2>3 DEF SpendersInv
<1>7. CASE ReadTxBlockOfOutput
  <2>1. todo # <<>> /\ step = "txBlock"
    BY <1>7 DEF ReadTxBlockOfOutput
  <2> DEFINE o == Head(todo)
  <2>2. CASE MadeBy[o] \in DOMAIN txBlock
    <3>1. UNCHANGED <<todo, items>> /\ step' = "spent"
      BY <1>7, <2>2 DEF ReadTxBlockOfOutput, GoTo
    <3>2. SpendersSoFar'
      BY <1>1, <1>3, <2>1, <3>1 DEF SpendersSoFar, Asked, Complete, AnswerTrue
    <3> QED
      BY <2>1, <3>1, <3>2 DEF SpendersInv
  <2>3. CASE MadeBy[o] \notin DOMAIN txBlock
    <3>1. o \notin before.spent
      BY <1>5, <2>3, SpendRecorded
    <3>2. /\ items' = Append(items, Told(o, "error", NoBlock, -1))
          /\ todo' = Tail(todo) /\ step' = "txBlock"
      BY <1>7, <2>3 DEF ReadTxBlockOfOutput, NextOutpoint, GoTo
    <3>3. Told(o, "error", NoBlock, -1) \in Answer /\ AnswerTrue(Told(o, "error", NoBlock, -1))
          /\ Told(o, "error", NoBlock, -1).out = o
      BY <1>4, <2>1, <3>1 DEF Told, Answer, AnswerTrue
    <3> QED
      BY <1>6, <2>1, <3>2, <3>3
  <2> QED
    BY <2>2, <2>3
<1>8. CASE ReadSpent
  <2>1. todo # <<>> /\ step = "spent"
    BY <1>8 DEF ReadSpent, SpendersInv
  <2> DEFINE o == Head(todo)
  <2>2. CASE o \in DOMAIN txoSpent
    <3> DEFINE x == Told(o, "yes", txoSpent[o].tx, -1)
    <3>1. /\ items' = Append(items, x) /\ UNCHANGED todo
          /\ hash' = txoSpent[o].block /\ step' = "spentHeight"
      BY <1>8, <2>2 DEF ReadSpent, GoTo
    <3>2. txoSpent[o].tx \in Txs
      BY <2>2, SpendRecorded
    <3>3. x \in Answer /\ x.out = o /\ x.spent = "yes" /\ x.spender = txoSpent[o].tx
      BY <1>4, <2>1, <3>2 DEF Told, Answer
    <3> HIDE DEF x
    <3>4. /\ items' \in Seq(Answer) /\ Len(items') = Len(items) + 1
          /\ \A i \in 1..Len(items) : items'[i] = items[i]
          /\ items'[Len(items) + 1] = x
      BY <1>3, <3>1, <3>3
    <3>5. Complete = Len(items) /\ Complete' = Len(items)
      BY <1>3, <2>1, <3>1, <3>4 DEF Complete
    <3>6. o = Asked[Len(items) + 1]
      <4>1. 1 \in 1..Len(todo)
        BY <1>3, <2>1
      <4> QED
        BY <1>3, <3>5, <4>1 DEF SpendersSoFar
    <3>7. \A i \in 1..Len(items') : items'[i].out = Asked[i]
      <4>1. \A i \in 1..Len(items) : items'[i].out = Asked[i]
        BY <1>3, <3>4 DEF SpendersSoFar
      <4> QED
        BY <1>3, <3>3, <3>4, <3>6, <4>1
    <3>8. \A i \in 1..Len(items) : AnswerTrue(items'[i])
      BY <1>3, <3>4, <3>5 DEF SpendersSoFar
    <3>9. SpendersSoFar'
      BY <1>1, <1>3, <3>1, <3>4, <3>5, <3>7, <3>8 DEF SpendersSoFar, Asked, AnswerTrue
    <3> QED
      BY <1>1, <2>1, <2>2, <3>1, <3>3, <3>4, <3>9 DEF SpendersInv
  <2>3. CASE o \notin DOMAIN txoSpent
    <3>1. UNCHANGED <<todo, items>> /\ step' = "mempool"
      BY <1>8, <2>3 DEF ReadSpent, GoTo
    <3>2. SpendersSoFar'
      BY <1>1, <1>3, <2>1, <3>1 DEF SpendersSoFar, Asked, Complete, AnswerTrue
    <3> QED
      BY <1>1, <1>5, <2>1, <2>3, <3>1, <3>2 DEF SpendersInv
  <2> QED
    BY <2>2, <2>3
<1>9. CASE ReadSpentHeight
  <2> DEFINE o == Head(todo)
             n == Len(items)
  <2>1. /\ todo # <<>> /\ step = "spentHeight" /\ o \in DOMAIN txoSpent
        /\ hash = txoSpent[o].block
        /\ items[n].spent = "yes" /\ items[n].spender = txoSpent[o].tx
    BY <1>9 DEF ReadSpentHeight, SpendersInv
  <2>2. hash \in DOMAIN hashHeight /\ hashHeight[hash] = HeightOf[hash] /\ HeightOf[hash] \in Nat
    BY <2>1, SpendRecorded, ChainAssumption DEF Known, ServerInv, Base, Facts, KnownBlocks
  <2>3. /\ items' = [items EXCEPT ![n].height = HeightOf[hash]]
        /\ todo' = Tail(todo) /\ step' = "txBlock"
    BY <1>9, <2>2 DEF ReadSpentHeight, NextOutpoint, GoTo
  <2>4. Complete = n - 1 /\ n \in 1..n /\ n - 1 \in Nat
    BY <1>3, <2>1 DEF Complete, SpendersSoFar
  <2>5. items[n] \in Answer /\ items[n].out = o
    <3>1. items[n] \in Answer /\ items[n].out = Asked[n]
      BY <1>3, <2>4 DEF SpendersSoFar
    <3>2. 1 \in 1..Len(todo)
      BY <1>3, <2>1
    <3>3. o = Asked[Complete + 1]
      BY <1>3, <3>2 DEF SpendersSoFar
    <3>4. Complete + 1 = n
      BY <1>3, <2>4
    <3> QED
      BY <3>1, <3>3, <3>4
  <2> DEFINE x == [items[n] EXCEPT !.height = HeightOf[hash]]
  <2>6. /\ x \in Answer /\ x.out = o /\ x.spent = "yes" /\ x.spender = txoSpent[o].tx
        /\ x.height = HeightOf[hash]
    BY <2>1, <2>2, <2>5 DEF Answer
  <2> HIDE DEF x
  <2>7. /\ items' \in Seq(Answer) /\ Len(items') = n
        /\ \A i \in 1..(n - 1) : items'[i] = items[i]
        /\ items'[n] = x
    <3>1. items' = [items EXCEPT ![n] = x]
      BY <2>3 DEF x
    <3> QED
      BY <1>3, <2>4, <2>6, <3>1
  <2>8. AnswerTrue(x)
    BY <2>1, <2>6 DEF AnswerTrue
  <2>9. /\ Len(items') = Complete + 1 /\ items'[Complete + 1] = x
        /\ \A i \in 1..Complete : items'[i] = items[i]
    BY <1>3, <2>4, <2>7
  <2>10. SpendersSoFar'
    BY <1>1, <1>3, <2>1, <2>3, <2>6, <2>7, <2>8, <2>9, NextAnswer
  <2> QED
    BY <2>3, <2>10 DEF SpendersInv
<1>10. CASE ReadMempool
  <2>1. todo # <<>> /\ step = "mempool" /\ Head(todo) \notin before.spent
    BY <1>10 DEF ReadMempool, SpendersInv
  <2> DEFINE o == Head(todo)
  <2>2. todo' = Tail(todo) /\ step' = "txBlock"
    BY <1>10 DEF ReadMempool, NextOutpoint, GoTo
  <2>3. PICK x : /\ items' = Append(items, x)
                 /\ \/ x = Told(o, "no", NoBlock, -1) /\ MempoolSpenders(o) = {}
                    \/ x = Told(o, "", NoBlock, -1)
                    \/ \E t \in MempoolSpenders(o) : x = Told(o, "yes", t, 0)
    BY <1>10 DEF ReadMempool
  <2>4. MempoolSpenders(o) \subseteq Txs
    BY DEF MempoolSpenders, ServerInv, MempoolOK
  <2>5. o \in Outpoints /\ o \notin before.spent
    BY <1>4, <2>1
  <2> HIDE DEF o
  <2>6. ASSUME x = Told(o, "no", NoBlock, -1), MempoolSpenders(o) = {}
        PROVE  x \in Answer /\ x.out = o /\ AnswerTrue(x)
    BY <2>5, <2>6 DEF Told, Answer, AnswerTrue, MempoolSpenders
  <2>7. ASSUME x = Told(o, "", NoBlock, -1)
        PROVE  x \in Answer /\ x.out = o /\ AnswerTrue(x)
    BY <2>5, <2>7 DEF Told, Answer, AnswerTrue
  <2>8. ASSUME NEW t \in MempoolSpenders(o), x = Told(o, "yes", t, 0)
        PROVE  x \in Answer /\ x.out = o /\ AnswerTrue(x)
    BY <2>4, <2>5, <2>8 DEF Told, Answer, AnswerTrue
  <2>9. x \in Answer /\ x.out = o /\ AnswerTrue(x)
    BY <2>3, <2>6, <2>7, <2>8
  <2> QED
    BY <1>6, <2>1, <2>2, <2>3, <2>9 DEF o
<1>11. CASE EndOutpoints
  <2>1. UNCHANGED <<todo, items>> /\ step = "txBlock" /\ step' = "done" /\ todo = <<>>
    BY <1>11 DEF EndOutpoints, Finish, locals
  <2>2. SpendersSoFar'
    BY <1>1, <1>3, <2>1 DEF SpendersSoFar, Asked, Complete, AnswerTrue
  <2> QED
    BY <2>1, <2>2 DEF SpendersInv
<1> QED
  BY <1>2, <1>7, <1>8, <1>9, <1>10, <1>11
     DEF Handler, ReadHighest, ReadTxBlock, ReadHeight, ReadPosition, EndPositions,
         CountBlocks, ReadIds, ReadPage, ReadPart, ReadPartSpent, EndParts, TakeSnapshot,
         LookUpSpend, LookUpSpendOfTxo, ReadTxoTime, LookUpSpender, ReadPending,
         LookUpPending, EndOutputs, ListBlocks, ListByDate, ReadListedHeight, ReadInfo,
         EndList, AsksSpends

LEMMA SpendersWrites ==
    ASSUME TablesGrow, Undisturbed, SpendersInv, AsksSpends, ~torn,
           UNCHANGED <<op, arg, before, step, hash, todo, items>>
    PROVE  SpendersInv'
<1>1. before.spent \subseteq DOMAIN txoSpent
  BY DEF Undisturbed, AsksSpends
<1>2. \A o \in DOMAIN txoSpent : o \in DOMAIN txoSpent' /\ txoSpent'[o] = txoSpent[o]
  BY DEF TablesGrow, Extends
<1>3. before.mempool \cap mempool' \subseteq mempool
  BY DEF TablesGrow
<1>4. \A x : AnswerTrue(x) => AnswerTrue(x)'
  BY <1>1, <1>2, <1>3 DEF AnswerTrue
<1>5. SpendersSoFar'
  BY <1>4 DEF SpendersInv, SpendersSoFar, Asked, Complete, AnswerTrue
<1> QED
  BY <1>2, <1>5 DEF SpendersInv

\* outpointSpend and outpointSpends answer for every outpoint they are asked
\* for, in this order; for one that the chain had spent when the request came,
\* with its spender and the height of the spender's block; and for none that
\* it is unspent if its spender was in the mempool all the time.
THEOREM SpendersAnswered == Spec => []SpenderAnswered
<1>1. Init => SpendersInv
  BY DEF Init, SpendersInv, AsksSpends
<1>2. /\ ServerInv /\ ServerInv' /\ Undisturbed /\ SpentThen /\ SpendersInv
      /\ [Next]_serverVars
      => SpendersInv'
  <2> SUFFICES ASSUME ServerInv, ServerInv', Undisturbed, SpentThen, SpendersInv,
                      [Next]_serverVars, AsksSpends', ~torn'
               PROVE  SpendersInv'
    BY DEF SpendersInv
  <2>1. CASE Close
    BY <2>1 DEF Close, AsksSpends
  <2>2. ASSUME NEW o \in Operations, NEW x \in Arguments(o), Begin(o, x)
        PROVE  SpendersInv'
    <3>1. /\ op' = o /\ arg' = x /\ step' = "txBlock" /\ items' = <<>>
          /\ o \in {"outpointSpend", "outpointSpends"}
          /\ todo' = IF o = "outpointSpend" THEN <<x>> ELSE x
      BY <2>2 DEF Begin, FirstRead, AsksSpends, ServerInv, RequestOK
    <3>2. Asked' = todo' /\ todo' \in Seq(Outpoints)
      BY <3>1, ServerAssumption DEF Asked, Arguments
    <3>3. Complete' = 0 /\ items' \in Seq(Answer) /\ Len(items') = 0
      BY <3>1 DEF Complete
    <3>4. SpendersSoFar'
      BY <3>2, <3>3 DEF SpendersSoFar
    <3> QED
      BY <3>1, <3>4 DEF SpendersInv
  <2>3. CASE Handler
    <3>1. UNCHANGED <<op, torn>>
      BY <2>3, ReadsBetween
    <3> QED
      BY <2>3, <3>1, SpendersReads DEF AsksSpends
  <2>4. CASE Writes
    <3>1. op # "none"
      BY <2>4, WritesAside DEF handler, request, AsksSpends
    <3>2. ~torn /\ TablesGrow /\ UNCHANGED <<op, arg, step, hash, todo, items, before>>
      BY <2>4, <3>1, WritesBetween
    <3> QED
      BY <3>2, SpendersWrites DEF AsksSpends
  <2>5. CASE UNCHANGED serverVars
    BY <2>5 DEF serverVars, handler, request, locals, indexerVars, index, SpendersInv,
                SpendersSoFar, Asked, Complete, AnswerTrue, AsksSpends
  <2> QED
    BY <2>1, <2>2, <2>3, <2>4, <2>5 DEF Next, Writes
<1>3. ServerInv /\ SpentThen /\ SpendersInv => SpenderAnswered
  <2> SUFFICES ASSUME ServerInv, SpentThen, SpendersInv,
                      Answered("outpointSpend") \/ Answered("outpointSpends")
               PROVE  SpenderAnswered
    BY DEF SpenderAnswered
  <2>1. /\ step = "done" /\ AsksSpends /\ ~torn
    BY DEF Answered, ServerInv, RequestOK, AsksSpends
  <2>2. SpendersSoFar /\ todo = <<>> /\ Complete = Len(items)
    BY <2>1 DEF SpendersInv, Complete
  <2>3. /\ Len(items) \in Nat /\ DOMAIN items = 1..Len(items) /\ Len(items) = Len(Asked)
        /\ Asked \in Seq(Outpoints) /\ \A i \in 1..Len(items) : items[i].out = Asked[i]
    BY <2>2 DEF SpendersSoFar
  <2>4. [i \in DOMAIN items |-> items[i].out] = Asked
    BY <2>3
  <2>5. ASSUME NEW x \in Listed
        PROVE  /\ x.out \in before.spent =>
                     /\ x.spender = txoSpent[x.out].tx
                     /\ \E b \in before.recorded : HeightOf[b] = x.height
                                                  /\ x.spender \in TxsOf[b]
               /\ x.spent = "no" =>
                     \A t \in before.mempool \cap mempool : x.out \notin Takes[t]
    <3>1. AnswerTrue(x)
      BY <2>2, <2>3 DEF Listed, SpendersSoFar
    <3>2. x.out \in before.spent => /\ x.out \in DOMAIN txoSpent
                                   /\ txoSpent[x.out].block \in before.recorded
      BY <2>1 DEF SpentThen, AsksSpends
    <3> QED
      BY <3>1, <3>2, SpendRecorded DEF AnswerTrue
  <2> QED
    BY <2>4, <2>5 DEF SpenderAnswered, Asked
<1> QED
  BY <1>1, <1>2, <1>3, ServerAlways, UndisturbedAlways, SpentThenAlways, PTL DEF Spec

-----------------------------------------------------------------------------
(* getBlocks and getBlocksByDate.                                          *)

Item == [hash : Blocks, height : Nat]
Info == [hash : Blocks, height : Nat, time : Nat]

\* The time told of a block is that of the block recorded at its height.
ItemTrue(x) == /\ x.height = HeightOf[x.hash] /\ x.height \in DOMAIN blockAt
               /\ x.time = TimeOf[blockAt[x.height]]

\* The blocks listed and those still to be listed go down from "highestblock".
Downwards ==
    /\ Len(items) + Len(todo) # 0
    /\ \A i \in 1..Len(items) :
          /\ tip + 1 - i \in DOMAIN blockAt
          /\ items[i].hash = blockAt[tip + 1 - i] /\ items[i].height = tip + 1 - i
    /\ \A i \in 1..Len(todo) :
          LET h == tip + 1 - Len(items) - i
          IN  h \in DOMAIN blockAt /\ todo[i].hash = blockAt[h] /\ todo[i].height = h

ListSoFar ==
    /\ items \in Seq(Info) /\ todo \in Seq(Item)
    /\ \A i \in 1..Len(items) : ItemTrue(items[i])
    /\ \A i \in 1..Len(todo) : todo[i].hash \in Known
    /\ op = "getBlocks" => Downwards

AsksList == op \in {"getBlocks", "getBlocksByDate"}

ListInv ==
    AsksList /\ ~torn =>
        /\ step \in {"highest", "list", "range"} => items = <<>>
        /\ step \in {"info", "listed"} => ListSoFar
        /\ step = "info" /\ op = "getBlocksByDate" =>
              todo # <<>> /\ Head(todo).height = HeightOf[Head(todo).hash]
        /\ step = "done" /\ status = "ok" => ListSoFar /\ todo = <<>>

\* Below a recorded height all are recorded.
LEMMA RecordedBelow ==
    ASSUME ServerInv, Settled, NEW h \in DOMAIN blockAt, NEW g \in Nat, g <= h
    PROVE  g \in DOMAIN blockAt
<1>1. h \in Nat /\ highest \in Nat \cup {-1} /\ job.height \in Nat
  BY DEF ServerInv, Base, PlaceInv, TypeInv, TypeOK, IsTable
<1>2. h \in 0..highest /\ \A k \in 0..highest : k \in DOMAIN blockAt \/ k = job.height
  BY DEF ServerInv, Base, NoGap
<1> SUFFICES ASSUME g \notin DOMAIN blockAt PROVE FALSE
  OBVIOUS
<1>3. g = job.height /\ g + 1 \in 0..highest /\ g + 1 # job.height
  BY <1>1, <1>2
<1>4. g + 1 \in DOMAIN blockAt /\ g + 1 # 0 /\ g + 1 - 1 = g
  BY <1>1, <1>2, <1>3
<1> QED
  BY <1>4 DEF Settled

LEMMA ListReads ==
    ASSUME ServerInv, Undisturbed, ListInv, Handler, AsksList, ~torn
    PROVE  ListInv'
<1>1. UNCHANGED <<blockAt, hashHeight, timeHash, highest, op, arg, torn, before>>
  BY ReadsBetween
<1>2. step \in {"highest", "list", "range", "listed", "info", "done"}
  BY DEF ServerInv, RequestOK, OpsAt, AsksList
<1>3. /\ IsTable(blockAt, Nat, Blocks) /\ IsTable(timeHash, Nat, Blocks)
      /\ IsTable(hashHeight, Blocks, Nat)
      /\ \A h \in DOMAIN blockAt : blockAt[h] \in Blocks /\ HeightOf[blockAt[h]] = h
      /\ \A h \in DOMAIN blockAt : blockAt[h] \in Known
  BY DEF ServerInv, Base, PlaceInv, AtOwnHeight, TypeInv, TypeOK, IsTable, Range, Facts,
         KnownBlocks
<1>4. \A b \in Known : /\ b \in Blocks /\ hashHeight[b] = HeightOf[b]
                       /\ HeightOf[b] \in DOMAIN blockAt /\ HeightOf[b] \in Nat
  BY <1>3 DEF ServerInv, Base, Facts, KnownBlocks, Known, IsTable
<1>5. \A x : ItemTrue(x) => ItemTrue(x)'
  BY <1>1 DEF ItemTrue
<1>6. CASE ReadHighest
  BY <1>1, <1>6 DEF ReadHighest, ListInv, GoTo, Finish, AsksBlock, AsksList
<1>7. CASE ListBlocks
  <2>1. CASE tip \in DOMAIN blockAt
    <3> DEFINE n == IF tip < PageLimit THEN tip + 1 ELSE PageLimit
    <3>1. /\ todo' = [i \in 1..n |-> [hash |-> blockAt[tip + 1 - i], height |-> tip + 1 - i]]
          /\ step' = "info" /\ UNCHANGED <<items, tip>> /\ items = <<>> /\ op = "getBlocks"
      BY <1>7, <2>1 DEF ListBlocks, GoTo, ListInv, ServerInv, RequestOK, OpsAt
    <3>2. tip \in Nat /\ n \in Nat /\ n # 0 /\ n <= tip + 1
      BY <1>3, <2>1, ServerAssumption DEF IsTable
    <3> HIDE DEF n
    <3>3. ASSUME NEW i \in 1..n
          PROVE  /\ tip + 1 - i \in DOMAIN blockAt /\ tip + 1 - i \in Nat
                 /\ blockAt[tip + 1 - i] \in Known /\ blockAt[tip + 1 - i] \in Blocks
      <4>1. PICK h \in Nat : h = tip + 1 - i /\ h <= tip
        BY <3>2
      <4>2. h \in DOMAIN blockAt
        BY <2>1, <4>1, RecordedBelow DEF Undisturbed, AsksList
      <4> QED
        BY <1>3, <4>1, <4>2
    <3>4. todo' \in Seq(Item) /\ Len(todo') = n
      BY <3>1, <3>2, <3>3 DEF Item
    <3>5. items' \in Seq(Info) /\ Len(items') = 0
      BY <3>1
    <3>6. \A i \in 1..Len(todo') : todo'[i].hash \in Known'
      BY <1>1, <3>1, <3>3, <3>4 DEF Known
    <3>7. Downwards'
      <4>1. \A i \in 1..Len(todo') : tip' + 1 - Len(items') - i = tip + 1 - i
        BY <3>1, <3>2, <3>5
      <4>2. \A i \in 1..Len(todo') :
                /\ tip + 1 - i \in DOMAIN blockAt' /\ todo'[i].hash = blockAt'[tip + 1 - i]
                /\ todo'[i].height = tip + 1 - i
        BY <1>1, <3>1, <3>3, <3>4
      <4>3. Len(items') + Len(todo') # 0
        BY <3>2, <3>4, <3>5
      <4> QED
        BY <3>5, <4>1, <4>2, <4>3 DEF Downwards
    <3>8. ListSoFar'
      BY <3>4, <3>5, <3>6, <3>7 DEF ListSoFar
    <3> QED
      BY <1>1, <3>1, <3>8 DEF ListInv
  <2>2. CASE tip \notin DOMAIN blockAt
    BY <1>7, <2>2 DEF ListBlocks, Finish, ListInv
  <2> QED
    BY <2>1, <2>2
<1>8. CASE ListByDate
  <2> DEFINE times == Ascending(DOMAIN timeHash)
             n == Cardinality(DOMAIN timeHash)
  <2>1. /\ todo' = [i \in DOMAIN times |-> [hash |-> timeHash[times[i]], height |-> 0]]
        /\ step' = "listed" /\ UNCHANGED items /\ items = <<>> /\ op = "getBlocksByDate"
    BY <1>8 DEF ListByDate, GoTo, ListInv, ServerInv, RequestOK, OpsAt
  <2>2. Enumerates(times, DOMAIN timeHash)
    BY <1>3, AscendingEnumerates DEF ServerInv, Base, Facts, KnownBlocks, IsTable
  <2>3. n \in Nat /\ DOMAIN times = 1..n /\ \A i \in 1..n : times[i] \in DOMAIN timeHash
    BY <2>2 DEF Enumerates
  <2> HIDE DEF times, n
  <2>4. \A t \in DOMAIN timeHash : timeHash[t] \in Known /\ timeHash[t] \in Blocks
    BY <1>3 DEF ServerInv, Base, Facts, KnownBlocks, IsTable, Range
  <2>5. /\ todo' = [i \in 1..n |-> [hash |-> timeHash[times[i]], height |-> 0]]
        /\ \A i \in 1..n : timeHash[times[i]] \in Known /\ timeHash[times[i]] \in Blocks
    BY <2>1, <2>3, <2>4
  <2>6. todo' \in Seq(Item) /\ Len(todo') = n
    BY <2>3, <2>5 DEF Item
  <2>7. items' \in Seq(Info) /\ Len(items') = 0
    BY <2>1
  <2>8. ListSoFar'
    BY <1>1, <2>1, <2>5, <2>6, <2>7 DEF ListSoFar, Known
  <2> QED
    BY <2>1, <2>8 DEF ListInv
<1>9. CASE ReadListedHeight
  <2> DEFINE x == [hash |-> todo[1].hash, height |-> HeightOf[todo[1].hash]]
  <2>0. /\ todo # <<>> /\ ListSoFar /\ op = "getBlocksByDate"
        /\ todo' = [todo EXCEPT ![1].height = hashHeight[Head(todo).hash]]
        /\ step' = "info" /\ UNCHANGED items
    BY <1>9 DEF ReadListedHeight, ListInv, GoTo, ServerInv, RequestOK, OpsAt
  <2>1. /\ todo # <<>> /\ ListSoFar /\ op = "getBlocksByDate"
        /\ todo' = [todo EXCEPT ![1].height = hashHeight[todo[1].hash]]
        /\ step' = "info" /\ UNCHANGED items
    <3>1. todo \in Seq(Item) /\ Head(todo) = todo[1]
      BY <2>0 DEF ListSoFar
    <3> QED
      BY <2>0, <3>1
  <2>2. /\ todo \in Seq(Item) /\ items \in Seq(Info)
        /\ 1 \in 1..Len(todo) /\ todo[1] \in Item
    BY <2>1 DEF ListSoFar
  <2>3. todo[1].hash \in Known /\ hashHeight[todo[1].hash] = HeightOf[todo[1].hash]
    BY <1>4, <2>1, <2>2 DEF ListSoFar
  <2>4. x \in Item /\ [todo[1] EXCEPT !.height = HeightOf[todo[1].hash]] = x
    <3>1. todo[1].hash \in Blocks /\ HeightOf[todo[1].hash] \in Nat
      BY <1>4, <2>2, <2>3 DEF Item
    <3>2. \A y \in Item : \A k : [y EXCEPT !.height = k] = [hash |-> y.hash, height |-> k]
      BY DEF Item
    <3> QED
      BY <2>2, <3>1, <3>2 DEF Item
  <2>5. x.hash = todo[1].hash /\ x.height = HeightOf[x.hash]
    OBVIOUS
  <2> HIDE DEF x
  <2>6. todo' = [todo EXCEPT ![1] = x]
    BY <2>1, <2>3, <2>4
  <2>7. /\ todo' \in Seq(Item) /\ Len(todo') = Len(todo) /\ todo'[1] = x
        /\ \A i \in 1..Len(todo) : i # 1 => todo'[i] = todo[i]
    BY <2>2, <2>4, <2>6
  <2>8. \A i \in 1..Len(todo') : todo'[i].hash = todo[i].hash
    BY <2>2, <2>5, <2>7
  <2>9. ListSoFar'
    BY <1>1, <1>5, <2>1, <2>7, <2>8 DEF ListSoFar, Known
  <2>10. todo' # <<>> /\ Head(todo') = x
    BY <2>2, <2>7
  <2> QED
    BY <2>1, <2>5, <2>9, <2>10 DEF ListInv
<1>10. CASE ReadInfo
  <2> DEFINE h == Head(todo).height
             b == Head(todo).hash
             x == [hash |-> b, height |-> h, time |-> TimeOf[blockAt[h]]]
  <2>1. /\ todo # <<>> /\ ListSoFar
        /\ items' = Append(items, x) /\ todo' = Tail(todo) /\ UNCHANGED tip
        /\ step' = IF op = "getBlocks" THEN "info" ELSE "listed"
    BY <1>10 DEF ReadInfo, ListInv, GoTo
  <2>2. /\ todo \in Seq(Item) /\ items \in Seq(Info) /\ Len(todo) \in Nat /\ Len(items) \in Nat
        /\ 1 \in 1..Len(todo) /\ Head(todo) = todo[1] /\ Head(todo) \in Item
    BY <2>1 DEF ListSoFar
  <2>3. b \in Known
    BY <2>1, <2>2 DEF ListSoFar
  <2>4. op = "getBlocks" =>
            h = tip + 1 - Len(items) - 1 /\ h \in DOMAIN blockAt /\ b = blockAt[h]
    BY <2>1, <2>2 DEF ListSoFar, Downwards
  <2>5. h = HeightOf[b] /\ h \in DOMAIN blockAt
    <3>1. CASE op = "getBlocks"
      BY <1>3, <2>4, <3>1
    <3>2. CASE op = "getBlocksByDate"
      BY <1>4, <1>10, <2>3, <3>2 DEF ReadInfo, ListInv
    <3> QED
      BY <3>1, <3>2 DEF AsksList
  <2>6. x \in Info /\ ItemTrue(x) /\ x.hash = b /\ x.height = h
    BY <1>3, <2>2, <2>5, ChainAssumption DEF Item, Info, ItemTrue
  <2> HIDE DEF x, h, b
  <2>7. /\ items' \in Seq(Info) /\ Len(items') = Len(items) + 1
        /\ \A i \in 1..Len(items) : items'[i] = items[i]
        /\ items'[Len(items) + 1] = x
    BY <2>1, <2>2, <2>6
  <2>8. /\ todo' \in Seq(Item) /\ Len(todo') = Len(todo) - 1
        /\ \A i \in 1..Len(todo') : i + 1 \in 1..Len(todo) /\ todo'[i] = todo[i + 1]
    BY <2>1, <2>2
  <2>9. \A i \in 1..Len(items') : ItemTrue(items'[i])
    <3>1. ASSUME NEW i \in 1..Len(items) PROVE ItemTrue(items'[i])
      <4>1. ItemTrue(items[i]) /\ items'[i] = items[i]
        BY <2>1, <2>7 DEF ListSoFar
      <4> QED
        BY <4>1
    <3>2. \A i \in 1..Len(items') : i \in 1..Len(items) \/ i = Len(items) + 1
      BY <2>2, <2>7
    <3> QED
      BY <2>6, <2>7, <3>1, <3>2
  <2>10. \A i \in 1..Len(todo') : todo'[i].hash \in Known
    BY <2>1, <2>8 DEF ListSoFar
  <2>11. ASSUME op = "getBlocks" PROVE Downwards'
    <3>1. h = tip + 1 - (Len(items) + 1) /\ h \in DOMAIN blockAt /\ b = blockAt[h]
          /\ tip \in Int
      BY <2>2, <2>4, <2>11 DEF ServerInv, ReadOK
    <3>2. ASSUME NEW i \in 1..Len(items')
          PROVE  /\ tip + 1 - i \in DOMAIN blockAt
                 /\ items'[i].hash = blockAt[tip + 1 - i] /\ items'[i].height = tip + 1 - i
      <4>1. CASE i \in 1..Len(items)
        BY <2>1, <2>7, <2>11, <4>1 DEF ListSoFar, Downwards
      <4>2. CASE i = Len(items) + 1
        BY <2>6, <2>7, <3>1, <4>2
      <4> QED
        BY <2>2, <2>7, <4>1, <4>2
    <3>3. ASSUME NEW i \in 1..Len(todo'), NEW g, g = tip + 1 - Len(items') - i
          PROVE  g \in DOMAIN blockAt /\ todo'[i].hash = blockAt[g] /\ todo'[i].height = g
      <4>1. g = tip + 1 - Len(items) - (i + 1) /\ i + 1 \in 1..Len(todo)
        BY <2>2, <2>7, <2>8, <3>1, <3>3
      <4> QED
        BY <2>1, <2>8, <2>11, <4>1 DEF ListSoFar, Downwards
    <3>4. Len(items') + Len(todo') # 0
      BY <2>2, <2>7, <2>8
    <3> QED
      BY <1>1, <2>1, <3>2, <3>3, <3>4 DEF Downwards
  <2>12. ListSoFar'
    BY <1>1, <1>5, <2>7, <2>8, <2>9, <2>10, <2>11 DEF ListSoFar, Known, ItemTrue
  <2> QED
    BY <1>1, <2>1, <2>12 DEF ListInv, AsksList
<1>11. CASE EndList
  <2>1. UNCHANGED <<tip, todo, items>> /\ step' = "done" /\ todo = <<>> /\ ListSoFar
    BY <1>11 DEF EndList, Finish, locals, ListInv
  <2>2. ListSoFar'
    BY <1>1, <1>5, <2>1 DEF ListSoFar, Known, Downwards
  <2> QED
    BY <2>1, <2>2 DEF ListInv
<1> QED
  BY <1>2, <1>6, <1>7, <1>8, <1>9, <1>10, <1>11
     DEF Handler, ReadTxBlock, ReadHeight, ReadPosition, EndPositions, CountBlocks, ReadIds,
         ReadTxBlockOfOutput, ReadSpent, ReadSpentHeight, ReadMempool, EndOutpoints,
         ReadPage, ReadPart, ReadPartSpent, EndParts, TakeSnapshot, LookUpSpend,
         LookUpSpendOfTxo, ReadTxoTime, LookUpSpender, ReadPending, LookUpPending, EndOutputs

LEMMA ListWrites ==
    ASSUME TablesGrow, ListInv, AsksList, ~torn,
           UNCHANGED <<op, step, status, tip, todo, items>>
    PROVE  ListInv'
<1>1. \A h \in DOMAIN blockAt : h \in DOMAIN blockAt' /\ blockAt'[h] = blockAt[h]
  BY DEF TablesGrow, Extends
<1>2. Known \subseteq Known'
  BY DEF TablesGrow, Extends, Known
<1>3. \A x : ItemTrue(x) => ItemTrue(x)'
  BY <1>1 DEF ItemTrue
<1>4. Downwards => Downwards'
  BY <1>1 DEF Downwards
<1>5. ListSoFar => ListSoFar'
  BY <1>2, <1>3, <1>4 DEF ListSoFar, ItemTrue
<1> QED
  BY <1>5 DEF ListInv

\* The blocks listed are linked, from "highestblock" downwards, and what is
\* told of a listed block that is recorded is its own.
THEOREM ListsCorrect == Spec => []ListsConsistent
<1>1. Init => ListInv
  BY DEF Init, ListInv, AsksList
<1>2. ServerInv /\ ServerInv' /\ Undisturbed /\ ListInv /\ [Next]_serverVars => ListInv'
  <2> SUFFICES ASSUME ServerInv, ServerInv', Undisturbed, ListInv, [Next]_serverVars,
                      AsksList', ~torn'
               PROVE  ListInv'
    BY DEF ListInv
  <2>1. CASE Close
    BY <2>1 DEF Close, AsksList
  <2>2. ASSUME NEW o \in Operations, NEW x \in Arguments(o), Begin(o, x)
        PROVE  ListInv'
    BY <2>2 DEF Begin, ListInv, AsksList, FirstRead, ServerInv, RequestOK
  <2>3. CASE Handler
    <3>1. UNCHANGED <<op, torn>>
      BY <2>3, ReadsBetween
    <3> QED
      BY <2>3, <3>1, ListReads DEF AsksList
  <2>4. CASE Writes
    <3>1. op # "none"
      BY <2>4, WritesAside DEF handler, request, AsksList
    <3>2. ~torn /\ TablesGrow /\ UNCHANGED <<op, step, status, tip, todo, items>>
      BY <2>4, <3>1, WritesBetween
    <3> QED
      BY <3>2, ListWrites DEF AsksList
  <2>5. CASE UNCHANGED serverVars
    BY <2>5 DEF serverVars, handler, request, locals, indexerVars, index, ListInv, ListSoFar,
                Downwards, ItemTrue, Known, AsksList
  <2> QED
    BY <2>1, <2>2, <2>3, <2>4, <2>5 DEF Next, Writes
<1>3. ServerInv /\ Undisturbed /\ ListInv => ListsConsistent
  <2> SUFFICES ASSUME ServerInv, Undisturbed, ListInv,
                      Answered("getBlocks") \/ Answered("getBlocksByDate")
               PROVE  ListsConsistent
    BY DEF ListsConsistent
  <2>1. step = "done" /\ status = "ok" /\ AsksList /\ ~torn
    BY DEF Answered, ServerInv, RequestOK, AsksList
  <2>2. ListSoFar /\ todo = <<>> /\ Settled
    BY <2>1 DEF ListInv, Undisturbed, AsksList
  <2>3. Len(items) \in Nat /\ DOMAIN items = 1..Len(items) /\ Len(todo) = 0 /\ tip \in Int
    BY <2>2 DEF ListSoFar, ServerInv, ReadOK
  <2>4. ASSUME NEW i \in DOMAIN items, items[i].hash \in Intact
        PROVE  /\ items[i].height = HeightOf[items[i].hash]
               /\ items[i].time = TimeOf[items[i].hash]
    BY <2>2, <2>3, <2>4, RecordedBlock DEF ListSoFar, ItemTrue
  <2>5. ASSUME Answered("getBlocks")
        PROVE  /\ items[1].height = tip
               /\ \A i \in 1..(Len(items) - 1) : Prev[items[i].hash] = items[i + 1].hash
    <3>1. Downwards
      BY <2>2, <2>5 DEF ListSoFar, Answered
    <3>2. items[1].height = tip
      <4>1. 1 \in 1..Len(items)
        BY <2>3, <3>1 DEF Downwards
      <4>2. items[1].height = tip + 1 - 1
        BY <3>1, <4>1 DEF Downwards
      <4> QED
        BY <2>3, <4>2
    <3>3. ASSUME NEW i \in 1..(Len(items) - 1) PROVE Prev[items[i].hash] = items[i + 1].hash
      <4>1. i \in 1..Len(items) /\ i + 1 \in 1..Len(items)
        BY <2>3
      <4>2. PICK h : h = tip + 1 - i
        OBVIOUS
      <4>3. h \in DOMAIN blockAt /\ items[i].hash = blockAt[h]
        BY <3>1, <4>1, <4>2 DEF Downwards
      <4>4. tip + 1 - (i + 1) \in DOMAIN blockAt
            /\ items[i + 1].hash = blockAt[tip + 1 - (i + 1)]
        BY <3>1, <4>1 DEF Downwards
      <4>5. h - 1 = tip + 1 - (i + 1)
        BY <2>3, <4>2
      <4>6. h - 1 \in Nat /\ h # 0
        BY <2>3, <4>2, <4>4, <4>5 DEF ServerInv, Base, PlaceInv, TypeInv, TypeOK, IsTable
      <4>7. blockAt[h - 1] = Prev[blockAt[h]]
        BY <2>2, <4>3, <4>6 DEF Settled
      <4> QED
        BY <4>3, <4>4, <4>5, <4>7
    <3> QED
      BY <3>2, <3>3
  <2> QED
    BY <2>4, <2>5 DEF ListsConsistent
<1> QED
  BY <1>1, <1>2, <1>3, ServerAlways, UndisturbedAlways, PTL DEF Spec

-----------------------------------------------------------------------------
(* The outputs of an address.                                              *)

Txo == [out : Outpoints, time : Nat \cup {-1}, height : Nat \cup {-1},
        spender : Txs \cup {NoSpender}]

Outs(s) == {s[i].out : i \in 1..Len(s)}
DistinctOuts(s) == \A i, j \in 1..Len(s) : s[i].out = s[j].out => i = j

\* Block b gives output o to address a.
Pays(b, a, o) == \E c \in Range(Credits[b]) : c.out = o /\ c.address = a

LEMMA AppendOne ==
    ASSUME NEW S, NEW s \in Seq(S), NEW x \in S
    PROVE  /\ Append(s, x) \in Seq(S) /\ ToSet(Append(s, x)) = ToSet(s) \cup {x}
           /\ IsInjective(s) /\ x \notin ToSet(s) => IsInjective(Append(s, x))
<1> DEFINE t == Append(s, x)
           n == Len(s)
<1>1. /\ n \in Nat /\ DOMAIN s = 1..n /\ t \in Seq(S) /\ DOMAIN t = 1..(n + 1)
      /\ t[n + 1] = x /\ \A i \in 1..n : t[i] = s[i]
  OBVIOUS
<1> HIDE DEF t, n
<1>2. ToSet(t) = ToSet(s) \cup {x}
  <2>1. \A i \in 1..(n + 1) : i \in 1..n \/ i = n + 1
    BY <1>1
  <2>2. \A i \in 1..n : i \in 1..(n + 1)
    BY <1>1
  <2>3. n + 1 \in 1..(n + 1)
    BY <1>1
  <2> QED
    BY <1>1, <2>1, <2>2, <2>3 DEF ToSet
<1>3. ASSUME IsInjective(s), x \notin ToSet(s) PROVE IsInjective(t)
  BY <1>1, <1>3 DEF IsInjective, ToSet
<1> QED
  BY <1>1, <1>2, <1>3 DEF t

LEMMA TailOuts ==
    ASSUME NEW s \in Seq(Txo), s # <<>>, DistinctOuts(s)
    PROVE  /\ Head(s) \in Txo /\ Tail(s) \in Seq(Txo) /\ DistinctOuts(Tail(s))
           /\ Head(s).out \in Outs(s) /\ Outs(Tail(s)) = Outs(s) \ {Head(s).out}
<1> DEFINE t == Tail(s)
           n == Len(s)
<1>1. /\ n \in Nat /\ n > 0 /\ Head(s) = s[1] /\ s[1] \in Txo /\ t \in Seq(Txo)
      /\ Len(t) = n - 1 /\ \A i \in 1..(n - 1) : t[i] = s[i + 1]
  OBVIOUS
<1> HIDE DEF t, n
<1>2. DistinctOuts(t)
  <2> SUFFICES ASSUME NEW i \in 1..(n - 1), NEW j \in 1..(n - 1), t[i].out = t[j].out
               PROVE  i = j
    BY <1>1 DEF DistinctOuts
  <2>1. i + 1 \in 1..n /\ j + 1 \in 1..n /\ s[i + 1].out = s[j + 1].out
    BY <1>1
  <2>2. i + 1 = j + 1
    BY <2>1 DEF DistinctOuts, n
  <2> QED
    BY <2>2
<1>3. \A o : o \in Outs(t) <=> \E i \in 2..n : s[i].out = o
  <2>1. ASSUME NEW i \in 1..(n - 1) PROVE i + 1 \in 2..n /\ t[i] = s[i + 1]
    BY <1>1
  <2>2. ASSUME NEW i \in 2..n PROVE i - 1 \in 1..(n - 1) /\ t[i - 1] = s[i]
    <3>1. i - 1 \in 1..(n - 1) /\ (i - 1) + 1 = i
      BY <1>1
    <3> QED
      BY <1>1, <3>1
  <2>3. \A o : o \in Outs(t) <=> \E i \in 1..(n - 1) : t[i].out = o
    BY <1>1 DEF Outs
  <2> QED
    BY <2>1, <2>2, <2>3
<1>4. 1 \in 1..n /\ \A i \in 1..n : i = 1 \/ i \in 2..n
  BY <1>1
<1>5. \A i \in 2..n : i \in 1..n /\ s[i].out # s[1].out
  BY <1>1, <1>4 DEF DistinctOuts, n
<1>6. \A o : o \in Outs(s) <=> \E i \in 1..n : s[i].out = o
  BY DEF Outs, n
<1>7. Outs(t) = Outs(s) \ {s[1].out}
  BY <1>3, <1>4, <1>5, <1>6
<1> QED
  BY <1>1, <1>2, <1>4, <1>6, <1>7 DEF t

\* Some outputs of an address, in terms of the blocks.
LEMMA OutsOfPays ==
    ASSUME NEW a, NEW S
    PROVE  \A o : o \in OutsOf(a, S) <=> \E b \in S : Pays(b, a, o)
<1>1. \A b, r : r \in TxosOf(b) <=> \E c \in Range(Credits[b]) :
                 r = [address |-> c.address, out |-> c.out, height |-> HeightOf[b]]
  BY DEF TxosOf
<1>2. ASSUME NEW o, NEW b \in S, NEW c \in Range(Credits[b]), c.out = o, c.address = a
      PROVE  o \in OutsOf(a, S)
  <2> DEFINE r == [address |-> c.address, out |-> c.out, height |-> HeightOf[b]]
  <2>1. r \in TxosOf(b) /\ r.address = a /\ r.out = o
    BY <1>1, <1>2
  <2> HIDE DEF r
  <2> QED
    BY <2>1 DEF OutsOf
<1>3. ASSUME NEW o \in OutsOf(a, S) PROVE \E b \in S : Pays(b, a, o)
  <2>1. PICK b \in S : \E r \in TxosOf(b) : r.address = a /\ r.out = o
    BY DEF OutsOf
  <2>2. PICK r \in TxosOf(b) : r.address = a /\ r.out = o
    BY <2>1
  <2> QED
    BY <1>1, <2>2 DEF Pays
<1> QED
  BY <1>2, <1>3 DEF Pays

\* What a block pays it makes: in a transaction of its own.
LEMMA PaysMakes ==
    ASSUME NEW b \in Blocks, NEW a, NEW o, Pays(b, a, o)
    PROVE  o \in Outpoints /\ MadeBy[o] \in TxsOf[b]
<1>1. PICK c \in Range(Credits[b]) : c.out = o /\ c.address = a
  BY DEF Pays
<1>2. PICK t \in TxsOf[b] : c \in Makes[t]
  BY <1>1, ServerAssumption
<1>3. t \in Txs
  BY ContentsAssumption
<1>4. MadeBy[c.out] = t
  BY <1>2, <1>3, ServerAssumption
<1>5. c \in Credit
  BY <1>2, <1>3, ServerAssumption
<1> QED
  BY <1>1, <1>2, <1>4, <1>5 DEF Credit

\* The recorded blocks are one chain when no reorganisation is under way.
LEMMA SettledChain ==
    ASSUME ServerInv, Settled
    PROVE  /\ Intact = Range(blockAt) /\ Intact \in SUBSET Blocks /\ IsChain(Intact)
<1>1. Intact = Range(blockAt)
  BY SettledIntact DEF ServerInv
<1>2. /\ \A h \in DOMAIN blockAt :
            h \in Nat /\ blockAt[h] \in Blocks /\ HeightOf[blockAt[h]] = h
  BY DEF ServerInv, Base, PlaceInv, AtOwnHeight, TypeInv, TypeOK, IsTable, Range
<1>3. ASSUME NEW h \in DOMAIN blockAt PROVE Prev[blockAt[h]] \in Intact \cup {ZeroHash}
  <2>1. CASE h = 0
    <3>1. blockAt[h] \in Blocks /\ HeightOf[blockAt[h]] = 0
      BY <1>2, <2>1
    <3> QED
      BY <3>1, ChainAssumption
  <2>2. CASE h # 0
    BY <1>1, <2>2 DEF Settled, Range
  <2> QED
    BY <2>1, <2>2
<1> QED
  BY <1>1, <1>2, <1>3 DEF IsChain, Grounded, Range

\* An output is paid by one block of the chain only.
LEMMA PaidOnce ==
    ASSUME ServerInv, Settled, NEW b \in Intact, NEW c \in Intact, NEW a, NEW o,
           Pays(b, a, o), Pays(c, a, o)
    PROVE  b = c
<1>1. Intact \in SUBSET Blocks /\ IsChain(Intact)
  BY SettledChain
<1>2. MadeBy[o] \in TxsOf[b] \cap TxsOf[c]
  BY <1>1, PaysMakes
<1> QED
  BY <1>1, <1>2, ValidityAssumption

\* The snapshot for an address.
LEMMA TxosFoundAre ==
    ASSUME ServerInv, Settled, NEW a \in Addresses, NEW f, f = TxosFound(a)
    PROVE  /\ f \in Seq(Txo) /\ DistinctOuts(f)
           /\ \A i \in 1..Len(f) :
                 /\ f[i].spender = NoSpender
                 /\ \E b \in Intact : f[i].height = HeightOf[b] /\ Pays(b, a, f[i].out)
           /\ \A b \in Intact : \A o : Pays(b, a, o) => \E i \in 1..Len(f) : f[i].out = o
<1> DEFINE S == NumbersOf(a)
           n == Cardinality(S)
           num == Ascending(S)
<1>1. /\ IsFiniteSet(DOMAIN addressTxo) /\ DOMAIN addressTxo \subseteq Addresses \X Nat
      /\ \A k \in DOMAIN addressTxo : addressTxo[k] \in [out : Outpoints, height : Nat]
  BY DEF ServerInv, Base, PlaceInv, TypeInv, TypeOK, IsTable, Range
<1>2. \A x : x \in S <=> x \in Nat /\ <<a, x>> \in DOMAIN addressTxo
  <2>1. \A k \in DOMAIN addressTxo : k = <<k[1], k[2]>> /\ k[2] \in Nat
    BY <1>1
  <2>2. ASSUME NEW x \in S PROVE x \in Nat /\ <<a, x>> \in DOMAIN addressTxo
    BY <2>1 DEF NumbersOf
  <2>3. ASSUME NEW x, <<a, x>> \in DOMAIN addressTxo PROVE x \in S
    <3>1. <<a, x>>[1] = a /\ <<a, x>>[2] = x
      OBVIOUS
    <3> QED
      BY <2>3, <3>1, Zenon DEF NumbersOf
  <2> QED
    BY <2>2, <2>3
<1>3. IsFiniteSet(S)
  <2> DEFINE g == [x \in S |-> <<a, x>>]
  <2>1. g \in [S -> DOMAIN addressTxo]
    BY <1>2
  <2>2. \A x, y \in S : g[x] = g[y] => x = y
    OBVIOUS
  <2> HIDE DEF g, S
  <2>3. g \in Injection(S, DOMAIN addressTxo)
    BY <2>1, <2>2 DEF Injection, IsInjective
  <2> QED
    BY <1>1, <2>3, FS_Injection
<1>4. Enumerates(num, S)
  <2>1. S \in SUBSET Nat
    BY <1>2
  <2> HIDE DEF S
  <2> QED
    BY <1>3, <2>1, AscendingEnumerates
<1>5. /\ n \in Nat /\ DOMAIN num = 1..n /\ \A i \in 1..n : num[i] \in S
      /\ \A i, j \in 1..n : num[i] = num[j] => i = j
      /\ \A x \in S : \E i \in 1..n : num[i] = x
  BY <1>4 DEF Enumerates
<1>6. f = [i \in 1..n |-> TxoAt(a, num[i])]
  BY <1>5 DEF TxosFound
<1> HIDE DEF S, n, num
<1>7. ASSUME NEW i \in 1..n, NEW k, k = <<a, num[i]>>
      PROVE  /\ k \in DOMAIN addressTxo /\ k[1] = a
             /\ f[i] = [out |-> addressTxo[k].out, time |-> -1,
                        height |-> addressTxo[k].height, spender |-> NoSpender]
  BY <1>2, <1>5, <1>6, <1>7 DEF TxoAt
<1>8. ASSUME NEW i \in 1..n
      PROVE  /\ f[i] \in Txo /\ f[i].spender = NoSpender
             /\ \E b \in Intact : f[i].height = HeightOf[b] /\ Pays(b, a, f[i].out)
  <2>1. PICK k : k = <<a, num[i]>>
    OBVIOUS
  <2>2. /\ k \in DOMAIN addressTxo /\ k[1] = a
        /\ f[i] = [out |-> addressTxo[k].out, time |-> -1,
                   height |-> addressTxo[k].height, spender |-> NoSpender]
    BY <1>7, <2>1
  <2>3. PICK b \in Intact : RecordOf(k, b)
    BY <2>2 DEF ServerInv, Base, TxoInv, RecordsListed
  <2>4. addressTxo[k].height = HeightOf[b] /\ Pays(b, a, addressTxo[k].out)
    BY <2>2, <2>3 DEF RecordOf, Pays, Range
  <2>5. f[i] \in Txo
    BY <1>1, <2>2 DEF Txo
  <2> QED
    BY <2>2, <2>4, <2>5
<1>9. f \in Seq(Txo) /\ Len(f) = n
  BY <1>5, <1>6, <1>8
<1>10. DistinctOuts(f)
  <2> SUFFICES ASSUME NEW i \in 1..n, NEW j \in 1..n, f[i].out = f[j].out
               PROVE  i = j
    BY <1>9 DEF DistinctOuts
  <2>1. PICK k : k = <<a, num[i]>>
    OBVIOUS
  <2>2. PICK l : l = <<a, num[j]>>
    OBVIOUS
  <2>3. /\ k \in DOMAIN addressTxo /\ l \in DOMAIN addressTxo /\ k[1] = l[1]
        /\ f[i].out = addressTxo[k].out /\ f[i].height = addressTxo[k].height
        /\ f[j].out = addressTxo[l].out /\ f[j].height = addressTxo[l].height
    <3>1. /\ k \in DOMAIN addressTxo /\ k[1] = a
          /\ f[i] = [out |-> addressTxo[k].out, time |-> -1,
                     height |-> addressTxo[k].height, spender |-> NoSpender]
      BY <1>7, <2>1
    <3>2. /\ l \in DOMAIN addressTxo /\ l[1] = a
          /\ f[j] = [out |-> addressTxo[l].out, time |-> -1,
                     height |-> addressTxo[l].height, spender |-> NoSpender]
      BY <1>7, <2>2
    <3> QED
      BY <3>1, <3>2
  <2>4. f[i].height = f[j].height
    BY <1>8, PaidOnce
  <2>5. addressTxo[k] = addressTxo[l]
    <3>1. /\ addressTxo[k] \in [out : Outpoints, height : Nat]
          /\ addressTxo[l] \in [out : Outpoints, height : Nat]
      BY <1>1, <2>3
    <3>2. addressTxo[k].out = addressTxo[l].out /\ addressTxo[k].height = addressTxo[l].height
      BY <2>3, <2>4
    <3> QED
      BY <3>1, <3>2
  <2>6. k = l
    BY <2>3, <2>5 DEF ServerInv, Base, TxoInv, NoTxoTwice
  <2> QED
    BY <1>5, <2>1, <2>2, <2>6
<1>11. ASSUME NEW b \in Intact, NEW o, Pays(b, a, o)
       PROVE  \E i \in 1..n : f[i].out = o
  <2>1. PICK i \in DOMAIN Credits[b] : Credits[b][i].out = o /\ Credits[b][i].address = a
    BY <1>11 DEF Pays, Range
  <2>2. PICK k \in DOMAIN addressTxo :
           /\ k[1] = Credits[b][i].address
           /\ addressTxo[k] = [out |-> Credits[b][i].out, height |-> HeightOf[b]]
    BY DEF ServerInv, Base, TxoInv, CreditsStored
  <2>3. k = <<a, k[2]>> /\ k[2] \in S
    BY <1>1, <1>2, <2>1, <2>2
  <2>4. PICK j \in 1..n : num[j] = k[2]
    BY <1>5, <2>3
  <2>5. f[j] = [out |-> addressTxo[k].out, time |-> -1,
                height |-> addressTxo[k].height, spender |-> NoSpender]
    <3>1. k = <<a, num[j]>>
      BY <2>3, <2>4
    <3> QED
      BY <1>7, <3>1
  <2> QED
    BY <2>1, <2>2, <2>5
<1> QED
  BY <1>8, <1>9, <1>10, <1>11

\* What the mempool gives an address is finite and was not made by the chain.
LEMMA PendingOuts ==
    ASSUME ServerInv, NEW a
    PROVE  /\ IsFiniteSet(PendingTxos(a))
           /\ \A o \in PendingTxos(a) : o \in Outpoints /\ MadeBy[o] \in mempool
<1>1. mempool \subseteq Txs /\ IsFiniteSet(mempool)
  BY DEF ServerInv, MempoolOK
<1>2. \A o \in PendingTxos(a) : o \in Outpoints /\ MadeBy[o] \in mempool
  <2> SUFFICES ASSUME NEW o \in PendingTxos(a)
               PROVE  o \in Outpoints /\ MadeBy[o] \in mempool
    OBVIOUS
  <2>1. PICK t \in mempool : \E c \in Makes[t] : c.out = o
    BY DEF PendingTxos
  <2>2. PICK c \in Makes[t] : c.out = o
    BY <2>1
  <2>3. t \in Txs /\ MadeBy[c.out] = t /\ c \in Credit
    BY <1>1, ServerAssumption
  <2> QED
    BY <2>2, <2>3 DEF Credit
<1> DEFINE made == [t \in mempool |-> OutsMade(t)]
           S == {OutsMade(t) : t \in mempool}
<1>3. made \in Surjection(mempool, S)
  BY DEF Surjection
<1>4. \A T \in S : IsFiniteSet(T)
  BY <1>1, ServerAssumption DEF OutsMade
<1>5. PendingTxos(a) \in SUBSET UNION S
  BY <1>2 DEF OutsMade
<1> HIDE DEF made, S
<1>6. IsFiniteSet(UNION S)
  BY <1>1, <1>3, <1>4, FS_Surjection, FS_UNION
<1>7. IsFiniteSet(PendingTxos(a))
  BY <1>5, <1>6, FS_Subset
<1> QED
  BY <1>2, <1>7

\* What was pending when the mempool was read.
LEMMA PendingAre ==
    ASSUME ServerInv, Settled, NEW a, NEW p, p = SetToSeq(PendingTxos(a)), NEW f,
           f = [i \in DOMAIN p |-> [out |-> p[i], time |-> -1,
                                    height |-> -1, spender |-> NoSpender]]
    PROVE  /\ f \in Seq(Txo) /\ DistinctOuts(f)
           /\ \A i \in 1..Len(f) : f[i].height = -1 /\ f[i].spender = NoSpender
           /\ Outs(f) \cap OutsOf(a, Intact) = {}
<1> DEFINE S == PendingTxos(a)
           n == Cardinality(S)
<1>1. /\ IsFiniteSet(S)
      /\ \A o \in S : o \in Outpoints /\ MadeBy[o] \in mempool
  BY PendingOuts
<1>2. Enumerates(p, S)
  BY <1>1, SetToSeqEnumerates
<1> HIDE DEF S, n
<1>3. /\ n \in Nat /\ DOMAIN p = 1..n /\ \A i \in 1..n : p[i] \in S
      /\ \A i, j \in 1..n : p[i] = p[j] => i = j
  BY <1>2 DEF Enumerates, n
<1>4. f = [i \in 1..n |-> [out |-> p[i], time |-> -1, height |-> -1, spender |-> NoSpender]]
  BY <1>3
<1>5. ASSUME NEW i \in 1..n
      PROVE  /\ f[i] \in Txo /\ f[i].out = p[i] /\ f[i].height = -1
             /\ f[i].spender = NoSpender
  BY <1>1, <1>3, <1>4 DEF Txo
<1>6. f \in Seq(Txo) /\ Len(f) = n
  BY <1>3, <1>4, <1>5
<1>7. DistinctOuts(f)
  BY <1>3, <1>5, <1>6 DEF DistinctOuts
<1>8. ASSUME NEW o \in Outs(f), o \in OutsOf(a, Intact) PROVE FALSE
  <2>1. o \in S
    BY <1>3, <1>5, <1>6, <1>8 DEF Outs
  <2>2. PICK b \in Intact : Pays(b, a, o)
    BY <1>8, OutsOfPays
  <2>3. Intact = Range(blockAt) /\ Intact \in SUBSET Blocks
    BY SettledChain
  <2>4. MadeBy[o] \in TxsOf[b]
    BY <2>2, <2>3, PaysMakes
  <2>5. PICK h \in DOMAIN blockAt : blockAt[h] = b
    BY <2>3 DEF Range
  <2>6. Unrecorded(MadeBy[o])
    BY <1>1, <2>1 DEF ServerInv, MempoolOK
  <2> QED
    BY <2>4, <2>5, <2>6 DEF Unrecorded
<1> QED
  BY <1>5, <1>6, <1>7, <1>8

-----------------------------------------------------------------------------
(* addressBalance.                                                         *)

\* The outputs counted so far and those still to be looked at.  An output is
\* counted as confirmed only if it was not yet spent when the request came.
BalanceSoFar ==
    /\ items \in Seq(Outpoints) /\ IsInjective(items)
    /\ unconfirmed \in Seq(Outpoints) /\ IsInjective(unconfirmed)
    /\ todo \in Seq(Txo) /\ DistinctOuts(todo)
    /\ ToSet(items) \cap before.spent = {}
    /\ ToSet(items) \subseteq OutsOf(arg, Intact)
    /\ ToSet(unconfirmed) \cap Outs(todo) = {}

\* While the snapshot is gone through: each output of the chain is spent,
\* counted or still to come, and one of the latter is counted already only
\* when its spender is about to be looked for in the mempool.
BalanceOfSnapshot ==
    /\ OutsOf(arg, before.recorded)
       \subseteq DOMAIN txoSpent \cup ToSet(items) \cup Outs(todo)
    /\ Outs(todo) \cup ToSet(unconfirmed) \subseteq OutsOf(arg, Intact)
    /\ ToSet(items) \cap Outs(todo) = IF step = "spender" THEN {Head(todo).out} ELSE {}
    /\ step = "spender" => todo # <<>>

BalanceInv ==
    op = "addressBalance" /\ ~torn =>
        /\ step = "snapshot" => items = <<>> /\ unconfirmed = <<>>
        /\ step \in {"txo", "spender"} => BalanceSoFar /\ BalanceOfSnapshot
        /\ step = "pending" \/ (step = "done" /\ status = "ok") =>
              /\ BalanceSoFar
              /\ OutsOf(arg, before.recorded) \subseteq DOMAIN txoSpent \cup ToSet(items)

\* The next output goes into the unconfirmed balance or not.
LEMMA CountedNext ==
    ASSUME BalanceSoFar, todo # <<>>, CountUnlessSpent,
           UNCHANGED <<op, arg, before, items, blockAt, job>>
    PROVE  /\ BalanceSoFar'
           /\ Head(todo).out \in Outs(todo) /\ Outs(todo') = Outs(todo) \ {Head(todo).out}
           /\ ToSet(unconfirmed') \subseteq ToSet(unconfirmed) \cup {Head(todo).out}
<1> DEFINE o == Head(todo).out
<1>1. /\ Head(todo) \in Txo /\ todo' = Tail(todo) /\ todo' \in Seq(Txo)
      /\ DistinctOuts(todo') /\ o \in Outs(todo) /\ Outs(todo') = Outs(todo) \ {o}
  BY TailOuts DEF BalanceSoFar, CountUnlessSpent
<1>2. o \in Outpoints
  BY <1>1 DEF Txo
<1>3. unconfirmed' = Append(unconfirmed, o) \/ unconfirmed' = unconfirmed
  BY DEF CountUnlessSpent
<1> HIDE DEF o
<1>4. /\ unconfirmed \in Seq(Outpoints) /\ IsInjective(unconfirmed) /\ o \notin ToSet(unconfirmed)
  BY <1>1 DEF BalanceSoFar
<1>5. /\ unconfirmed' \in Seq(Outpoints) /\ IsInjective(unconfirmed')
      /\ ToSet(unconfirmed') \subseteq ToSet(unconfirmed) \cup {o}
  <2>1. CASE unconfirmed' = Append(unconfirmed, o)
    <3>1. /\ Append(unconfirmed, o) \in Seq(Outpoints)
          /\ ToSet(Append(unconfirmed, o)) = ToSet(unconfirmed) \cup {o}
          /\ IsInjective(Append(unconfirmed, o))
      BY <1>2, <1>4, AppendOne
    <3> QED
      BY <2>1, <3>1
  <2>2. CASE unconfirmed' = unconfirmed
    BY <1>4, <2>2
  <2> QED
    BY <1>3, <2>1, <2>2
<1>6. ToSet(unconfirmed') \cap Outs(todo') = {}
  BY <1>1, <1>5 DEF BalanceSoFar
<1>7. Intact' = Intact
  BY DEF Intact, Replacing
<1> QED
  BY <1>1, <1>5, <1>6, <1>7 DEF BalanceSoFar, o

LEMMA EmptyOuts ==
    ASSUME NEW s, s = <<>>
    PROVE  /\ s \in Seq(Outpoints) /\ IsInjective(s) /\ ToSet(s) = {} /\ Outs(s) = {}
           /\ s \in Seq(Txo) /\ DistinctOuts(s)
<1>1. Len(s) = 0 /\ DOMAIN s = {} /\ 1..0 = {}
  OBVIOUS
<1> QED
  BY <1>1 DEF IsInjective, ToSet, Outs, DistinctOuts

LEMMA BalanceReads ==
    ASSUME ServerInv, Undisturbed, BalanceInv, Handler, op = "addressBalance", ~torn
    PROVE  BalanceInv'
<1>1. UNCHANGED <<blockAt, job, txoSpent, mempool, op, arg, torn, before>>
  BY ReadsBetween
<1>2. /\ Settled /\ before.recorded \subseteq Intact /\ before.spent \subseteq DOMAIN txoSpent
      /\ Intact' = Intact /\ arg \in Addresses
  BY <1>1 DEF Undisturbed, Intact, Replacing, ServerInv, RequestOK, Arguments
<1>3. step \in {"snapshot", "txo", "spender", "pending", "done"}
  BY DEF ServerInv, RequestOK, OpsAt
<1>4. AskedAddress = arg
  BY DEF AskedAddress
<1>5. CASE TakeSnapshot
  <2>1. /\ todo' = TxosFound(arg) /\ UNCHANGED <<items, unconfirmed>> /\ step' = "txo"
        /\ items = <<>> /\ unconfirmed = <<>>
    BY <1>4, <1>5 DEF TakeSnapshot, GoTo, BalanceInv
  <2>2. /\ todo' \in Seq(Txo) /\ DistinctOuts(todo')
        /\ \A i \in 1..Len(todo') : \E b \in Intact : Pays(b, arg, todo'[i].out)
        /\ \A b \in Intact : \A o : Pays(b, arg, o) => \E i \in 1..Len(todo') : todo'[i].out = o
    BY <1>2, <2>1, TxosFoundAre
  <2>3. Outs(todo') = OutsOf(arg, Intact)
    <3>1. \A o : o \in OutsOf(arg, Intact) <=> \E b \in Intact : Pays(b, arg, o)
      BY OutsOfPays
    <3> QED
      BY <2>2, <3>1 DEF Outs
  <2>4. OutsOf(arg, before.recorded) \subseteq OutsOf(arg, Intact)
    BY <1>2 DEF OutsOf
  <2>5. BalanceSoFar'
    BY <1>1, <2>1, <2>2, EmptyOuts DEF BalanceSoFar
  <2>6. BalanceOfSnapshot'
    BY <1>1, <1>2, <2>1, <2>3, <2>4, EmptyOuts DEF BalanceOfSnapshot
  <2> QED
    BY <2>1, <2>5, <2>6 DEF BalanceInv
<1>6. CASE LookUpSpend
  <2> DEFINE o == Head(todo).out
  <2>1. /\ todo # <<>> /\ step = "txo" /\ BalanceSoFar /\ BalanceOfSnapshot
        /\ UNCHANGED unconfirmed
    BY <1>6 DEF LookUpSpend, BalanceInv
  <2>2. /\ Head(todo) \in Txo /\ Tail(todo) \in Seq(Txo) /\ DistinctOuts(Tail(todo))
        /\ o \in Outs(todo) /\ Outs(Tail(todo)) = Outs(todo) \ {o}
    BY <2>1, TailOuts DEF BalanceSoFar
  <2>3. CASE o \in DOMAIN txoSpent
    <3>1. todo' = Tail(todo) /\ UNCHANGED <<items, step, status>>
      BY <1>6, <2>3 DEF LookUpSpend
    <3>2. BalanceSoFar'
      BY <1>1, <1>2, <2>1, <2>2, <3>1 DEF BalanceSoFar
    <3>3. BalanceOfSnapshot'
      BY <1>1, <1>2, <2>1, <2>2, <2>3, <3>1 DEF BalanceOfSnapshot
    <3> QED
      BY <2>1, <3>1, <3>2, <3>3 DEF BalanceInv
  <2>4. CASE o \notin DOMAIN txoSpent
    <3>1. items' = Append(items, o) /\ todo' = todo /\ step' = "spender"
      BY <1>6, <2>4 DEF LookUpSpend, GoTo
    <3>2. /\ o \in Outpoints /\ o \notin ToSet(items) /\ o \notin before.spent
          /\ o \in OutsOf(arg, Intact)
      BY <1>2, <2>1, <2>2, <2>4 DEF BalanceOfSnapshot, Txo
    <3> HIDE DEF o
    <3>3. /\ items' \in Seq(Outpoints) /\ IsInjective(items')
          /\ ToSet(items') = ToSet(items) \cup {o}
      BY <2>1, <3>1, <3>2, AppendOne DEF BalanceSoFar
    <3>4. BalanceSoFar'
      BY <1>1, <1>2, <2>1, <3>1, <3>2, <3>3 DEF BalanceSoFar
    <3>5. BalanceOfSnapshot'
      <4>1. ToSet(items') \cap Outs(todo') = {o}
        BY <2>1, <2>2, <3>1, <3>3 DEF BalanceOfSnapshot
      <4>2. o = Head(todo').out
        BY <3>1 DEF o
      <4> QED
        BY <1>1, <1>2, <2>1, <3>1, <3>3, <4>1, <4>2 DEF BalanceOfSnapshot
    <3> QED
      BY <3>1, <3>4, <3>5 DEF BalanceInv
  <2> QED
    BY <2>3, <2>4
<1>7. CASE LookUpSpender
  <2>1. /\ todo # <<>> /\ step = "spender" /\ BalanceSoFar /\ BalanceOfSnapshot
        /\ CountUnlessSpent /\ UNCHANGED items /\ step' = "txo"
    BY <1>7 DEF LookUpSpender, BalanceInv, GoTo, BalanceOfSnapshot
  <2> DEFINE o == Head(todo).out
  <2>2. /\ BalanceSoFar' /\ o \in Outs(todo) /\ Outs(todo') = Outs(todo) \ {o}
        /\ ToSet(unconfirmed') \subseteq ToSet(unconfirmed) \cup {o}
    BY <1>1, <2>1, CountedNext
  <2>3. ToSet(items) \cap Outs(todo) = {o}
    BY <2>1 DEF BalanceOfSnapshot
  <2> HIDE DEF o
  <2>4. BalanceOfSnapshot'
    BY <1>1, <1>2, <2>1, <2>2, <2>3 DEF BalanceOfSnapshot
  <2> QED
    BY <2>1, <2>2, <2>4 DEF BalanceInv
<1>8. CASE ReadPending
  <2>1. /\ todo = <<>> /\ step = "txo" /\ BalanceSoFar /\ BalanceOfSnapshot
        /\ UNCHANGED <<items, unconfirmed>> /\ step' = "pending"
    BY <1>8 DEF ReadPending, BalanceInv, GoTo
  <2>2. /\ todo' \in Seq(Txo) /\ DistinctOuts(todo')
        /\ Outs(todo') \cap OutsOf(arg, Intact) = {}
    <3> DEFINE p == SetToSeq(PendingTxos(arg))
    <3>1. todo' = [i \in DOMAIN p |-> [out |-> p[i], time |-> -1,
                                       height |-> -1, spender |-> NoSpender]]
      BY <1>4, <1>8 DEF ReadPending
    <3> HIDE DEF p
    <3> QED
      BY <1>2, <3>1, PendingAre DEF p
  <2>3. BalanceSoFar'
    BY <1>1, <1>2, <2>1, <2>2 DEF BalanceSoFar, BalanceOfSnapshot
  <2>4. OutsOf(arg, before.recorded) \subseteq DOMAIN txoSpent \cup ToSet(items)
    BY <2>1, EmptyOuts DEF BalanceOfSnapshot
  <2> QED
    BY <1>1, <2>1, <2>3, <2>4 DEF BalanceInv
<1>9. CASE LookUpPending
  <2>1. /\ todo # <<>> /\ step = "pending" /\ BalanceSoFar
        /\ CountUnlessSpent /\ UNCHANGED <<items, step>>
        /\ OutsOf(arg, before.recorded) \subseteq DOMAIN txoSpent \cup ToSet(items)
    BY <1>9 DEF LookUpPending, BalanceInv
  <2>2. BalanceSoFar'
    BY <1>1, <2>1, CountedNext
  <2> QED
    BY <1>1, <2>1, <2>2 DEF BalanceInv
<1>10. CASE EndOutputs
  <2>1. /\ step = "pending" /\ step' = "done" /\ UNCHANGED <<items, unconfirmed, todo>>
    BY <1>10 DEF EndOutputs, Finish, locals
  <2>2. BalanceSoFar'
    BY <1>1, <1>2, <2>1 DEF BalanceSoFar, BalanceInv
  <2> QED
    BY <1>1, <2>1, <2>2 DEF BalanceInv
<1> QED
  BY <1>3, <1>5, <1>6, <1>7, <1>8, <1>9, <1>10
     DEF Handler, ReadHighest, ReadTxBlock, ReadHeight, ReadPosition, EndPositions,
         CountBlocks, ReadIds, ReadTxBlockOfOutput, ReadSpent, ReadSpentHeight, ReadMempool,
         EndOutpoints, ReadPage, ReadPart, ReadPartSpent, EndParts, LookUpSpendOfTxo,
         ReadTxoTime, ListBlocks, ListByDate, ReadListedHeight, ReadInfo, EndList

LEMMA BalanceWrites ==
    ASSUME TablesGrow, BalanceInv,
           UNCHANGED <<op, arg, torn, before, step, status, todo, items, unconfirmed>>
    PROVE  BalanceInv'
<1>1. DOMAIN txoSpent \subseteq DOMAIN txoSpent'
  BY DEF TablesGrow, Extends
<1>2. OutsOf(arg, Intact) \subseteq OutsOf(arg', Intact')
  BY DEF TablesGrow, OutsOf
<1>3. BalanceSoFar => BalanceSoFar'
  BY <1>2 DEF BalanceSoFar
<1>4. BalanceOfSnapshot => BalanceOfSnapshot'
  BY <1>1, <1>2 DEF BalanceOfSnapshot
<1> QED
  BY <1>1, <1>3, <1>4 DEF BalanceInv

LEMMA BalanceAlways == Spec => []BalanceInv
<1>1. Init => BalanceInv
  BY DEF Init, BalanceInv
<1>2. ServerInv /\ ServerInv' /\ Undisturbed /\ BalanceInv /\ [Next]_serverVars => BalanceInv'
  <2> SUFFICES ASSUME ServerInv, ServerInv', Undisturbed, BalanceInv, [Next]_serverVars,
                      op' = "addressBalance", ~torn'
               PROVE  BalanceInv'
    BY DEF BalanceInv
  <2>1. CASE Close
    BY <2>1 DEF Close
  <2>2. ASSUME NEW o \in Operations, NEW x \in Arguments(o), Begin(o, x)
        PROVE  BalanceInv'
    BY <2>2 DEF Begin, BalanceInv, FirstRead, ServerInv, RequestOK
  <2>3. CASE Handler
    BY <2>3, ReadsBetween, BalanceReads
  <2>4. CASE Writes
    <3>1. op # "none"
      BY <2>4, WritesAside DEF handler, request
    <3>2. /\ ~torn /\ torn \in BOOLEAN /\ torn' \in BOOLEAN /\ TablesGrow
          /\ UNCHANGED <<op, arg, step, status, todo, items, unconfirmed, before>>
      BY <2>4, <3>1, WritesBetween DEF ServerInv, RequestOK
    <3> QED
      BY <3>2, BalanceWrites
  <2>5. CASE UNCHANGED serverVars
    BY <2>5 DEF serverVars, handler, request, locals, indexerVars, index, BalanceInv,
                BalanceSoFar, BalanceOfSnapshot, Intact, Replacing
  <2> QED
    BY <2>1, <2>2, <2>3, <2>4, <2>5 DEF Next, Writes
<1> QED
  BY <1>1, <1>2, ServerAlways, UndisturbedAlways, PTL DEF Spec

LEMMA BalanceAnswered ==
    ASSUME ServerInv, BalanceInv, Answered("addressBalance")
    PROVE  /\ BalanceSoFar
           /\ OutsOf(arg, before.recorded) \subseteq DOMAIN txoSpent \cup ToSet(items)
BY DEF Answered, ServerInv, RequestOK, BalanceInv

\* The balance of an address counts every output of the chain that is not
\* spent, and none that was spent when the request came, although outputs
\* and spends are read at different moments.
THEOREM BalancesOfChain == Spec => []BalanceOfChain
<1>1. ServerInv /\ BalanceInv => BalanceOfChain
  BY BalanceAnswered DEF BalanceOfChain, BalanceSoFar
<1> QED
  BY <1>1, ServerAlways, BalanceAlways, PTL

\* A transaction that is indexed while its outputs are counted is not counted
\* as an unconfirmed one as well.
THEOREM OutputsCountedOnce == Spec => []CountedOnce
<1>1. ServerInv /\ BalanceInv => CountedOnce
  BY BalanceAnswered DEF CountedOnce, BalanceSoFar
<1> QED
  BY <1>1, ServerAlways, BalanceAlways, PTL

-----------------------------------------------------------------------------
(* addressTxos.                                                            *)

LEMMA AppendOut ==
    ASSUME NEW s \in Seq(Txo), DistinctOuts(s), NEW x \in Txo, x.out \notin Outs(s)
    PROVE  /\ Append(s, x) \in Seq(Txo) /\ DistinctOuts(Append(s, x))
           /\ Outs(Append(s, x)) = Outs(s) \cup {x.out}
           /\ ToSet(Append(s, x)) = ToSet(s) \cup {x}
<1> DEFINE t == Append(s, x)
           n == Len(s)
<1>1. /\ n \in Nat /\ Len(t) = n + 1 /\ t[n + 1] = x /\ \A i \in 1..n : t[i] = s[i]
      /\ \A i \in 1..(n + 1) : i \in 1..n \/ i = n + 1
      /\ \A i \in 1..n : i \in 1..(n + 1)
      /\ n + 1 \in 1..(n + 1)
  OBVIOUS
<1>2. Append(s, x) \in Seq(Txo) /\ ToSet(Append(s, x)) = ToSet(s) \cup {x}
  BY AppendOne
<1> HIDE DEF t, n
<1>3. DistinctOuts(t)
  BY <1>1 DEF DistinctOuts, Outs, n
<1>4. Outs(t) = Outs(s) \cup {x.out}
  <2>1. \A o : o \in Outs(t) <=> \E i \in 1..(n + 1) : t[i].out = o
    BY <1>1 DEF Outs
  <2>2. \A o : o \in Outs(s) <=> \E i \in 1..n : s[i].out = o
    BY DEF Outs, n
  <2> QED
    BY <1>1, <2>1, <2>2
<1> QED
  BY <1>2, <1>3, <1>4 DEF t

LEMMA TailElements ==
    ASSUME NEW s \in Seq(Txo), s # <<>>
    PROVE  ToSet(Tail(s)) \subseteq ToSet(s) /\ Head(s) \in ToSet(s)
<1> DEFINE t == Tail(s)
           n == Len(s)
<1>1. /\ n \in Nat /\ n > 0 /\ Head(s) = s[1] /\ DOMAIN s = 1..n
      /\ DOMAIN t = 1..(n - 1) /\ \A i \in 1..(n - 1) : t[i] = s[i + 1]
  OBVIOUS
<1> HIDE DEF t, n
<1>2. 1 \in 1..n /\ \A i \in 1..(n - 1) : i + 1 \in 1..n
  BY <1>1
<1>3. ToSet(t) \subseteq ToSet(s)
  BY <1>1, <1>2 DEF ToSet
<1>4. Head(s) \in ToSet(s)
  BY <1>1, <1>2 DEF ToSet
<1> QED
  BY <1>3, <1>4 DEF t

\* The first output of the loop, with more known of it.
LEMMA HeadReplaced ==
    ASSUME NEW s \in Seq(Txo), s # <<>>, DistinctOuts(s), NEW x \in Txo,
           x.out = Head(s).out, NEW t \in Seq(Txo), Len(t) = Len(s), t[1] = x,
           \A i \in 1..Len(s) : i # 1 => t[i] = s[i]
    PROVE  /\ t # <<>> /\ Head(t) = x /\ DistinctOuts(t)
           /\ Outs(t) = Outs(s) /\ ToSet(t) \subseteq ToSet(s) \cup {x}
<1> DEFINE n == Len(s)
<1>1. /\ n \in Nat /\ n > 0 /\ Head(s) = s[1] /\ DOMAIN s = 1..n /\ 1 \in 1..n
      /\ t \in Seq(Txo) /\ Len(t) = n /\ t[1] = x /\ DOMAIN t = 1..n
      /\ \A i \in 1..n : i # 1 => t[i] = s[i]
  OBVIOUS
<1>2. t # <<>> /\ Head(t) = x
  BY <1>1
<1> HIDE DEF n
<1>3. \A i \in 1..n : t[i].out = s[i].out
  BY <1>1
<1>4. DistinctOuts(t)
  BY <1>1, <1>3 DEF DistinctOuts, n
<1>5. Outs(t) = Outs(s)
  BY <1>1, <1>3 DEF Outs, n
<1>6. ToSet(t) \subseteq ToSet(s) \cup {x}
  BY <1>1 DEF ToSet
<1> QED
  BY <1>1, <1>2, <1>4, <1>5, <1>6

\* An output has a spender: in the index, in the mempool, or in the block that
\* is being written.
HasSpender(o) == \/ o \in DOMAIN txoSpent
                 \/ \E t \in mempool : o \in Takes[t]
                 \/ job.step = "batch" /\ \E t \in TxsOf[job.block] : o \in Takes[t]

\* Then it keeps one while no block is cleared.
LEMMA SpenderStays ==
    ASSUME ServerInv, Writes, ~Clear, NEW o, HasSpender(o)
    PROVE  HasSpender(o)'
<1>1. PlaceInv /\ TypeInv /\ TypeOK
  BY DEF ServerInv, Base, PlaceInv, TypeInv
<1>2. ASSUME NEW b \in Blocks, Index(b) PROVE HasSpender(o)'
  <2>1. UNCHANGED <<txoSpent, mempool>> /\ job.step = "idle"
    BY <1>2 DEF Index, CallIndexBlock, IndexBlock, index, Idle
  <2> QED
    BY <2>1 DEF HasSpender
<1>3. CASE Clear
  BY <1>3
<1>4. CASE BuildBatch
  <2>1. UNCHANGED <<txoSpent, mempool>> /\ job.step = "highest"
    BY <1>4 DEF BuildBatch, PutHighest
  <2> QED
    BY <2>1 DEF HasSpender
<1>5. CASE Batch
  <2> DEFINE b == job.block
  <2>1. /\ UNCHANGED mempool /\ b \in Blocks
        /\ DOMAIN txoSpent' = DOMAIN txoSpent \cup DOMAIN SpentRecords(b)
    BY <1>1, <1>5, BatchTables DEF Batch
  <2>2. ASSUME NEW t \in TxsOf[b], o \in Takes[t] PROVE o \in DOMAIN SpentRecords(b)
    <3> DEFINE d == [out |-> o, tx |-> t]
    <3>1. d \in [out : Takes[t], tx : {t}] /\ d.out = o
      BY <2>2
    <3> HIDE DEF d
    <3>2. d \in Range(Debits[b])
      BY <2>1, <3>1, ServerAssumption
    <3>3. DOMAIN Debits[b] = 1..Len(Debits[b])
      BY <2>1, ContentsTyped
    <3> QED
      BY <3>1, <3>2, <3>3 DEF SpentRecords, SpentOutpoints, Range
  <2> QED
    BY <2>1, <2>2 DEF HasSpender
<1>6. ASSUME NEW t \in Txs, transactionIndexed(t) PROVE HasSpender(o)'
  <2>1. /\ UNCHANGED <<txoSpent, job>> /\ mempool' = mempool \ {t}
        /\ job.step = "batch" /\ t \in TxsOf[job.block]
    BY <1>6 DEF transactionIndexed, indexerVars, index, ServerInv, MempoolOK
  <2> QED
    BY <2>1 DEF HasSpender
<1>7. ASSUME NEW t \in Txs, MonitorInserts(t) PROVE HasSpender(o)'
  BY <1>7 DEF MonitorInserts, indexerVars, index, HasSpender
<1> QED
  BY <1>2, <1>3, <1>4, <1>5, <1>6, <1>7 DEF Writes

\* The output was given to the address by block b.
AtBlock(x, b) == x.height = HeightOf[b] /\ Pays(b, arg.address, x.out)
Awaited(x) == \E b \in Intact : AtBlock(x, b)
Timed(x) == x.height >= arg.since /\ \E b \in Intact : AtBlock(x, b) /\ x.time = TimeOf[b]

\* What the answer says of an output is so.
TxoTrue(x) ==
    /\ x.height # -1 =>
          /\ Timed(x)
          /\ x.out \in before.spent => x.spender = txoSpent[x.out].tx /\ ~arg.unspent
    /\ x.spender = NoSpender => \A t \in before.mempool \cap mempool : x.out \notin Takes[t]

\* The output has to be in the answer, and it is or may be left out.
Due(o) == \E b \in before.recorded : Pays(b, arg.address, o) /\ HeightOf[b] >= arg.since
DueDone(o) == \/ \E x \in Listed : x.height # -1 /\ x.out = o
              \/ arg.unspent /\ HasSpender(o)

TxosSoFar ==
    /\ items \in Seq(Txo) /\ DistinctOuts(items)
    /\ todo \in Seq(Txo) /\ DistinctOuts(todo)
    /\ Outs(items) \cap Outs(todo) = {}
    /\ \A x \in Listed : TxoTrue(x)

\* While the snapshot is gone through.
TxosOfSnapshot ==
    /\ \A o : Due(o) => DueDone(o) \/ o \in Outs(todo)
    /\ \A x \in ToSet(todo) : Awaited(x)
    /\ \A x \in Listed : x.height # -1

\* The spend of the first output has been looked up; and its time, too.
SpendLookedUp ==
    /\ todo # <<>>
    /\ LET x == Head(todo)
       IN  IF x.spender = NoSpender THEN x.out \notin before.spent
           ELSE x.out \in DOMAIN txoSpent /\ x.spender = txoSpent[x.out].tx
Unspent ==
    /\ todo # <<>>
    /\ LET x == Head(todo)
       IN  x.spender = NoSpender /\ x.out \notin before.spent /\ Timed(x)

TxosOfMempool ==
    /\ \A o : Due(o) => DueDone(o)
    /\ \A x \in ToSet(todo) : x.height = -1

TxosInv ==
    op = "addressTxos" /\ ~torn =>
        /\ step = "snapshot" => items = <<>>
        /\ step \in {"txo", "time", "spender"} => TxosSoFar /\ TxosOfSnapshot
        /\ step = "time" => SpendLookedUp
        /\ step = "spender" => Unspent
        /\ step = "pending" \/ (step = "done" /\ status = "ok") => TxosSoFar /\ TxosOfMempool

\* The loop goes on to the next output: that is listed, or need not be.
LEMMA NextTxo ==
    ASSUME TxosSoFar, TxosOfSnapshot, todo # <<>>, todo' = Tail(todo),
           UNCHANGED <<op, arg, before, blockAt, job, mempool, txoSpent>>,
           \/ /\ items' = items
              /\ Due(Head(todo).out) => arg.unspent /\ HasSpender(Head(todo).out)
           \/ \E x \in Txo : /\ items' = Append(items, x) /\ x.out = Head(todo).out
                             /\ x.height # -1 /\ TxoTrue(x)
    PROVE  TxosSoFar' /\ TxosOfSnapshot'
<1>0. PICK o : o = Head(todo).out
  OBVIOUS
<1>1. /\ todo' \in Seq(Txo) /\ DistinctOuts(todo') /\ o \in Outs(todo)
      /\ Outs(todo') = Outs(todo) \ {o} /\ ToSet(todo') \subseteq ToSet(todo)
  BY <1>0, TailOuts, TailElements DEF TxosSoFar
<1>2. Intact' = Intact
  BY DEF Intact, Replacing
<1>3. /\ \A x : TxoTrue(x) => TxoTrue(x)'
      /\ \A x : Awaited(x) => Awaited(x)'
      /\ \A p : HasSpender(p) => HasSpender(p)'
      /\ \A p : Due(p)' => Due(p)
  BY <1>2 DEF TxoTrue, Timed, AtBlock, Awaited, HasSpender, Due
<1>4. CASE items' = items /\ (Due(o) => arg.unspent /\ HasSpender(o))
  <2>1. Listed' = Listed
    BY <1>4 DEF Listed
  <2>2. \A p : DueDone(p) => DueDone(p)'
    BY <1>3, <2>1 DEF DueDone
  <2>3. Due(o) => DueDone(o)'
    BY <1>3, <1>4 DEF DueDone
  <2>4. TxosSoFar'
    BY <1>1, <1>3, <1>4, <2>1 DEF TxosSoFar
  <2>5. TxosOfSnapshot'
    BY <1>1, <1>3, <2>1, <2>2, <2>3 DEF TxosOfSnapshot
  <2> QED
    BY <2>4, <2>5
<1>5. ASSUME NEW x \in Txo, items' = Append(items, x), x.out = o, x.height # -1, TxoTrue(x)
      PROVE  TxosSoFar' /\ TxosOfSnapshot'
  <2>1. /\ items' \in Seq(Txo) /\ DistinctOuts(items')
        /\ Outs(items') = Outs(items) \cup {o} /\ ToSet(items') = ToSet(items) \cup {x}
    <3>1. items \in Seq(Txo) /\ DistinctOuts(items) /\ x.out \notin Outs(items)
      BY <1>1, <1>5 DEF TxosSoFar
    <3>2. /\ Append(items, x) \in Seq(Txo) /\ DistinctOuts(Append(items, x))
          /\ Outs(Append(items, x)) = Outs(items) \cup {x.out}
          /\ ToSet(Append(items, x)) = ToSet(items) \cup {x}
      BY <3>1, AppendOut
    <3> QED
      BY <1>5, <3>2
  <2>2. Listed' = Listed \cup {x}
    BY <2>1 DEF Listed, ToSet
  <2>3. \A p : DueDone(p) => DueDone(p)'
    BY <1>3, <2>2 DEF DueDone
  <2>4. DueDone(o)'
    BY <1>5, <2>2 DEF DueDone
  <2>5. TxosSoFar'
    BY <1>1, <1>3, <1>5, <2>1, <2>2 DEF TxosSoFar
  <2>6. TxosOfSnapshot'
    BY <1>1, <1>3, <1>5, <2>2, <2>3, <2>4 DEF TxosOfSnapshot
  <2> QED
    BY <2>5, <2>6
<1> QED
  BY <1>0, <1>4, <1>5

\* What is known of the first output and of the request.
LEMMA FirstTxo ==
    ASSUME ServerInv, Undisturbed, op = "addressTxos", ~torn,
           TxosSoFar, TxosOfSnapshot, todo # <<>>
    PROVE  /\ Head(todo) \in Txo /\ Awaited(Head(todo)) /\ Head(todo).height \in Nat
           /\ blockAt[Head(todo).height] \in Blocks
           /\ AtBlock(Head(todo), blockAt[Head(todo).height])
           /\ blockAt[Head(todo).height] \in Intact
           /\ Due(Head(todo).out) => Head(todo).height >= arg.since
<1>0. PICK x : x = Head(todo)
  OBVIOUS
<1>1. x \in Txo /\ Awaited(x)
  BY <1>0, TailOuts, TailElements DEF TxosSoFar, TxosOfSnapshot
<1>2. PICK b \in Intact : AtBlock(x, b)
  BY <1>1 DEF Awaited
<1>3. b \in Blocks /\ blockAt[x.height] = b /\ x.height \in Nat
  <2>1. b \in Blocks /\ blockAt[HeightOf[b]] = b
    BY RecordedBlock
  <2>2. HeightOf[b] \in Nat
    BY <2>1, ChainAssumption
  <2> QED
    BY <1>2, <2>1, <2>2 DEF AtBlock
<1>4. ASSUME NEW c \in before.recorded, Pays(c, arg.address, x.out) PROVE c = b
  <2>1. c \in Intact /\ Settled
    BY DEF Undisturbed
  <2>2. Pays(b, arg.address, x.out)
    BY <1>2 DEF AtBlock
  <2> QED
    BY <1>4, <2>1, <2>2, PaidOnce
<1>5. Due(x.out) => x.height >= arg.since
  BY <1>2, <1>4 DEF Due, AtBlock
<1> QED
  BY <1>0, <1>1, <1>2, <1>3, <1>5

LEMMA TxosReads ==
    ASSUME ServerInv, Undisturbed, TxosInv, Handler, op = "addressTxos", ~torn
    PROVE  TxosInv'
<1>1. UNCHANGED <<blockAt, job, txoSpent, mempool, op, arg, torn, before>>
  BY ReadsBetween
<1>2. /\ Settled /\ before.recorded \subseteq Intact /\ before.spent \subseteq DOMAIN txoSpent
      /\ Intact' = Intact
  BY <1>1 DEF Undisturbed, Intact, Replacing
<1>3. step \in {"snapshot", "txo", "time", "spender", "pending", "done"}
  BY DEF ServerInv, RequestOK, OpsAt
<1>4. AskedAddress = arg.address /\ arg.address \in Addresses /\ arg.since \in Nat
  BY ServerAssumption DEF AskedAddress, ServerInv, RequestOK, Arguments
<1>5. /\ mempool \subseteq Txs /\ NoSpender \notin Txs
      /\ \A o \in DOMAIN txoSpent : txoSpent[o].tx \in Txs
  BY SpendRecorded, ServerAssumption DEF ServerInv, MempoolOK, NoSpender
<1>6. /\ \A x : TxoTrue(x) => TxoTrue(x)'
      /\ \A x : Awaited(x) => Awaited(x)'
      /\ \A x : Timed(x) => Timed(x)'
      /\ \A p : HasSpender(p) => HasSpender(p)'
      /\ \A p : Due(p)' => Due(p)
  BY <1>1, <1>2 DEF TxoTrue, Timed, AtBlock, Awaited, HasSpender, Due
<1>7. Listed' = Listed => \A p : DueDone(p) => DueDone(p)'
  BY <1>1, <1>6 DEF DueDone
<1>8. CASE TakeSnapshot
  <2>1. /\ todo' = TxosFound(arg.address) /\ UNCHANGED items /\ step' = "txo" /\ items = <<>>
    BY <1>4, <1>8 DEF TakeSnapshot, GoTo, TxosInv
  <2>2. /\ todo' \in Seq(Txo) /\ DistinctOuts(todo')
        /\ \A i \in 1..Len(todo') :
              \E b \in Intact : todo'[i].height = HeightOf[b] /\ Pays(b, arg.address, todo'[i].out)
        /\ \A b \in Intact : \A o : Pays(b, arg.address, o)
              => \E i \in 1..Len(todo') : todo'[i].out = o
    <3>1. PICK f : f = todo' /\ f = TxosFound(arg.address)
      BY <2>1
    <3>2. /\ f \in Seq(Txo) /\ DistinctOuts(f)
          /\ \A i \in 1..Len(f) :
                \E b \in Intact : f[i].height = HeightOf[b] /\ Pays(b, arg.address, f[i].out)
          /\ \A b \in Intact : \A o : Pays(b, arg.address, o)
                => \E i \in 1..Len(f) : f[i].out = o
      BY <1>2, <1>4, <3>1, TxosFoundAre
    <3> QED
      BY <3>1, <3>2
  <2>3. DOMAIN todo' = 1..Len(todo')
    BY <2>2
  <2>4. items' \in Seq(Txo) /\ DistinctOuts(items') /\ Outs(items') = {} /\ Listed' = {}
    BY <2>1, EmptyOuts DEF Listed, ToSet
  <2>5. \A x \in ToSet(todo') : Awaited(x)'
    <3>1. \A x \in ToSet(todo') : Awaited(x)
      BY <2>2, <2>3 DEF ToSet, Awaited, AtBlock
    <3> QED
      BY <1>6, <3>1
  <2>6. \A o : Due(o)' => o \in Outs(todo')
    BY <1>2, <1>6, <2>2 DEF Due, Outs
  <2>7. TxosSoFar'
    BY <2>2, <2>4 DEF TxosSoFar
  <2>8. TxosOfSnapshot'
    BY <2>4, <2>5, <2>6 DEF TxosOfSnapshot
  <2> QED
    BY <2>1, <2>7, <2>8 DEF TxosInv
<1>9. CASE LookUpSpendOfTxo
  <2>1. /\ todo # <<>> /\ TxosSoFar /\ TxosOfSnapshot /\ UNCHANGED items /\ step' = "time"
    BY <1>9 DEF LookUpSpendOfTxo, TxosInv, GoTo
  <2>2. PICK y : y = Head(todo)
    OBVIOUS
  <2>3. y \in Txo /\ Awaited(y) /\ y \in ToSet(todo)
    BY <2>1, <2>2, FirstTxo, TailElements DEF TxosSoFar
  <2>4. PICK v : v = IF y.out \in DOMAIN txoSpent THEN txoSpent[y.out].tx ELSE NoSpender
    OBVIOUS
  <2>5. PICK x : x = [y EXCEPT !.spender = v]
    OBVIOUS
  <2>6. /\ x \in Txo /\ x.out = y.out /\ x.spender = v /\ x.height = y.height
    BY <1>5, <2>3, <2>4, <2>5 DEF Txo
  <2>7. todo' = [todo EXCEPT ![1] = x]
    <3>1. todo' = [todo EXCEPT ![1].spender = v]
      BY <1>9, <2>2, <2>4 DEF LookUpSpendOfTxo
    <3>2. Head(todo) = todo[1]
      BY <2>1 DEF TxosSoFar
    <3> QED
      BY <2>2, <2>5, <3>1, <3>2
  <2>8. /\ todo' \in Seq(Txo) /\ todo' # <<>> /\ Head(todo') = x /\ DistinctOuts(todo')
        /\ Outs(todo') = Outs(todo) /\ ToSet(todo') \subseteq ToSet(todo) \cup {x}
    <3>1. todo \in Seq(Txo) /\ DistinctOuts(todo) /\ x.out = Head(todo).out
      BY <2>1, <2>2, <2>6 DEF TxosSoFar
    <3>2. /\ todo' \in Seq(Txo) /\ Len(todo') = Len(todo) /\ todo'[1] = x
          /\ \A i \in 1..Len(todo) : i # 1 => todo'[i] = todo[i]
      BY <2>1, <2>6, <2>7, <3>1
    <3> QED
      BY <2>1, <2>6, <3>1, <3>2, HeadReplaced
  <2>9. Awaited(x)
    BY <2>3, <2>6 DEF Awaited, AtBlock
  <2>10. Listed' = Listed
    BY <2>1 DEF Listed
  <2>11. TxosSoFar'
    BY <1>6, <2>1, <2>8, <2>10 DEF TxosSoFar
  <2>12. TxosOfSnapshot'
    BY <1>6, <1>7, <2>1, <2>8, <2>9, <2>10 DEF TxosOfSnapshot
  <2>13. SpendLookedUp'
    BY <1>1, <1>2, <1>5, <2>4, <2>6, <2>8 DEF SpendLookedUp
  <2> QED
    BY <2>1, <2>11, <2>12, <2>13 DEF TxosInv
<1>10. CASE ReadTxoTime
  <2>1. /\ todo # <<>> /\ TxosSoFar /\ TxosOfSnapshot /\ SpendLookedUp
    BY <1>10 DEF ReadTxoTime, TxosInv, SpendLookedUp
  <2>2. PICK y : y = Head(todo)
    OBVIOUS
  <2>3. PICK b : b = blockAt[y.height]
    OBVIOUS
  <2>4. /\ y \in Txo /\ Awaited(y) /\ y.height \in Nat /\ b \in Blocks /\ AtBlock(y, b)
        /\ b \in Intact /\ (Due(y.out) => y.height >= arg.since)
    BY <2>1, <2>2, <2>3, FirstTxo
  <2>5. PICK x : x = [y EXCEPT !.time = TimeOf[b]]
    OBVIOUS
  <2>6. /\ x \in Txo /\ x.out = y.out /\ x.spender = y.spender /\ x.height = y.height
        /\ x.time = TimeOf[b] /\ Awaited(x)
    <3>1. TimeOf[b] \in Nat
      BY <2>4, ChainAssumption
    <3>2. /\ x \in Txo /\ x.out = y.out /\ x.spender = y.spender /\ x.height = y.height
          /\ x.time = TimeOf[b]
      BY <2>4, <2>5, <3>1 DEF Txo
    <3> QED
      BY <2>4, <3>2 DEF Awaited, AtBlock
  <2>7. \/ /\ x.height < arg.since
           /\ todo' = Tail(todo) /\ step' = "txo" /\ UNCHANGED items
        \/ /\ ~(x.height < arg.since) /\ x.spender = NoSpender
           /\ todo' = [todo EXCEPT ![1] = x] /\ step' = "spender" /\ UNCHANGED items
        \/ /\ ~(x.height < arg.since) /\ x.spender # NoSpender /\ ListTxo(x)
    BY <1>10, <2>2, <2>3, <2>5 DEF ReadTxoTime, GoTo
  <2>8. CASE x.height < arg.since /\ todo' = Tail(todo) /\ step' = "txo" /\ UNCHANGED items
    <3>1. ~Due(y.out)
      BY <1>4, <2>4, <2>6, <2>8
    <3>2. TxosSoFar' /\ TxosOfSnapshot'
      BY <1>1, <2>1, <2>2, <2>8, <3>1, NextTxo
    <3> QED
      BY <2>8, <3>2 DEF TxosInv
  <2>9. ASSUME ~(x.height < arg.since) PROVE Timed(x)
    BY <1>4, <2>4, <2>6, <2>9 DEF Timed, AtBlock
  <2>10. CASE /\ ~(x.height < arg.since) /\ x.spender = NoSpender
              /\ todo' = [todo EXCEPT ![1] = x] /\ step' = "spender" /\ UNCHANGED items
    <3>1. /\ todo' \in Seq(Txo) /\ todo' # <<>> /\ Head(todo') = x /\ DistinctOuts(todo')
          /\ Outs(todo') = Outs(todo) /\ ToSet(todo') \subseteq ToSet(todo) \cup {x}
      <4>1. todo \in Seq(Txo) /\ DistinctOuts(todo) /\ x.out = Head(todo).out
        BY <2>1, <2>2, <2>6 DEF TxosSoFar
      <4>2. /\ todo' \in Seq(Txo) /\ Len(todo') = Len(todo) /\ todo'[1] = x
            /\ \A i \in 1..Len(todo) : i # 1 => todo'[i] = todo[i]
        BY <2>1, <2>6, <2>10, <4>1
      <4> QED
        BY <2>1, <2>6, <4>1, <4>2, HeadReplaced
    <3>2. Listed' = Listed
      BY <2>10 DEF Listed
    <3>3. TxosSoFar'
      BY <1>6, <2>1, <2>10, <3>1, <3>2 DEF TxosSoFar
    <3>4. TxosOfSnapshot'
      BY <1>6, <1>7, <2>1, <2>6, <3>1, <3>2 DEF TxosOfSnapshot
    <3>5. x.out \notin before.spent
      BY <2>1, <2>2, <2>6, <2>10 DEF SpendLookedUp
    <3>6. Unspent'
      BY <1>1, <1>6, <2>9, <2>10, <3>1, <3>5 DEF Unspent
    <3> QED
      BY <2>10, <3>3, <3>4, <3>6 DEF TxosInv
  <2>11. CASE ~(x.height < arg.since) /\ x.spender # NoSpender /\ ListTxo(x)
    <3>1. x.out \in DOMAIN txoSpent /\ x.spender = txoSpent[x.out].tx
      BY <2>1, <2>2, <2>6, <2>11 DEF SpendLookedUp
    <3>2. /\ todo' = Tail(todo) /\ step' = "txo"
          /\ items' = IF arg.unspent THEN items ELSE Append(items, x)
      BY <2>11 DEF ListTxo, GoTo
    <3>3. CASE arg.unspent
      <4>1. items' = items /\ HasSpender(y.out)
        BY <2>6, <3>1, <3>2, <3>3 DEF HasSpender
      <4>2. TxosSoFar' /\ TxosOfSnapshot'
        BY <1>1, <2>1, <2>2, <3>2, <3>3, <4>1, NextTxo
      <4> QED
        BY <3>2, <4>2 DEF TxosInv
    <3>4. CASE ~arg.unspent
      <4>1. TxoTrue(x)
        BY <2>9, <2>11, <3>1, <3>4 DEF TxoTrue
      <4>2. items' = Append(items, x) /\ x.height # -1 /\ x.out = Head(todo).out
        BY <2>2, <2>4, <2>6, <3>2, <3>4
      <4>3. TxosSoFar' /\ TxosOfSnapshot'
        BY <1>1, <2>1, <2>6, <3>2, <4>1, <4>2, NextTxo
      <4> QED
        BY <3>2, <4>3 DEF TxosInv
    <3> QED
      BY <3>3, <3>4
  <2> QED
    BY <2>7, <2>8, <2>10, <2>11
<1>11. CASE LookUpSpender
  <2>1. /\ todo # <<>> /\ TxosSoFar /\ TxosOfSnapshot /\ Unspent
    BY <1>11 DEF LookUpSpender, TxosInv, Unspent
  <2>2. PICK y : y = Head(todo)
    OBVIOUS
  <2>3. /\ y \in Txo /\ y.height # -1 /\ y.spender = NoSpender /\ y.out \notin before.spent
        /\ Timed(y)
    BY <2>1, <2>2, FirstTxo DEF Unspent
  <2>4. PICK x \in WithMempoolSpender(y) : ListTxo(x)
    BY <1>11, <2>2 DEF LookUpSpender
  <2>5. \/ x = y /\ MempoolSpenders(y.out) = {}
        \/ \E t \in MempoolSpenders(y.out) : x = [y EXCEPT !.spender = t]
    BY <2>4 DEF WithMempoolSpender
  <2>6. /\ x \in Txo /\ x.out = y.out /\ x.height = y.height /\ x.time = y.time
        /\ x.spender # NoSpender => HasSpender(x.out)
        /\ x.spender = NoSpender => MempoolSpenders(x.out) = {}
    <3>1. CASE x = y /\ MempoolSpenders(y.out) = {}
      BY <2>3, <3>1
    <3>2. ASSUME NEW t \in MempoolSpenders(y.out), x = [y EXCEPT !.spender = t]
          PROVE  /\ x \in Txo /\ x.out = y.out /\ x.height = y.height /\ x.time = y.time
                 /\ x.spender # NoSpender /\ HasSpender(x.out)
      <4>1. t \in mempool /\ t \in Txs /\ y.out \in Takes[t] /\ t # NoSpender
        BY <1>5, <3>2 DEF MempoolSpenders
      <4>2. /\ x \in Txo /\ x.out = y.out /\ x.height = y.height /\ x.time = y.time
            /\ x.spender = t
        BY <2>3, <3>2, <4>1 DEF Txo
      <4> QED
        BY <4>1, <4>2 DEF HasSpender
    <3> QED
      BY <2>5, <3>1, <3>2
  <2>7. /\ todo' = Tail(todo) /\ step' = "txo"
        /\ items' = IF arg.unspent /\ x.spender # NoSpender THEN items ELSE Append(items, x)
    BY <2>4 DEF ListTxo, GoTo
  <2>8. CASE arg.unspent /\ x.spender # NoSpender
    <3>1. items' = items /\ HasSpender(Head(todo).out)
      BY <2>2, <2>6, <2>7, <2>8
    <3>2. TxosSoFar' /\ TxosOfSnapshot'
      BY <1>1, <2>1, <2>7, <2>8, <3>1, NextTxo
    <3> QED
      BY <2>7, <3>2 DEF TxosInv
  <2>9. CASE ~(arg.unspent /\ x.spender # NoSpender)
    <3>1. Timed(x)
      BY <2>3, <2>6 DEF Timed, AtBlock
    <3>2. x.spender = NoSpender => \A t \in before.mempool \cap mempool : x.out \notin Takes[t]
      BY <2>6 DEF MempoolSpenders
    <3>3. TxoTrue(x)
      BY <2>3, <2>6, <3>1, <3>2 DEF TxoTrue
    <3>4. items' = Append(items, x) /\ x.height # -1 /\ x.out = Head(todo).out
      BY <2>2, <2>3, <2>6, <2>7, <2>9
    <3>5. TxosSoFar' /\ TxosOfSnapshot'
      BY <1>1, <2>1, <2>6, <2>7, <3>3, <3>4, NextTxo
    <3> QED
      BY <2>7, <3>5 DEF TxosInv
  <2> QED
    BY <2>8, <2>9
<1>12. CASE ReadPending
  <2>1. /\ todo = <<>> /\ TxosSoFar /\ TxosOfSnapshot /\ UNCHANGED items /\ step' = "pending"
    BY <1>12 DEF ReadPending, TxosInv, GoTo
  <2>2. /\ todo' \in Seq(Txo) /\ DistinctOuts(todo')
        /\ \A i \in 1..Len(todo') : todo'[i].height = -1
        /\ Outs(todo') \cap OutsOf(arg.address, Intact) = {}
    <3> DEFINE p == SetToSeq(PendingTxos(arg.address))
    <3>1. todo' = [i \in DOMAIN p |-> [out |-> p[i], time |-> -1,
                                       height |-> -1, spender |-> NoSpender]]
      BY <1>4, <1>12 DEF ReadPending
    <3> HIDE DEF p
    <3> QED
      BY <1>2, <3>1, PendingAre DEF p
  <2>3. DOMAIN todo' = 1..Len(todo')
    BY <2>2
  <2>4. Outs(items) \subseteq OutsOf(arg.address, Intact)
    <3> SUFFICES ASSUME NEW i \in 1..Len(items) PROVE items[i].out \in OutsOf(arg.address, Intact)
      BY DEF Outs
    <3>1. i \in DOMAIN items
      BY <2>1 DEF TxosSoFar
    <3>2. items[i] \in Listed
      BY <3>1 DEF Listed
    <3>3. Timed(items[i])
      BY <2>1, <3>2 DEF TxosSoFar, TxosOfSnapshot, TxoTrue
    <3> QED
      BY <3>3, OutsOfPays DEF Timed, AtBlock
  <2>5. Listed' = Listed
    BY <2>1 DEF Listed
  <2>6. TxosSoFar'
    BY <1>6, <2>1, <2>2, <2>4, <2>5 DEF TxosSoFar
  <2>7. TxosOfMempool'
    <3>1. \A o : Due(o) => DueDone(o)
      BY <2>1, EmptyOuts DEF TxosOfSnapshot
    <3>2. \A x \in ToSet(todo') : x.height = -1
      BY <2>2, <2>3 DEF ToSet
    <3> QED
      BY <1>6, <1>7, <2>5, <3>1, <3>2 DEF TxosOfMempool
  <2> QED
    BY <2>1, <2>6, <2>7 DEF TxosInv
<1>13. CASE LookUpPending
  <2>1. /\ todo # <<>> /\ TxosSoFar /\ TxosOfMempool /\ step = "pending"
        /\ todo' = Tail(todo) /\ UNCHANGED step
    BY <1>13 DEF LookUpPending, TxosInv
  <2>2. PICK y : y = Head(todo)
    OBVIOUS
  <2>3. /\ y \in Txo /\ y.height = -1 /\ y.out \in Outs(todo)
        /\ todo' \in Seq(Txo) /\ DistinctOuts(todo') /\ Outs(todo') = Outs(todo) \ {y.out}
        /\ ToSet(todo') \subseteq ToSet(todo)
    BY <2>1, <2>2, TailOuts, TailElements DEF TxosSoFar, TxosOfMempool
  <2>4. PICK x \in WithMempoolSpender(y) : items' = Append(items, x)
    BY <1>13, <2>2 DEF LookUpPending
  <2>5. x \in Txo /\ x.out = y.out /\ x.height = -1 /\ TxoTrue(x)
    <3>1. CASE x = y /\ MempoolSpenders(y.out) = {}
      BY <2>3, <3>1 DEF TxoTrue, MempoolSpenders
    <3>2. ASSUME NEW t \in MempoolSpenders(y.out), x = [y EXCEPT !.spender = t]
          PROVE  x \in Txo /\ x.out = y.out /\ x.height = -1 /\ TxoTrue(x)
      <4>1. t \in Txs /\ t # NoSpender
        BY <1>5, <3>2 DEF MempoolSpenders
      <4>2. x \in Txo /\ x.out = y.out /\ x.height = -1 /\ x.spender = t
        BY <2>3, <3>2, <4>1 DEF Txo
      <4> QED
        BY <4>1, <4>2 DEF TxoTrue
    <3> QED
      BY <2>4, <3>1, <3>2 DEF WithMempoolSpender
  <2>6. /\ items' \in Seq(Txo) /\ DistinctOuts(items')
        /\ Outs(items') = Outs(items) \cup {y.out} /\ ToSet(items') = ToSet(items) \cup {x}
    <3>1. items \in Seq(Txo) /\ DistinctOuts(items) /\ x.out \notin Outs(items)
      BY <2>1, <2>3, <2>5 DEF TxosSoFar
    <3>2. /\ Append(items, x) \in Seq(Txo) /\ DistinctOuts(Append(items, x))
          /\ Outs(Append(items, x)) = Outs(items) \cup {x.out}
          /\ ToSet(Append(items, x)) = ToSet(items) \cup {x}
      BY <2>5, <3>1, AppendOut
    <3> QED
      BY <2>4, <2>5, <3>2
  <2>7. Listed' = Listed \cup {x}
    BY <2>6 DEF Listed, ToSet
  <2>8. \A p : DueDone(p) => DueDone(p)'
    BY <1>1, <1>6, <2>7 DEF DueDone
  <2>9. TxosSoFar'
    BY <1>6, <2>1, <2>3, <2>5, <2>6, <2>7 DEF TxosSoFar
  <2>10. TxosOfMempool'
    BY <1>6, <2>1, <2>3, <2>8 DEF TxosOfMempool
  <2> QED
    BY <2>1, <2>9, <2>10 DEF TxosInv
<1>14. CASE EndOutputs
  <2>1. /\ step = "pending" /\ step' = "done" /\ UNCHANGED <<items, todo>>
    BY <1>14 DEF EndOutputs, Finish, locals
  <2>2. Listed' = Listed
    BY <2>1 DEF Listed
  <2>3. TxosSoFar'
    BY <1>6, <2>1, <2>2 DEF TxosSoFar, TxosInv
  <2>4. TxosOfMempool'
    BY <1>6, <1>7, <2>1, <2>2 DEF TxosOfMempool, TxosInv
  <2> QED
    BY <2>1, <2>3, <2>4 DEF TxosInv
<1> QED
  BY <1>3, <1>8, <1>9, <1>10, <1>11, <1>12, <1>13, <1>14
     DEF Handler, ReadHighest, ReadTxBlock, ReadHeight, ReadPosition, EndPositions,
         CountBlocks, ReadIds, ReadTxBlockOfOutput, ReadSpent, ReadSpentHeight, ReadMempool,
         EndOutpoints, ReadPage, ReadPart, ReadPartSpent, EndParts, LookUpSpend,
         ListBlocks, ListByDate, ReadListedHeight, ReadInfo, EndList

LEMMA TxosWrites ==
    ASSUME ServerInv, Undisturbed, Writes, ~Clear, TablesGrow, TxosInv,
           op = "addressTxos", ~torn,
           UNCHANGED <<op, arg, torn, before, step, status, todo, items>>
    PROVE  TxosInv'
<1>1. before.spent \subseteq DOMAIN txoSpent
  BY DEF Undisturbed
<1>2. /\ \A o \in DOMAIN txoSpent : o \in DOMAIN txoSpent' /\ txoSpent'[o] = txoSpent[o]
      /\ Intact \subseteq Intact' /\ before.mempool \cap mempool' \subseteq mempool
  BY DEF TablesGrow, Extends
<1>3. /\ \A x : Timed(x) => Timed(x)'
      /\ \A x : Awaited(x) => Awaited(x)'
  BY <1>2 DEF Timed, AtBlock, Awaited
<1>4. \A x : TxoTrue(x) => TxoTrue(x)'
  BY <1>1, <1>2, <1>3 DEF TxoTrue
<1>5. Listed' = Listed
  BY DEF Listed
<1>6. \A o : HasSpender(o) => HasSpender(o)'
  BY SpenderStays
<1>7. \A o : /\ Due(o)' => Due(o)
             /\ DueDone(o) => DueDone(o)'
  BY <1>5, <1>6 DEF Due, DueDone
<1>8. TxosSoFar => TxosSoFar'
  BY <1>4, <1>5 DEF TxosSoFar
<1>9. TxosOfSnapshot => TxosOfSnapshot'
  BY <1>3, <1>5, <1>7 DEF TxosOfSnapshot
<1>10. TxosOfMempool => TxosOfMempool'
  BY <1>7 DEF TxosOfMempool
<1>11. SpendLookedUp => SpendLookedUp'
  BY <1>2 DEF SpendLookedUp
<1>12. Unspent => Unspent'
  BY <1>3 DEF Unspent
<1> QED
  BY <1>8, <1>9, <1>10, <1>11, <1>12 DEF TxosInv

LEMMA TxosAlways == Spec => []TxosInv
<1>1. Init => TxosInv
  BY DEF Init, TxosInv
<1>2. ServerInv /\ ServerInv' /\ Undisturbed /\ TxosInv /\ [Next]_serverVars => TxosInv'
  <2> SUFFICES ASSUME ServerInv, ServerInv', Undisturbed, TxosInv, [Next]_serverVars,
                      op' = "addressTxos", ~torn'
               PROVE  TxosInv'
    BY DEF TxosInv
  <2>1. CASE Close
    BY <2>1 DEF Close
  <2>2. ASSUME NEW o \in Operations, NEW x \in Arguments(o), Begin(o, x)
        PROVE  TxosInv'
    BY <2>2 DEF Begin, TxosInv, FirstRead, ServerInv, RequestOK
  <2>3. CASE Handler
    BY <2>3, ReadsBetween, TxosReads
  <2>4. CASE Writes
    <3>1. op # "none" /\ op = "addressTxos"
      BY <2>4, WritesAside DEF handler, request
    <3>2. /\ ~torn /\ torn \in BOOLEAN /\ torn' \in BOOLEAN /\ TablesGrow
          /\ UNCHANGED <<op, arg, step, status, todo, items, before>>
      BY <2>4, <3>1, WritesBetween DEF ServerInv, RequestOK
    <3>3. ~Clear
      BY <3>1 DEF Clear
    <3> QED
      BY <2>4, <3>1, <3>2, <3>3, TxosWrites
  <2>5. CASE UNCHANGED serverVars
    <3>1. UNCHANGED <<op, arg, torn, before, step, status, todo, items, blockAt, job, txoSpent,
                      mempool>>
      BY <2>5 DEF serverVars, handler, request, locals, indexerVars, index
    <3>2. Intact' = Intact /\ Listed' = Listed
      BY <3>1 DEF Intact, Replacing, Listed
    <3>3. /\ \A x : /\ TxoTrue(x) => TxoTrue(x)'
                    /\ Awaited(x) => Awaited(x)'
                    /\ Timed(x) => Timed(x)'
          /\ \A o : /\ HasSpender(o) => HasSpender(o)'
                    /\ Due(o)' => Due(o)
      BY <3>1, <3>2 DEF TxoTrue, Timed, AtBlock, Awaited, HasSpender, Due
    <3>4. \A o : DueDone(o) => DueDone(o)'
      BY <3>1, <3>2, <3>3 DEF DueDone
    <3> QED
      BY <3>1, <3>2, <3>3, <3>4
         DEF TxosInv, TxosSoFar, TxosOfSnapshot, TxosOfMempool, SpendLookedUp, Unspent
  <2> QED
    BY <2>1, <2>2, <2>3, <2>4, <2>5 DEF Next, Writes
<1> QED
  BY <1>1, <1>2, ServerAlways, UndisturbedAlways, PTL DEF Spec

LEMMA TxosAnswered ==
    ASSUME ServerInv, TxosInv, Answered("addressTxos")
    PROVE  TxosSoFar /\ TxosOfMempool
BY DEF Answered, ServerInv, RequestOK, TxosInv

\* The outputs listed for an address are those that the chain gave it from the
\* height asked for, each once, with the height and the time of its block; one
\* that the chain had spent when the request came has its spender, and so has
\* one whose spender was in the mempool from the request to the answer.  If
\* only the unspent ones were asked for, none is left out that is not spent.
THEOREM TxosListed == Spec => []TxosOfChain
<1>1. ServerInv /\ TxosInv => TxosOfChain
  <2> SUFFICES ASSUME ServerInv, TxosInv, Answered("addressTxos") PROVE TxosOfChain
    BY DEF TxosOfChain
  <2>1. TxosSoFar /\ TxosOfMempool
    BY TxosAnswered
  <2>2. DOMAIN items = 1..Len(items)
    BY <2>1 DEF TxosSoFar
  <2>3. IsInjective([i \in DOMAIN items |-> items[i].out])
    BY <2>1, <2>2 DEF TxosSoFar, DistinctOuts, IsInjective
  <2>4. ASSUME NEW r \in UNION {TxosOf(b) : b \in before.recorded},
               r.address = arg.address, r.height >= arg.since
        PROVE  Due(r.out)
    <3>1. PICK b \in before.recorded : r \in TxosOf(b)
      OBVIOUS
    <3>2. PICK c \in Range(Credits[b]) :
             r = [address |-> c.address, out |-> c.out, height |-> HeightOf[b]]
      BY <3>1 DEF TxosOf
    <3>3. c.out = r.out /\ c.address = arg.address /\ HeightOf[b] >= arg.since
      BY <2>4, <3>2
    <3> QED
      BY <3>3 DEF Due, Pays
  <2>5. ASSUME NEW x \in Listed, x.height # -1
        PROVE  /\ x.height >= arg.since
               /\ \E b \in Intact : x.height = HeightOf[b] /\ x.time = TimeOf[b]
                                  /\ x.out \in OutsOf(arg.address, {b})
               /\ x.out \in before.spent =>
                     x.spender = txoSpent[x.out].tx /\ ~arg.unspent
    <3>1. Timed(x) /\ (x.out \in before.spent => x.spender = txoSpent[x.out].tx /\ ~arg.unspent)
      BY <2>1, <2>5 DEF TxosSoFar, TxoTrue
    <3>2. PICK b \in Intact : AtBlock(x, b) /\ x.time = TimeOf[b]
      BY <3>1 DEF Timed
    <3>3. x.out \in OutsOf(arg.address, {b})
      BY <3>2, OutsOfPays DEF AtBlock
    <3> QED
      BY <3>1, <3>2, <3>3 DEF Timed, AtBlock
  <2>6. ASSUME NEW o, HasSpender(o)
        PROVE  LET mined == IF job.step = "batch" THEN TxsOf[job.block] ELSE {}
               IN  \/ o \in DOMAIN txoSpent
                   \/ \E t \in mempool \cup mined : o \in Takes[t]
    BY <2>6 DEF HasSpender
  <2>7. \A x \in Listed : x.spender = NoSpender =>
           \A t \in before.mempool \cap mempool : x.out \notin Takes[t]
    BY <2>1 DEF TxosSoFar, TxoTrue
  <2>8. ASSUME NEW r \in UNION {TxosOf(b) : b \in before.recorded},
               r.address = arg.address, r.height >= arg.since
        PROVE  \/ \E x \in {y \in Listed : y.height # -1} : x.out = r.out
               \/ arg.unspent /\ HasSpender(r.out)
    BY <2>1, <2>4, <2>8 DEF TxosOfMempool, DueDone
  <2> QED
    BY <2>3, <2>5, <2>6, <2>7, <2>8 DEF TxosOfChain
<1> QED
  BY <1>1, ServerAlways, TxosAlways, PTL

-----------------------------------------------------------------------------
(* getBlockTransactions.                                                   *)

\* The members of a concatenation.
LEMMA ConcatMembers ==
    ASSUME NEW S, NEW s \in Seq(S), NEW t \in Seq(S)
    PROVE  s \o t \in Seq(S) /\ ToSet(s \o t) = ToSet(s) \cup ToSet(t)
<1> DEFINE u == s \o t
           m == Len(s)
           n == Len(t)
<1>1. /\ m \in Nat /\ n \in Nat /\ DOMAIN s = 1..m /\ DOMAIN t = 1..n
      /\ u \in Seq(S) /\ Len(u) = m + n
      /\ \A i \in 1..(m + n) : u[i] = IF i <= m THEN s[i] ELSE t[i - m]
  BY ConcatProperties
<1>2. DOMAIN u = 1..(m + n)
  BY <1>1
<1> HIDE DEF u, m, n
<1>3. ASSUME NEW x \in ToSet(u) PROVE x \in ToSet(s) \cup ToSet(t)
  <2>1. PICK i \in 1..(m + n) : u[i] = x
    BY <1>2 DEF ToSet
  <2>2. CASE i <= m
    <3>1. i \in 1..m /\ s[i] = x
      BY <1>1, <2>1, <2>2
    <3> QED
      BY <1>1, <3>1 DEF ToSet
  <2>3. CASE ~(i <= m)
    <3>1. i - m \in 1..n
      BY <1>1, <2>3
    <3> QED
      BY <1>1, <2>1, <2>3, <3>1 DEF ToSet
  <2> QED
    BY <2>2, <2>3
<1>4. ASSUME NEW i \in 1..m PROVE s[i] \in ToSet(u)
  <2>1. i \in 1..(m + n) /\ i <= m
    BY <1>1
  <2> QED
    BY <1>1, <1>2, <2>1 DEF ToSet
<1>5. ASSUME NEW i \in 1..n PROVE t[i] \in ToSet(u)
  <2>1. PICK j : j = i + m
    OBVIOUS
  <2>2. j \in 1..(m + n) /\ ~(j <= m) /\ j - m = i
    BY <1>1, <2>1
  <2> QED
    BY <1>1, <1>2, <2>2 DEF ToSet
<1>6. \A x : x \in ToSet(u) <=> x \in ToSet(s) \cup ToSet(t)
  BY <1>1, <1>3, <1>4, <1>5 DEF ToSet
<1> QED
  BY <1>1, <1>6 DEF u

\* The members of a flattened sequence: those of its sequences.
LEMMA FlattenMembers ==
    ASSUME NEW S, NEW ss \in Seq(Seq(S))
    PROVE  /\ FlattenSeq(ss) \in Seq(S)
           /\ \A x : x \in ToSet(FlattenSeq(ss)) <=> \E i \in 1..Len(ss) : x \in ToSet(ss[i])
<1> DEFINE N == Len(ss)
           Unrolls(g) == g = [i \in 1..N |-> IF i = 1 THEN ss[i] ELSE g[i - 1] \o ss[i]]
<1>1. N \in Nat /\ \A i \in 1..N : ss[i] \in Seq(S)
  OBVIOUS
<1>2. CASE N = 0
  <2>1. ss = <<>> /\ FlattenSeq(ss) = ss /\ 1..0 = {}
    BY <1>2 DEF FlattenSeq
  <2>2. <<>> \in Seq(S) /\ ToSet(<<>>) = {}
    BY DEF ToSet
  <2> QED
    BY <1>2, <2>1, <2>2
<1>3. CASE N # 0
  <2>1. \E g : Unrolls(g)
    <3> DEFINE X == Seq(S)
               x == <<>>
               G == [p \in Nat \X X |-> IF p[1] \in 1..N THEN p[2] \o ss[p[1]] ELSE p[2]]
    <3>1. x \in X
      OBVIOUS
    <3>2. G \in [Nat \X X -> X]
      <4> SUFFICES ASSUME NEW n \in Nat, NEW s \in X
                   PROVE  (IF n \in 1..N THEN s \o ss[n] ELSE s) \in X
        OBVIOUS
      <4> QED
        BY <1>1, ConcatProperties
    <3>3. \A n \in 1..N, s \in X : G[<<n, s>>] = s \o ss[n]
      <4> SUFFICES ASSUME NEW n \in 1..N, NEW s \in X PROVE G[<<n, s>>] = s \o ss[n]
        OBVIOUS
      <4>1. PICK p : p = <<n, s>>
        OBVIOUS
      <4>2. p \in Nat \X X /\ p[1] = n /\ p[2] = s
        BY <1>1, <4>1
      <4> QED
        BY <4>1, <4>2
    <3> HIDE DEF X, G, N, x
    <3>4. PICK f : Iterated(f, X, x, G, N)
      BY <1>1, <3>1, <3>2, Iterates
    <3> DEFINE g == [i \in 1..N |-> f[i]]
    <3>5. \A n \in 1..N : f[n] = f[n - 1] \o ss[n]
      <4> SUFFICES ASSUME NEW n \in 1..N PROVE f[n] = f[n - 1] \o ss[n]
        OBVIOUS
      <4>1. n - 1 \in 0..N
        BY <1>1
      <4>2. f[n - 1] \in X /\ f[n] = G[<<n, f[n - 1]>>]
        BY <3>4, <4>1 DEF Iterated
      <4> QED
        BY <3>3, <4>2
    <3>6. f[0] = <<>>
      BY <3>4 DEF Iterated, x
    <3>7. \A i \in 1..N : g[i] = IF i = 1 THEN ss[i] ELSE g[i - 1] \o ss[i]
      <4> SUFFICES ASSUME NEW i \in 1..N
                   PROVE  f[i] = IF i = 1 THEN ss[i] ELSE g[i - 1] \o ss[i]
        OBVIOUS
      <4>1. CASE i = 1
        <5>1. 1 \in 1..N /\ 1 - 1 = 0
          BY <4>1
        <5>2. f[1] = f[1 - 1] \o ss[1] /\ ss[1] \in Seq(S)
          BY <1>1, <3>5, <5>1
        <5>3. f[1] = <<>> \o ss[1]
          BY <3>6, <5>1, <5>2
        <5> QED
          BY <4>1, <5>2, <5>3, ConcatEmptySeq
      <4>2. CASE i # 1
        <5>1. i - 1 \in 1..N
          BY <1>1, <4>2
        <5>2. PICK j : j = i - 1
          OBVIOUS
        <5>3. g[j] = f[j]
          BY <5>1, <5>2
        <5> QED
          BY <3>5, <4>2, <5>2, <5>3
      <4> QED
        BY <4>1, <4>2
    <3>8. g = [i \in 1..N |-> g[i]]
      OBVIOUS
    <3> HIDE DEF g
    <3>9. g = [i \in 1..N |-> IF i = 1 THEN ss[i] ELSE g[i - 1] \o ss[i]]
      BY <3>7, <3>8
    <3> QED
      BY <3>9
  <2> DEFINE g == CHOOSE g : Unrolls(g)
  <2>2. Unrolls(g)
    BY <2>1
  <2>3. FlattenSeq(ss) = g[N]
    BY <1>3 DEF FlattenSeq
  <2> HIDE DEF g
  <2>4. \A i \in 1..N : g[i] = IF i = 1 THEN ss[i] ELSE g[i - 1] \o ss[i]
    BY <2>2
  <2> HIDE DEF Unrolls, N
  <2> DEFINE Members(n, s) == /\ s \in Seq(S)
                              /\ \A x : x \in ToSet(s) <=> \E i \in 1..n : x \in ToSet(ss[i])
             T == {n \in Nat : n \in 1..N => Members(n, g[n])}
  <2>5. 0 \in T
    OBVIOUS
  <2>6. ASSUME NEW n \in Nat, n \in T PROVE n + 1 \in T
    <3> SUFFICES ASSUME n + 1 \in 1..N PROVE Members(n + 1, g[n + 1])
      OBVIOUS
    <3>1. CASE n = 0
      <4>1. g[1] = ss[1] /\ ss[1] \in Seq(S) /\ 1..1 = {1}
        BY <1>1, <2>4, <3>1
      <4> QED
        BY <3>1, <4>1
    <3>2. CASE n # 0
      <4>1. n \in 1..N
        BY <1>1, <3>2
      <4>2. Members(n, g[n])
        BY <2>6, <4>1
      <4>3. PICK k : k = n + 1
        OBVIOUS
      <4>4. k # 1 /\ k - 1 = n /\ k \in 1..N
        BY <3>2, <4>3
      <4>5. g[k] = g[n] \o ss[k]
        BY <2>4, <4>4
      <4>6. /\ g[k] \in Seq(S) /\ ToSet(g[k]) = ToSet(g[n]) \cup ToSet(ss[k])
        BY <1>1, <4>2, <4>4, <4>5, ConcatMembers
      <4>7. \A i : i \in 1..k <=> i \in 1..n \/ i = k
        BY <4>3
      <4>8. \A x : x \in ToSet(g[n]) <=> \E i \in 1..n : x \in ToSet(ss[i])
        BY <4>2
      <4>9. \A x : x \in ToSet(g[k]) <=> \E i \in 1..k : x \in ToSet(ss[i])
        BY <4>6, <4>7, <4>8
      <4> QED
        BY <4>3, <4>6, <4>9
    <3> QED
      BY <3>1, <3>2
  <2> HIDE DEF T
  <2>7. \A n \in Nat : n \in T
    BY <2>5, <2>6, Induction
  <2>8. N \in T /\ N \in 1..N
    BY <1>1, <1>3, <2>7
  <2> USE DEF T
  <2>9. Members(N, g[N])
    BY <2>8
  <2> QED
    BY <2>3, <2>9 DEF N
<1> QED
  BY <1>2, <1>3

Reads == [part : {"from", "value", "spent", "to"}, out : Outpoints, tx : Txs]
AnyRead == Reads \cup [part : {"height"}, out : Outpoints, tx : Txs, block : Blocks]

\* Two reads for each output in a set.
PairReads(S, t, p, q) ==
    FlattenSeq([i \in 1..Cardinality(S) |->
        LET o == SetToSeq(S)[i]
        IN  <<[part |-> p, out |-> o, tx |-> t], [part |-> q, out |-> o, tx |-> t]>>])

LEMMA PairMembers ==
    ASSUME NEW S \in SUBSET Outpoints, IsFiniteSet(S), NEW t \in Txs,
           NEW p \in {"from", "value", "spent", "to"},
           NEW q \in {"from", "value", "spent", "to"},
           NEW f, f = PairReads(S, t, p, q)
    PROVE  /\ f \in Seq(Reads)
           /\ \A x : x \in ToSet(f) <=> \E o \in S : \/ x = [part |-> p, out |-> o, tx |-> t]
                                                    \/ x = [part |-> q, out |-> o, tx |-> t]
<1> DEFINE n == Cardinality(S)
           e == SetToSeq(S)
           Pair(o) == <<[part |-> p, out |-> o, tx |-> t], [part |-> q, out |-> o, tx |-> t]>>
           ss == [i \in 1..n |-> Pair(e[i])]
<1>1. /\ n \in Nat /\ \A i \in 1..n : e[i] \in S
      /\ \A o \in S : \E i \in 1..n : e[i] = o
  BY SetToSeqEnumerates DEF Enumerates
<1>2. ASSUME NEW o \in S
      PROVE  /\ Pair(o) \in Seq(Reads)
             /\ \A x : x \in ToSet(Pair(o)) <=> \/ x = [part |-> p, out |-> o, tx |-> t]
                                                \/ x = [part |-> q, out |-> o, tx |-> t]
  <2> DEFINE u == [part |-> p, out |-> o, tx |-> t]
             v == [part |-> q, out |-> o, tx |-> t]
  <2>1. u \in Reads /\ v \in Reads
    BY DEF Reads
  <2> HIDE DEF u, v
  <2>2. <<u, v>> \in Seq(Reads) /\ DOMAIN <<u, v>> = {1, 2} /\ <<u, v>>[1] = u /\ <<u, v>>[2] = v
    BY <2>1
  <2>3. \A x : x \in ToSet(<<u, v>>) <=> x = u \/ x = v
    BY <2>2 DEF ToSet
  <2> QED
    BY <2>2, <2>3 DEF u, v
<1>3. f = FlattenSeq(ss)
  BY DEF PairReads
<1> HIDE DEF n, e, Pair
<1>4. ss \in Seq(Seq(Reads)) /\ Len(ss) = n /\ \A i \in 1..n : ss[i] = Pair(e[i])
  BY <1>1, <1>2
<1> HIDE DEF ss
<1>5. /\ f \in Seq(Reads)
      /\ \A x : x \in ToSet(f) <=> \E i \in 1..n : x \in ToSet(ss[i])
  BY <1>3, <1>4, FlattenMembers
<1>6. \A i \in 1..n : \A x : x \in ToSet(ss[i]) <=>
                              \/ x = [part |-> p, out |-> e[i], tx |-> t]
                              \/ x = [part |-> q, out |-> e[i], tx |-> t]
  BY <1>1, <1>2, <1>4
<1>7. ASSUME NEW x, NEW i \in 1..n, x \in ToSet(ss[i])
      PROVE  \E o \in S : \/ x = [part |-> p, out |-> o, tx |-> t]
                          \/ x = [part |-> q, out |-> o, tx |-> t]
  <2>1. PICK o \in S : o = e[i]
    BY <1>1
  <2>2. x = [part |-> p, out |-> o, tx |-> t] \/ x = [part |-> q, out |-> o, tx |-> t]
    BY <1>6, <1>7, <2>1
  <2> QED
    BY <2>2
<1>8. ASSUME NEW x, NEW o \in S, \/ x = [part |-> p, out |-> o, tx |-> t]
                                \/ x = [part |-> q, out |-> o, tx |-> t]
      PROVE  \E i \in 1..n : x \in ToSet(ss[i])
  <2>1. PICK i \in 1..n : e[i] = o
    BY <1>1
  <2> QED
    BY <1>6, <1>8, <2>1
<1> QED
  BY <1>5, <1>7, <1>8

\* What is read for a transaction.
ReadOf(x, t) == /\ x \in Reads /\ x.tx = t
                /\ \/ x.part \in {"from", "value"} /\ x.out \in Takes[t]
                   \/ x.part \in {"spent", "to"} /\ x.out \in OutsMade(t)

LEMMA ReadsForAre ==
    ASSUME NEW t \in Txs
    PROVE  /\ ReadsFor(t) \in Seq(Reads)
           /\ \A x : x \in ToSet(ReadsFor(t)) <=> ReadOf(x, t)
<1>1. /\ Takes[t] \in SUBSET Outpoints /\ IsFiniteSet(Takes[t])
      /\ OutsMade(t) \in SUBSET Outpoints /\ IsFiniteSet(OutsMade(t))
  BY ServerAssumption DEF OutsMade
<1> DEFINE f == PairReads(Takes[t], t, "from", "value")
           g == PairReads(OutsMade(t), t, "spent", "to")
<1>4. ReadsFor(t) = f \o g
  BY DEF ReadsFor, PairReads
<1> HIDE DEF f, g
<1>2. /\ f \in Seq(Reads)
      /\ \A x : x \in ToSet(f) <=> \E o \in Takes[t] :
                   \/ x = [part |-> "from", out |-> o, tx |-> t]
                   \/ x = [part |-> "value", out |-> o, tx |-> t]
  BY <1>1, PairMembers DEF f
<1>3. /\ g \in Seq(Reads)
      /\ \A x : x \in ToSet(g) <=> \E o \in OutsMade(t) :
                   \/ x = [part |-> "spent", out |-> o, tx |-> t]
                   \/ x = [part |-> "to", out |-> o, tx |-> t]
  BY <1>1, PairMembers DEF g
<1>5. ReadsFor(t) \in Seq(Reads) /\ ToSet(ReadsFor(t)) = ToSet(f) \cup ToSet(g)
  <2>1. f \in Seq(Reads) /\ g \in Seq(Reads)
    BY <1>2, <1>3
  <2> HIDE DEF Reads
  <2>2. f \o g \in Seq(Reads) /\ ToSet(f \o g) = ToSet(f) \cup ToSet(g)
    BY <2>1, ConcatMembers
  <2> QED
    BY <1>4, <2>2
<1>6. ASSUME NEW x, NEW p \in {"from", "value", "spent", "to"}
      PROVE  x \in Reads /\ x.tx = t /\ x.part = p
             <=> \E o \in Outpoints : x = [part |-> p, out |-> o, tx |-> t]
  BY DEF Reads
<1>7. ASSUME NEW x PROVE x \in ToSet(f) <=> /\ x \in Reads /\ x.tx = t
                                            /\ x.part \in {"from", "value"} /\ x.out \in Takes[t]
  BY <1>1, <1>2 DEF Reads
<1>8. ASSUME NEW x PROVE x \in ToSet(g) <=> /\ x \in Reads /\ x.tx = t
                                            /\ x.part \in {"spent", "to"} /\ x.out \in OutsMade(t)
  BY <1>1, <1>3 DEF Reads
<1> QED
  BY <1>5, <1>7, <1>8 DEF ReadOf

\* The transactions a page has to tell of.
PageTxs(b, page) == {TxList[b][i] :
    i \in (PageSize * page + 1)..Min({PageSize * page + 1 + PageSize - 1, Len(TxList[b])})}

LEMMA MinOfTwo ==
    ASSUME NEW m \in Int, NEW n \in Int
    PROVE  Min({m, n}) = IF m <= n THEN m ELSE n
<1>1. PICK k \in {m, n} : k = IF m <= n THEN m ELSE n
  OBVIOUS
<1>2. \A x \in {m, n} : k <= x
  BY <1>1
<1>3. \A x \in {m, n} : (\A y \in {m, n} : x <= y) => x = k
  BY <1>1
<1> QED
  BY <1>1, <1>2, <1>3 DEF Min

\* The transactions of the page are in the block, and those that it has to tell
\* of are among them.
LEMMA PageOfIs ==
    ASSUME NEW b \in Blocks, NEW page \in Nat, NEW s, s = PageOf(b, page)
    PROVE  /\ s \in Seq(TxsOf[b])
           /\ \A t \in PageTxs(b, page) : t \in TxsOf[b] /\ \E i \in 1..Len(s) : s[i] = t
<1> DEFINE list == TxList[b]
           m == Len(list)
<1>1. /\ list \in Seq(Txs) /\ m \in Nat /\ \A i \in 1..m : list[i] \in TxsOf[b]
  BY ServerAssumption DEF ToSet
<1>2. PICK start \in Nat : start = PageSize * page
  BY ServerAssumption
<1>3. PageSize \in Nat
  BY ServerAssumption
<1> DEFINE n == Min({start + PageSize + 1, m})
           l == Min({start + 1 + PageSize - 1, m})
<1>4. s = SubSeq(list, start + 1, n)
  BY <1>2 DEF PageOf
<1>5. /\ n = IF start + PageSize + 1 <= m THEN start + PageSize + 1 ELSE m
      /\ l = IF start + 1 + PageSize - 1 <= m THEN start + 1 + PageSize - 1 ELSE m
  <2>1. PICK u \in Int, v \in Int : u = start + PageSize + 1 /\ v = start + 1 + PageSize - 1
    BY <1>3
  <2>2. m \in Int
    BY <1>1
  <2> HIDE DEF m
  <2>3. n = Min({u, m}) /\ l = Min({v, m})
    BY <2>1
  <2> HIDE DEF n, l
  <2>4. n = IF u <= m THEN u ELSE m
    BY <2>2, <2>3, MinOfTwo
  <2>5. l = IF v <= m THEN v ELSE m
    BY <2>2, <2>3, MinOfTwo
  <2> QED
    BY <2>1, <2>4, <2>5
<1>6. \A t \in PageTxs(b, page) : \E i \in (start + 1)..l : list[i] = t
  BY <1>2 DEF PageTxs
<1> HIDE DEF list, m, n, l
<1>7. n \in Nat /\ l \in Nat /\ l <= n /\ n <= m
  BY <1>1, <1>3, <1>5
<1>8. \A i \in (start + 1)..n : list[i] \in TxsOf[b]
  BY <1>1, <1>7
<1>9. /\ s \in Seq(TxsOf[b])
      /\ Len(s) = IF start + 1 <= n THEN n - (start + 1) + 1 ELSE 0
      /\ \A i \in 1..(n - (start + 1) + 1) : s[i] = list[(start + 1) + i - 1]
  <2>1. PICK k \in Int : k = start + 1
    OBVIOUS
  <2>2. PICK T : T = TxsOf[b]
    OBVIOUS
  <2>3. n \in Int /\ s = SubSeq(list, k, n) /\ \A i \in k..n : list[i] \in T
    BY <1>4, <1>7, <1>8, <2>1, <2>2
  <2>4. /\ SubSeq(list, k, n) \in Seq(T)
        /\ Len(SubSeq(list, k, n)) = IF k <= n THEN n - k + 1 ELSE 0
        /\ \A i \in 1..(n - k + 1) : SubSeq(list, k, n)[i] = list[k + i - 1]
    BY <2>3, SubSeqProperties
  <2> QED
    BY <2>1, <2>2, <2>3, <2>4
<1>10. ASSUME NEW i \in (start + 1)..l
       PROVE  list[i] \in TxsOf[b] /\ \E j \in 1..Len(s) : s[j] = list[i]
  <2>1. PICK j : j = i - start
    OBVIOUS
  <2>2. j \in 1..(n - (start + 1) + 1) /\ (start + 1) + j - 1 = i /\ start + 1 <= n
    BY <1>7, <2>1
  <2>3. j \in 1..Len(s)
    BY <1>7, <1>9, <2>2
  <2>4. list[i] \in TxsOf[b]
    BY <1>7, <1>8
  <2> QED
    BY <1>9, <2>2, <2>3, <2>4
<1> QED
  BY <1>6, <1>9, <1>10

\* The transactions of a recorded block are indexed, and so are those that made
\* what it spends.
LEMMA MakersIndexed ==
    ASSUME ServerInv, NEW b \in Known, NEW t \in TxsOf[b]
    PROVE  /\ b \in Blocks /\ t \in Txs /\ t \in DOMAIN txBlock
           /\ \A o \in Takes[t] : \E c \in Known : MadeBy[o] \in TxsOf[c]
<1>1. Known \in SUBSET Blocks /\ Grounded(Known) /\ KnownContents
  BY DEF ServerInv, Base, Facts, KnownBlocks, Known, PlaceInv, TypeInv, TypeOK, IsTable
<1>2. b \in Blocks /\ t \in Txs
  BY <1>1, ContentsAssumption
<1>3. t \in DOMAIN txBlock
  BY <1>1 DEF KnownContents
<1>4. ASSUME NEW o \in Takes[t] PROVE \E c \in Known : MadeBy[o] \in TxsOf[c]
  <2> DEFINE d == [out |-> o, tx |-> t]
  <2>1. d \in [out : Takes[t], tx : {t}] /\ d.out = o
    OBVIOUS
  <2>2. d \in Range(Debits[b])
    BY <1>2, <2>1, ServerAssumption
  <2> HIDE DEF d
  <2> QED
    BY <1>1, <2>1, <2>2, ValidityAssumption
<1> QED
  BY <1>2, <1>3, <1>4

Positive(counts) == {a \in Addresses : counts[a] > 0}
PaidTo(o) == {a \in Addresses : \E c \in Makes[MadeBy[o]] : c.out = o /\ c.address = a}

\* Whom an output pays, by the index.
LEMMA AddressesTold ==
    ASSUME ServerInv, NEW o \in Outpoints, NEW b \in Known, MadeBy[o] \in TxsOf[b]
    PROVE  Positive(AddressesFor(o)) = PaidTo(o)
<1>1. Known \in SUBSET Blocks /\ KnownContents
  BY DEF ServerInv, Base, Facts, KnownBlocks, Known, PlaceInv, TypeInv, TypeOK, IsTable
<1>2. ASSUME NEW a \in Addresses PROVE a \in Positive(AddressesFor(o)) <=> a \in PaidTo(o)
  <2> DEFINE c == [out |-> o, address |-> a]
  <2>1. c \in Credit /\ c.out = o /\ c.address = a
    BY DEF Credit
  <2>2. \A d \in Credit : d.out = o /\ d.address = a => d = c
    BY DEF Credit
  <2>3. a \in Positive(AddressesFor(o)) <=> txoAddress[c] > 0
    BY DEF Positive, AddressesFor
  <2> HIDE DEF c
  <2>4. a \in Positive(AddressesFor(o)) <=> \E d \in Known : c \in Range(Credits[d])
    BY <1>1, <2>1, <2>3 DEF KnownContents
  <2>5. ASSUME NEW d \in Known, c \in Range(Credits[d]) PROVE c \in Makes[MadeBy[o]]
    <3>1. PICK t \in TxsOf[d] : c \in Makes[t]
      BY <1>1, <2>5, ServerAssumption
    <3>2. t \in Txs
      BY <1>1, ContentsAssumption
    <3> QED
      BY <2>1, <3>1, <3>2, ServerAssumption
  <2>6. ASSUME c \in Makes[MadeBy[o]] PROVE c \in Range(Credits[b])
    BY <1>1, <2>6, ServerAssumption
  <2>7. a \in PaidTo(o) <=> c \in Makes[MadeBy[o]]
    <3>1. MadeBy[o] \in Txs /\ Makes[MadeBy[o]] \in SUBSET Credit
      BY ServerAssumption
    <3> QED
      BY <2>1, <2>2, <3>1 DEF PaidTo
  <2> QED
    BY <2>4, <2>5, <2>6, <2>7
<1> QED
  BY <1>2 DEF Positive, PaidTo

LEMMA AppendMember ==
    ASSUME NEW s, s \in Seq(ToSet(s)), NEW x
    PROVE  /\ ToSet(Append(s, x)) = ToSet(s) \cup {x}
           /\ Append(s, x) \in Seq(ToSet(Append(s, x)))
<1>1. PICK S : S = ToSet(s) \cup {x}
  OBVIOUS
<1>2. s \in Seq(S) /\ x \in S
  BY <1>1
<1>3. Append(s, x) \in Seq(S) /\ ToSet(Append(s, x)) = ToSet(s) \cup {x}
  BY <1>2, AppendOne
<1> QED
  BY <1>1, <1>3

LEMMA TailMembers ==
    ASSUME NEW S, NEW s \in Seq(S), s # <<>>
    PROVE  /\ Head(s) \in S /\ Tail(s) \in Seq(S)
           /\ ToSet(s) = {Head(s)} \cup ToSet(Tail(s))
<1>1. s = <<Head(s)>> \o Tail(s) /\ Head(s) \in S /\ Tail(s) \in Seq(S)
  BY HeadTailProperties, SMT
<1>2. PICK u : u = <<Head(s)>>
  OBVIOUS
<1>3. u \in Seq(S) /\ ToSet(u) = {Head(s)}
  BY <1>1, <1>2 DEF ToSet
<1>4. PICK v \in Seq(S) : v = Tail(s)
  BY <1>1
<1>5. ToSet(u \o v) = ToSet(u) \cup ToSet(v)
  BY <1>3, ConcatMembers
<1> QED
  BY <1>1, <1>2, <1>3, <1>4, <1>5

\* An answer about a part of a transaction is right.
PartTrue(x) ==
    /\ x.part = "value" => x.told = TRUE
    /\ x.part \in {"from", "to"} => Positive(x.told) = PaidTo(x.out)
    /\ x.part = "spent" => x.out \in DOMAIN txoSpent /\ x.told = txoSpent[x.out].tx
    /\ x.part = "height" => /\ x.out \in DOMAIN txoSpent
                            /\ x.told = HeightOf[txoSpent[x.out].block]

\* What the loop has still to read: of the transactions of the block, and the
\* height of a block that spends one of their outputs.
AskedFor(r) ==
    /\ r.tx \in TxsOf[arg.block]
    /\ r.part \in {"from", "value"} => r.out \in Takes[r.tx]
    /\ r.part \in {"spent", "to"} => r.out \in OutsMade(r.tx)
    /\ r.part = "height" => r.out \in DOMAIN txoSpent /\ r.block = txoSpent[r.out].block

Named(S, part, o, t) == \E x \in S : x.part = part /\ x.out = o /\ x.tx = t

\* Each part that the page has to tell of has been told or is still to be read.
\* The height of a spender's block is read when the spender is known.
PageCovered(told, left) ==
    \A t \in PageTxs(arg.block, arg.page) :
        /\ t \in TxsOf[arg.block]
        /\ \A o \in Takes[t] : /\ Named(told \cup left, "value", o, t)
                               /\ Named(told \cup left, "from", o, t)
        /\ \A o \in OutsMade(t) :
              /\ Named(told \cup left, "to", o, t)
              /\ o \in before.spent =>
                    /\ Named(told \cup left, "spent", o, t)
                    /\ Named(told \cup left, "height", o, t) \/ Named(left, "spent", o, t)

PartsSoFar ==
    /\ todo \in Seq(AnyRead) /\ items \in Seq(ToSet(items))
    /\ \A x \in ToSet(items) : PartTrue(x)
    /\ \A r \in ToSet(todo) : AskedFor(r)
    /\ PageCovered(ToSet(items), ToSet(todo))

AsksPage == op = "getBlockTransactions" /\ ~torn /\ arg.block \in before.recorded

PageInv ==
    AsksPage =>
        /\ step \in {"highest", "height", "position"} => items = <<>>
        /\ step = "height" => hash = arg.block
        /\ step = "position" => height = HeightOf[arg.block] /\ todo # <<>>
        /\ step = "part" => PartsSoFar
        /\ step = "done" /\ status = "ok" => PartsSoFar /\ todo = <<>>

\* The page as it is first looked at.
LEMMA PageStarts ==
    ASSUME arg \in PageRequests, items = <<>>, items' = <<>>,
           UNCHANGED <<op, arg, before, txoSpent>>,
           NEW page, page = PageOf(arg.block, arg.page),
           todo' = FlattenSeq([i \in DOMAIN page |-> ReadsFor(page[i])])
    PROVE  PartsSoFar'
<1>1. arg.block \in Blocks /\ arg.page \in Nat
  BY ServerAssumption
<1>2. /\ page \in Seq(TxsOf[arg.block])
      /\ \A t \in PageTxs(arg.block, arg.page) :
            t \in TxsOf[arg.block] /\ \E i \in 1..Len(page) : page[i] = t
  BY <1>1, PageOfIs
<1>3. /\ TxsOf[arg.block] \in SUBSET Txs
      /\ Len(page) \in Nat /\ DOMAIN page = 1..Len(page)
      /\ \A i \in 1..Len(page) : page[i] \in TxsOf[arg.block] /\ page[i] \in Txs
  BY <1>1, <1>2, ContentsAssumption
<1> DEFINE ss == [i \in DOMAIN page |-> ReadsFor(page[i])]
<1>4. /\ ss \in Seq(Seq(Reads)) /\ Len(ss) = Len(page)
      /\ \A i \in 1..Len(page) : ss[i] = ReadsFor(page[i])
  BY <1>3, ReadsForAre
<1>5. todo' = FlattenSeq(ss)
  OBVIOUS
<1> HIDE DEF ss
<1>6. /\ todo' \in Seq(Reads)
      /\ \A x : x \in ToSet(todo') <=> \E i \in 1..Len(page) : x \in ToSet(ss[i])
  BY <1>4, <1>5, FlattenMembers
<1>7. \A i \in 1..Len(page) : \A x : x \in ToSet(ss[i]) <=> ReadOf(x, page[i])
  BY <1>3, <1>4, ReadsForAre
<1>8. todo' \in Seq(AnyRead)
  BY <1>6 DEF AnyRead
<1>9. ASSUME NEW r \in ToSet(todo') PROVE AskedFor(r)'
  <2>1. PICK i \in 1..Len(page) : ReadOf(r, page[i])
    BY <1>6, <1>7
  <2>2. r.tx \in TxsOf[arg.block] /\ r.part \in {"from", "value", "spent", "to"}
    BY <1>3, <2>1 DEF ReadOf, Reads
  <2>3. /\ r.part \in {"from", "value"} => r.out \in Takes[r.tx]
        /\ r.part \in {"spent", "to"} => r.out \in OutsMade(r.tx)
    BY <2>1 DEF ReadOf
  <2> QED
    BY <2>2, <2>3 DEF AskedFor
<1>10. ASSUME NEW t \in PageTxs(arg.block, arg.page), NEW o \in Outpoints,
              NEW p \in {"from", "value", "spent", "to"},
              \/ p \in {"from", "value"} /\ o \in Takes[t]
              \/ p \in {"spent", "to"} /\ o \in OutsMade(t)
       PROVE  Named(ToSet(todo'), p, o, t)
  <2>1. PICK i \in 1..Len(page) : page[i] = t
    BY <1>2
  <2>2. PICK x : x = [part |-> p, out |-> o, tx |-> t]
    OBVIOUS
  <2>3. ReadOf(x, t) /\ x.part = p /\ x.out = o /\ x.tx = t
    BY <1>3, <1>10, <2>1, <2>2 DEF ReadOf, Reads
  <2>4. x \in ToSet(todo')
    BY <1>6, <1>7, <2>1, <2>3
  <2> QED
    BY <2>3, <2>4 DEF Named
<1>11. ToSet(items') = {} /\ items' \in Seq(ToSet(items'))
  BY DEF ToSet
<1>12. ASSUME NEW t \in PageTxs(arg.block, arg.page)
       PROVE  /\ \A o \in Takes[t] : /\ Named(ToSet(todo'), "value", o, t)
                                     /\ Named(ToSet(todo'), "from", o, t)
              /\ \A o \in OutsMade(t) : /\ Named(ToSet(todo'), "to", o, t)
                                        /\ Named(ToSet(todo'), "spent", o, t)
  <2>1. t \in Txs /\ Takes[t] \in SUBSET Outpoints /\ OutsMade(t) \in SUBSET Outpoints
    BY <1>2, <1>3, ServerAssumption DEF OutsMade
  <2> QED
    BY <1>10, <2>1
<1>13. PageCovered({}, ToSet(todo'))
  <2>1. {} \cup ToSet(todo') = ToSet(todo')
    OBVIOUS
  <2> QED
    BY <1>2, <1>12, <2>1 DEF PageCovered
<1> QED
  BY <1>8, <1>9, <1>11, <1>13 DEF PartsSoFar, PageCovered

\* Nothing that the page has to tell of is lost in a step of the loop.
LEMMA PageStaysCovered ==
    ASSUME NEW told, NEW left, NEW told2, NEW left2, PageCovered(told, left),
           \A x \in told \cup left :
               \/ Named(told2 \cup left2, x.part, x.out, x.tx)
               \/ x.part = "spent" /\ x.out \notin before.spent,
           \A x \in left : x.part = "spent" =>
               \/ Named(left2, "spent", x.out, x.tx)
               \/ Named(told2 \cup left2, "height", x.out, x.tx)
               \/ x.out \notin before.spent
    PROVE  PageCovered(told2, left2)
<1>1. ASSUME NEW p, NEW o, NEW t, Named(told \cup left, p, o, t),
             p # "spent" \/ o \in before.spent
      PROVE  Named(told2 \cup left2, p, o, t)
  <2>1. PICK x \in told \cup left : x.part = p /\ x.out = o /\ x.tx = t
    BY <1>1 DEF Named
  <2> QED
    BY <1>1, <2>1
<1>2. ASSUME NEW o, NEW t, Named(left, "spent", o, t), o \in before.spent
      PROVE  Named(left2, "spent", o, t) \/ Named(told2 \cup left2, "height", o, t)
  <2>1. PICK x \in left : x.part = "spent" /\ x.out = o /\ x.tx = t
    BY <1>2 DEF Named
  <2> QED
    BY <1>2, <2>1
<1>3. "value" # "spent" /\ "from" # "spent" /\ "to" # "spent" /\ "height" # "spent"
  OBVIOUS
<1> SUFFICES ASSUME NEW t \in PageTxs(arg.block, arg.page)
             PROVE  /\ t \in TxsOf[arg.block]
                    /\ \A o \in Takes[t] : /\ Named(told2 \cup left2, "value", o, t)
                                           /\ Named(told2 \cup left2, "from", o, t)
                    /\ \A o \in OutsMade(t) :
                          /\ Named(told2 \cup left2, "to", o, t)
                          /\ o \in before.spent =>
                                /\ Named(told2 \cup left2, "spent", o, t)
                                /\ \/ Named(told2 \cup left2, "height", o, t)
                                   \/ Named(left2, "spent", o, t)
  BY DEF PageCovered
<1>4. /\ t \in TxsOf[arg.block]
      /\ \A o \in Takes[t] : /\ Named(told \cup left, "value", o, t)
                             /\ Named(told \cup left, "from", o, t)
      /\ \A o \in OutsMade(t) :
            /\ Named(told \cup left, "to", o, t)
            /\ o \in before.spent =>
                  /\ Named(told \cup left, "spent", o, t)
                  /\ Named(told \cup left, "height", o, t) \/ Named(left, "spent", o, t)
  BY DEF PageCovered
<1> QED
  BY <1>1, <1>2, <1>3, <1>4

\* The first read of the loop is made, and the answer y.
LEMMA PartTold ==
    ASSUME PartsSoFar, todo # <<>>, UNCHANGED <<arg, before, txoSpent>>, NEW y, PartTrue(y),
           y.part = Head(todo).part, y.out = Head(todo).out, y.tx = Head(todo).tx,
           Head(todo).part # "spent",
           items' = Append(items, y), todo' = Tail(todo)
    PROVE  PartsSoFar'
<1> DEFINE r == Head(todo)
<1>1. /\ r \in AnyRead /\ todo' \in Seq(AnyRead)
      /\ ToSet(todo) = {r} \cup ToSet(todo')
  BY TailMembers DEF PartsSoFar
<1>2. ToSet(items') = ToSet(items) \cup {y} /\ items' \in Seq(ToSet(items'))
  BY AppendMember DEF PartsSoFar
<1> HIDE DEF r
<1>3. y.part = r.part /\ y.out = r.out /\ y.tx = r.tx /\ r.part # "spent"
  BY DEF r
<1>4. \A x \in ToSet(items') : PartTrue(x)'
  BY <1>2 DEF PartsSoFar, PartTrue
<1>5. \A x \in ToSet(todo') : AskedFor(x)'
  BY <1>1 DEF PartsSoFar, AskedFor
<1> DEFINE told == ToSet(items)
           left == ToSet(todo)
           told2 == ToSet(items')
           left2 == ToSet(todo')
<1> HIDE DEF told, left, told2, left2
<1>6. told2 = told \cup {y} /\ left = {r} \cup left2 /\ PageCovered(told, left)
  BY <1>1, <1>2 DEF told, left, told2, left2, PartsSoFar
<1>7. \A x \in told \cup left : Named(told2 \cup left2, x.part, x.out, x.tx)
  BY <1>3, <1>6 DEF Named
<1>8. \A x \in left : x.part = "spent" => Named(left2, "spent", x.out, x.tx)
  BY <1>3, <1>6 DEF Named
<1>9. PageCovered(told2, left2)
  <2>1. \A x \in told \cup left : \/ Named(told2 \cup left2, x.part, x.out, x.tx)
                                  \/ x.part = "spent" /\ x.out \notin before.spent
    BY <1>7
  <2>2. \A x \in left : x.part = "spent" =>
            \/ Named(left2, "spent", x.out, x.tx)
            \/ Named(told2 \cup left2, "height", x.out, x.tx)
            \/ x.out \notin before.spent
    BY <1>8
  <2>3. PageCovered(told, left)
    BY <1>6
  <2> QED
    BY <2>1, <2>2, <2>3, PageStaysCovered
<1> QED
  BY <1>1, <1>2, <1>4, <1>5, <1>9 DEF PartsSoFar, PageCovered, told2, left2

\* An output is looked up that is not spent.
LEMMA PartUnspent ==
    ASSUME PartsSoFar, todo # <<>>, UNCHANGED <<arg, before, txoSpent, items>>,
           Head(todo).part = "spent", Head(todo).out \notin before.spent,
           todo' = Tail(todo)
    PROVE  PartsSoFar'
<1> DEFINE r == Head(todo)
<1>1. /\ r \in AnyRead /\ todo' \in Seq(AnyRead)
      /\ ToSet(todo) = {r} \cup ToSet(todo')
  BY TailMembers DEF PartsSoFar
<1> HIDE DEF r
<1>2. r.part = "spent" /\ r.out \notin before.spent
  BY DEF r
<1>3. /\ items' \in Seq(ToSet(items')) /\ \A x \in ToSet(items') : PartTrue(x)'
  BY DEF PartsSoFar, PartTrue
<1>4. \A x \in ToSet(todo') : AskedFor(x)'
  BY <1>1 DEF PartsSoFar, AskedFor
<1> DEFINE told == ToSet(items)
           left == ToSet(todo)
           left2 == ToSet(todo')
<1> HIDE DEF told, left, left2
<1>5. left = {r} \cup left2 /\ PageCovered(told, left)
  BY <1>1 DEF told, left, left2, PartsSoFar
<1>6. \A x \in told \cup left : \/ Named(told \cup left2, x.part, x.out, x.tx)
                                \/ x.part = "spent" /\ x.out \notin before.spent
  BY <1>2, <1>5 DEF Named
<1>7. \A x \in left : x.part = "spent" => \/ Named(left2, "spent", x.out, x.tx)
                                          \/ x.out \notin before.spent
  BY <1>2, <1>5 DEF Named
<1>8. PageCovered(told, left2)
  BY <1>5, <1>6, <1>7, PageStaysCovered
<1> QED
  BY <1>1, <1>3, <1>4, <1>8 DEF PartsSoFar, PageCovered, told, left2

\* An output is looked up that is spent: the read of the height comes next.
LEMMA PartSpent ==
    ASSUME ServerInv, PartsSoFar, todo # <<>>, UNCHANGED <<arg, before, txoSpent>>,
           Head(todo).part = "spent", Head(todo).out \in DOMAIN txoSpent,
           NEW y, y = [part |-> "spent", out |-> Head(todo).out, tx |-> Head(todo).tx,
                       told |-> txoSpent[Head(todo).out].tx],
           NEW q, q = [part |-> "height", out |-> Head(todo).out, tx |-> Head(todo).tx,
                       block |-> txoSpent[Head(todo).out].block],
           items' = Append(items, y), todo' = <<q>> \o Tail(todo)
    PROVE  PartsSoFar'
<1>1. PICK r : r = Head(todo)
  OBVIOUS
<1>2. PICK rest : rest = Tail(todo)
  OBVIOUS
<1>3. /\ r \in AnyRead /\ rest \in Seq(AnyRead)
      /\ ToSet(todo) = {r} \cup ToSet(rest)
  BY <1>1, <1>2, TailMembers DEF PartsSoFar
<1>4. /\ r.part = "spent" /\ r.out \in DOMAIN txoSpent /\ r \in ToSet(todo)
      /\ r.tx \in TxsOf[arg.block]
  BY <1>1, <1>3 DEF PartsSoFar, AskedFor
<1>5. r.out \in Outpoints /\ r.tx \in Txs /\ txoSpent[r.out].block \in Blocks
  BY <1>3, <1>4, SpendRecorded DEF AnyRead, Reads
<1>6. /\ y.part = "spent" /\ y.out = r.out /\ y.tx = r.tx /\ y.told = txoSpent[r.out].tx
      /\ q \in AnyRead /\ q.part = "height" /\ q.out = r.out /\ q.tx = r.tx
      /\ q.block = txoSpent[r.out].block
  BY <1>1, <1>5 DEF AnyRead
<1>7. ToSet(items') = ToSet(items) \cup {y} /\ items' \in Seq(ToSet(items'))
  BY AppendMember DEF PartsSoFar
<1>8. todo' \in Seq(AnyRead) /\ ToSet(todo') = {q} \cup ToSet(rest)
  <2>1. PICK u : u = <<q>>
    OBVIOUS
  <2>2. u \in Seq(AnyRead) /\ ToSet(u) = {q}
    BY <1>6, <2>1 DEF ToSet
  <2>3. u \o rest \in Seq(AnyRead) /\ ToSet(u \o rest) = ToSet(u) \cup ToSet(rest)
    BY <1>3, <2>2, ConcatMembers
  <2> QED
    BY <1>2, <2>1, <2>2, <2>3
<1>9. \A x \in ToSet(items') : PartTrue(x)'
  <2>1. PartTrue(y)'
    BY <1>4, <1>6 DEF PartTrue
  <2>2. \A x \in ToSet(items) : PartTrue(x)'
    BY DEF PartsSoFar, PartTrue
  <2> QED
    BY <1>7, <2>1, <2>2
<1>10. \A x \in ToSet(todo') : AskedFor(x)'
  <2>1. AskedFor(q)'
    BY <1>4, <1>6 DEF AskedFor
  <2>2. \A x \in ToSet(rest) : AskedFor(x)'
    BY <1>3 DEF PartsSoFar, AskedFor
  <2> QED
    BY <1>8, <2>1, <2>2
<1> DEFINE told == ToSet(items)
           left == ToSet(todo)
           told2 == ToSet(items')
           left2 == ToSet(todo')
<1> HIDE DEF told, left, told2, left2
<1>11. /\ told2 = told \cup {y} /\ PageCovered(told, left)
       /\ \A x \in left : x = r \/ x \in left2
       /\ q \in left2 /\ y \in told2
  BY <1>3, <1>7, <1>8 DEF told, left, told2, left2, PartsSoFar
<1>12. \A x \in told \cup left : Named(told2 \cup left2, x.part, x.out, x.tx)
  BY <1>4, <1>6, <1>11 DEF Named
<1>13. \A x \in left : x.part = "spent" =>
           \/ Named(left2, "spent", x.out, x.tx)
           \/ Named(told2 \cup left2, "height", x.out, x.tx)
  BY <1>6, <1>11 DEF Named
<1>14. PageCovered(told2, left2)
  BY <1>11, <1>12, <1>13, PageStaysCovered
<1> QED
  BY <1>7, <1>8, <1>9, <1>10, <1>14 DEF PartsSoFar, PageCovered, told2, left2

LEMMA PageReads ==
    ASSUME ServerInv, Undisturbed, PageInv, Handler, AsksPage
    PROVE  PageInv'
<1>1. UNCHANGED <<blockAt, hashHeight, txBlock, txoAddress, txoSpent, highest, op, arg, torn,
                  before>>
  BY ReadsBetween
<1> DEFINE b == arg.block
<1>2. /\ op = "getBlockTransactions" /\ ~torn /\ b \in Intact
      /\ arg \in PageRequests
      /\ before.spent \subseteq DOMAIN txoSpent
  BY DEF AsksPage, Undisturbed, ServerInv, RequestOK, Arguments
<1>3. /\ b \in Blocks /\ b \in Known /\ hashHeight[b] = HeightOf[b]
      /\ HeightOf[b] \in DOMAIN blockAt /\ blockAt[HeightOf[b]] = b
  BY <1>2, RecordedBlock
<1>4. step \in {"highest", "height", "position", "part", "done"}
  BY <1>2 DEF ServerInv, RequestOK, OpsAt
<1>5. CASE ReadHighest
  BY <1>1, <1>2, <1>5 DEF ReadHighest, PageInv, GoTo, Finish, AsksBlock, AsksPage
<1>6. CASE ReadHeight
  <2>1. hash = b /\ items = <<>> /\ step = "height"
    BY <1>6 DEF ReadHeight, PageInv
  <2>2. /\ height' = HeightOf[b] /\ todo' = <<HeightOf[b]>> /\ step' = "position"
        /\ items' = <<>>
    BY <1>2, <1>3, <1>6, <2>1 DEF ReadHeight, GoTo, AsksBlock, Known
  <2>3. todo' # <<>>
    BY <2>2
  <2> QED
    BY <1>1, <2>2, <2>3 DEF PageInv
<1>7. CASE ReadPage
  <2>1. items = <<>> /\ items' = <<>> /\ height = HeightOf[b] /\ height \in DOMAIN blockAt
    BY <1>3, <1>7 DEF ReadPage, PageInv
  <2>2. PICK page : page = PageOf(b, arg.page)
    OBVIOUS
  <2>3. /\ step' = "part"
        /\ todo' = FlattenSeq([i \in DOMAIN page |-> ReadsFor(page[i])])
    BY <1>3, <1>7, <2>1, <2>2 DEF ReadPage, GoTo
  <2>4. PartsSoFar'
    BY <1>1, <1>2, <2>1, <2>2, <2>3, PageStarts
  <2> QED
    BY <2>3, <2>4 DEF PageInv
<1>8. CASE ReadPart
  <2>1. step = "part" /\ todo # <<>> /\ Head(todo).part # "spent" /\ todo' = Tail(todo)
    BY <1>8 DEF ReadPart
  <2>2. PartsSoFar
    BY <2>1 DEF PageInv
  <2>3. PICK r : r = Head(todo)
    OBVIOUS
  <2>4. r \in AnyRead /\ AskedFor(r) /\ r.part # "spent"
    BY <2>1, <2>2, <2>3, TailMembers DEF PartsSoFar
  <2>5. PICK y : y = [part |-> r.part, out |-> r.out, tx |-> r.tx,
                      told |-> CASE r.part = "value" -> MadeBy[r.out] \in DOMAIN txBlock
                                 [] r.part = "height" -> hashHeight[r.block]
                                 [] OTHER -> AddressesFor(r.out)]
    OBVIOUS
  <2>6. items' = Append(items, y)
    BY <1>8, <2>3, <2>5 DEF ReadPart
  <2>7. step' = "part" \/ (step' = "done" /\ status' = "failed")
    BY <1>8, <2>1 DEF ReadPart, Finish
  <2>8. /\ y.part = r.part /\ y.out = r.out /\ y.tx = r.tx
        /\ r.part = "value" => y.told = (MadeBy[r.out] \in DOMAIN txBlock)
        /\ r.part = "height" => y.told = hashHeight[r.block]
        /\ r.part \in {"from", "to"} => y.told = AddressesFor(r.out)
    BY <2>5
  <2>9. r.tx \in TxsOf[b] /\ r.tx \in Txs /\ r.out \in Outpoints
    BY <1>3, <2>4, ContentsAssumption DEF AskedFor, AnyRead, Reads
  <2>10. \E c \in Known : MadeBy[r.out] \in TxsOf[c]
         \/ r.part \notin {"value", "from", "to"}
    <3>1. CASE r.part \in {"value", "from"}
      BY <1>3, <2>4, <2>9, <3>1, MakersIndexed DEF AskedFor
    <3>2. CASE r.part = "to"
      BY <1>3, <2>4, <2>9, <3>2 DEF AskedFor, OutsMade
    <3> QED
      BY <1>3, <3>1, <3>2
  <2>11. r.part = "value" => y.told = TRUE
    <3>1. r.part = "value" => MadeBy[r.out] \in DOMAIN txBlock
      BY <2>10, MakersIndexed
    <3> QED
      BY <2>8, <3>1
  <2>12. r.part \in {"from", "to"} => Positive(y.told) = PaidTo(r.out)
    BY <2>8, <2>9, <2>10, AddressesTold
  <2>13. r.part = "height" => /\ r.out \in DOMAIN txoSpent
                              /\ y.told = HeightOf[txoSpent[r.out].block]
    <3>1. ASSUME r.part = "height"
          PROVE  r.out \in DOMAIN txoSpent /\ r.block = txoSpent[r.out].block
      BY <2>4, <3>1 DEF AskedFor
    <3>2. ASSUME r.part = "height" PROVE hashHeight[r.block] = HeightOf[r.block]
      BY <3>1, <3>2, SpendRecorded DEF ServerInv, Base, Facts, KnownBlocks
    <3> QED
      BY <2>8, <3>1, <3>2
  <2>14. PartTrue(y)
    BY <2>4, <2>8, <2>11, <2>12, <2>13 DEF PartTrue
  <2>15. PartsSoFar'
    BY <1>1, <2>1, <2>2, <2>3, <2>6, <2>8, <2>14, PartTold
  <2> QED
    BY <2>7, <2>15 DEF PageInv
<1>9. CASE ReadPartSpent
  <2>1. /\ step = "part" /\ todo # <<>> /\ Head(todo).part = "spent"
        /\ UNCHANGED step
    BY <1>9 DEF ReadPartSpent
  <2>2. PartsSoFar
    BY <2>1 DEF PageInv
  <2>3. CASE Head(todo).out \in DOMAIN txoSpent
    <3>1. PICK y : y = [part |-> "spent", out |-> Head(todo).out, tx |-> Head(todo).tx,
                        told |-> txoSpent[Head(todo).out].tx]
      OBVIOUS
    <3>2. PICK q : q = [part |-> "height", out |-> Head(todo).out, tx |-> Head(todo).tx,
                        block |-> txoSpent[Head(todo).out].block]
      OBVIOUS
    <3>3. items' = Append(items, y) /\ todo' = <<q>> \o Tail(todo)
      BY <1>9, <2>3, <3>1, <3>2 DEF ReadPartSpent
    <3>4. PartsSoFar'
      BY <1>1, <2>1, <2>2, <2>3, <3>1, <3>2, <3>3, PartSpent
    <3> QED
      BY <2>1, <3>4 DEF PageInv
  <2>4. CASE Head(todo).out \notin DOMAIN txoSpent
    <3>1. UNCHANGED items /\ todo' = Tail(todo)
      BY <1>9, <2>4 DEF ReadPartSpent
    <3>2. PartsSoFar'
      BY <1>1, <1>2, <2>1, <2>2, <2>4, <3>1, PartUnspent
    <3> QED
      BY <2>1, <3>2 DEF PageInv
  <2> QED
    BY <2>3, <2>4
<1>10. CASE EndParts
  <2>1. /\ step = "part" /\ todo = <<>> /\ step' = "done"
        /\ UNCHANGED <<todo, items>>
    BY <1>10 DEF EndParts, Finish, locals
  <2>2. PartsSoFar'
    BY <1>1, <2>1 DEF PageInv, PartsSoFar, PartTrue, AskedFor, PageCovered
  <2> QED
    BY <2>1, <2>2 DEF PageInv
<1>11. ~EndPositions
  BY <1>2 DEF EndPositions, PageInv
<1> QED
  BY <1>2, <1>4, <1>5, <1>6, <1>7, <1>8, <1>9, <1>10, <1>11
     DEF Handler, ReadTxBlock, ReadPosition, CountBlocks, ReadIds, ReadTxBlockOfOutput,
         ReadSpent, ReadSpentHeight, ReadMempool, EndOutpoints, TakeSnapshot,
         LookUpSpend, LookUpSpendOfTxo, ReadTxoTime, LookUpSpender,
         ReadPending, LookUpPending, EndOutputs, ListBlocks, ListByDate, ReadListedHeight,
         ReadInfo, EndList

LEMMA PageWrites ==
    ASSUME TablesGrow, PageInv, AsksPage,
           UNCHANGED <<op, arg, torn, before, step, hash, height, todo, items, status>>
    PROVE  PageInv'
<1>1. \A o \in DOMAIN txoSpent : o \in DOMAIN txoSpent' /\ txoSpent'[o] = txoSpent[o]
  BY DEF TablesGrow, Extends
<1>2. ASSUME PartsSoFar PROVE PartsSoFar'
  <2>1. \A x \in ToSet(items') : PartTrue(x)'
    BY <1>1, <1>2 DEF PartsSoFar, PartTrue
  <2>2. \A r \in ToSet(todo') : AskedFor(r)'
    BY <1>1, <1>2 DEF PartsSoFar, AskedFor
  <2> QED
    BY <1>2, <2>1, <2>2 DEF PartsSoFar, PageCovered
<1> QED
  BY <1>2 DEF PageInv

LEMMA PageAlways == Spec => []PageInv
<1>1. Init => PageInv
  BY DEF Init, PageInv, AsksPage
<1>2. ServerInv /\ ServerInv' /\ Undisturbed /\ PageInv /\ [Next]_serverVars => PageInv'
  <2> SUFFICES ASSUME ServerInv, ServerInv', Undisturbed, PageInv, [Next]_serverVars, AsksPage'
               PROVE  PageInv'
    BY DEF PageInv
  <2>1. CASE Close
    BY <2>1 DEF Close, AsksPage
  <2>2. ASSUME NEW o \in Operations, NEW x \in Arguments(o), Begin(o, x)
        PROVE  PageInv'
    BY <2>2 DEF Begin, PageInv, AsksPage, FirstRead, ServerInv, RequestOK
  <2>3. CASE Handler
    <3>1. AsksPage
      BY <2>3, ReadsBetween DEF AsksPage
    <3> QED
      BY <2>3, <3>1, PageReads
  <2>4. CASE Writes
    <3>1. op # "none" /\ ~torn'
      BY <2>4, WritesAside DEF handler, request, AsksPage
    <3>2. /\ ~torn /\ TablesGrow
          /\ UNCHANGED <<op, arg, step, hash, height, todo, items, status, before>>
      BY <2>4, <3>1, WritesBetween
    <3>3. AsksPage
      BY <3>2 DEF AsksPage
    <3>4. torn \in BOOLEAN /\ torn' \in BOOLEAN
      BY DEF ServerInv, RequestOK
    <3>5. UNCHANGED torn
      BY <3>1, <3>2, <3>4
    <3> QED
      BY <3>2, <3>3, <3>5, PageWrites
  <2>5. CASE UNCHANGED serverVars
    BY <2>5 DEF serverVars, handler, request, locals, indexerVars, index, PageInv, AsksPage,
                PartsSoFar, PartTrue, AskedFor, PageCovered
  <2> QED
    BY <2>1, <2>2, <2>3, <2>4, <2>5 DEF Next, Writes
<1> QED
  BY <1>1, <1>2, ServerAlways, UndisturbedAlways, PTL DEF Spec

\* What is told of a part of a transaction.
Telling(p, o, t) == {x.told : x \in {y \in Listed : y.part = p /\ y.out = o /\ y.tx = t}}

\* A page of a block that was recorded when the request came tells of its
\* transactions, in their number, what each made, whom it was made out to and,
\* if it was spent by then, by whom and at what height; and of what each spent
\* that it was recorded.
THEOREM PagesAnswered == Spec => []PageAnswered
<1>1. ServerInv /\ Undisturbed /\ PageInv => PageAnswered
  <2> SUFFICES ASSUME ServerInv, Undisturbed, PageInv, Answered("getBlockTransactions"),
                      arg.block \in before.recorded
               PROVE  PageAnswered
    BY DEF PageAnswered
  <2>1. step = "done" /\ status = "ok" /\ AsksPage
    BY DEF Answered, ServerInv, RequestOK, AsksPage
  <2>2. PartsSoFar /\ todo = <<>>
    BY <2>1 DEF PageInv
  <2>3. Listed = ToSet(items) /\ ToSet(todo) = {}
    BY <2>2 DEF Listed, ToSet
  <2>4. /\ \A x \in Listed : PartTrue(x)
        /\ PageCovered(Listed, {})
    BY <2>2, <2>3 DEF PartsSoFar
  <2>5. Listed \cup {} = Listed /\ \A p, o, t : ~Named({}, p, o, t)
    BY DEF Named
  <2>6. ASSUME NEW t \in PageTxs(arg.block, arg.page), NEW o \in Takes[t]
        PROVE  /\ Telling("value", o, t) = {TRUE}
               /\ {Positive(c) : c \in Telling("from", o, t)} = {PaidTo(o)}
    <3>1. Named(Listed, "value", o, t) /\ Named(Listed, "from", o, t)
      BY <2>4, <2>5 DEF PageCovered
    <3>2. Telling("value", o, t) = {TRUE}
      <4>1. PICK v : v = TRUE
        OBVIOUS
      <4>2. \A x \in Listed : x.part = "value" /\ x.out = o /\ x.tx = t => x.told = v
        BY <2>4, <4>1 DEF PartTrue
      <4>3. Telling("value", o, t) = {v}
        BY <3>1, <4>2 DEF Named, Telling
      <4> QED
        BY <4>1, <4>3
    <3>3. \A x \in Listed : x.part = "from" /\ x.out = o => Positive(x.told) = PaidTo(o)
      BY <2>4 DEF PartTrue
    <3>4. {Positive(c) : c \in Telling("from", o, t)} = {PaidTo(o)}
      BY <3>1, <3>3 DEF Named, Telling
    <3> QED
      BY <3>2, <3>4
  <2>7. ASSUME NEW t \in PageTxs(arg.block, arg.page), NEW o \in OutsMade(t)
        PROVE  /\ {Positive(c) : c \in Telling("to", o, t)} = {PaidTo(o)}
               /\ o \in before.spent =>
                     /\ Telling("spent", o, t) = {txoSpent[o].tx}
                     /\ Telling("height", o, t) = {HeightOf[txoSpent[o].block]}
    <3>1. /\ Named(Listed, "to", o, t)
          /\ o \in before.spent => Named(Listed, "spent", o, t) /\ Named(Listed, "height", o, t)
      BY <2>4, <2>5 DEF PageCovered
    <3>2. \A x \in Listed : x.part = "to" /\ x.out = o => Positive(x.told) = PaidTo(o)
      BY <2>4 DEF PartTrue
    <3>3. {Positive(c) : c \in Telling("to", o, t)} = {PaidTo(o)}
      BY <3>1, <3>2 DEF Named, Telling
    <3>4. ASSUME o \in before.spent PROVE Telling("spent", o, t) = {txoSpent[o].tx}
      <4>1. PICK v : v = txoSpent[o].tx
        OBVIOUS
      <4>2. \A x \in Listed : x.part = "spent" /\ x.out = o /\ x.tx = t => x.told = v
        BY <2>4, <4>1 DEF PartTrue
      <4>3. Telling("spent", o, t) = {v}
        BY <3>1, <3>4, <4>2 DEF Named, Telling
      <4> QED
        BY <4>1, <4>3
    <3>5. ASSUME o \in before.spent
          PROVE  Telling("height", o, t) = {HeightOf[txoSpent[o].block]}
      <4>1. PICK v : v = HeightOf[txoSpent[o].block]
        OBVIOUS
      <4>2. \A x \in Listed : x.part = "height" /\ x.out = o /\ x.tx = t => x.told = v
        BY <2>4, <4>1 DEF PartTrue
      <4>3. Telling("height", o, t) = {v}
        BY <3>1, <3>5, <4>2 DEF Named, Telling
      <4> QED
        BY <4>1, <4>3
    <3> QED
      BY <3>3, <3>4, <3>5
  <2> QED
    BY <2>6, <2>7 DEF PageAnswered, PageTxs, Positive, PaidTo, Telling
<1> QED
  BY <1>1, ServerAlways, UndisturbedAlways, PageAlways, PTL
=============================================================================
