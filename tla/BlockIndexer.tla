---------------------------- MODULE BlockIndexer ----------------------------
(***************************************************************************)
(* The block index kept in LevelDB, and the operations of                  *)
(* VtcBlockIndexer::BlockIndexer on it (src/blockindexer.cpp).             *)
(*                                                                         *)
(* A family of database keys is a table: a function whose domain is the    *)
(* set of keys that are present.  indexBlock makes up to three separate    *)
(* database writes (remove what the replaced block left, raise             *)
(* "highestblock", write the batch of the new block), so it is three       *)
(* actions, between which readers look at the tables and the process may   *)
(* stop.                                                                   *)
(***************************************************************************)
EXTENDS Integers, Sequences, FiniteSets, Functions

CONSTANTS
    Blocks,         \* block hashes
    NoBlock,        \* no block: the empty string of the code
    ZeroHash,       \* what the genesis block names as its predecessor
    Prev,           \* Prev[b]: the previousBlockHash of b
    HeightOf,       \* HeightOf[b]: the number of blocks below b
    TimeOf,         \* TimeOf[b]: the timestamp of b
    Txs,            \* transaction hashes
    Outpoints,      \* transaction outputs: <transaction, index>
    Addresses,
    TxsOf,          \* TxsOf[b]: the transactions of b
    Credits,        \* Credits[b]: the (output, address) pairs of b, in order
    Debits,         \* Debits[b]: the (output, spender) pairs of b, in order
    MaxIndexings,   \* bound: how often one block is indexed
    MaxRestarts     \* bound: how often the process stops and starts again

Credit == [out : Outpoints, address : Addresses]
Debit == [out : Outpoints, tx : Txs]

ASSUME ChainAssumption ==
    /\ NoBlock \notin Blocks
    /\ ZeroHash \notin Blocks
    /\ Prev \in [Blocks -> Blocks \cup {ZeroHash}]
    /\ HeightOf \in [Blocks -> Nat]
    /\ \A b \in Blocks : HeightOf[b] = IF Prev[b] = ZeroHash
                                       THEN 0 ELSE HeightOf[Prev[b]] + 1
    /\ TimeOf \in [Blocks -> Nat]

\* Two credits of a block differ, and a block spends an output at most once:
\* the blocks on disk have passed the coin daemon's validation.
ASSUME ContentsAssumption ==
    /\ TxsOf \in [Blocks -> SUBSET Txs]
    /\ Credits \in [Blocks -> Seq(Credit)]
    /\ Debits \in [Blocks -> Seq(Debit)]
    /\ \A b \in Blocks : \A i, j \in DOMAIN Credits[b] :
          Credits[b][i] = Credits[b][j] => i = j
    /\ \A b \in Blocks : \A i, j \in DOMAIN Debits[b] :
          Debits[b][i].out = Debits[b][j].out => i = j

ASSUME BoundsAssumption == MaxIndexings \in Nat /\ MaxRestarts \in Nat

VARIABLES
    blockAt,        \* "block-<height>" and the other keys named by a height
    hashHeight,     \* "block-hash-<hash>"
    timeHash,       \* "block-hash-time-<time>"
    txBlock,        \* "tx-<tx>-block" and the other keys named by a transaction
    txoAddress,     \* how many "<output>-address-<n>" keys hold the address
    addressTxo,     \* "<address>-txo-<n>"
    blockTxo,       \* "<block>-txo-<n>": keys of addressTxo, in order of n
    txoSpent,       \* "txo-<output>-spent"
    blockTxoSpent,  \* "<block>-txospent-<n>": keys of txoSpent, in order of n
    highest,        \* "highestblock", -1 when absent
    nextTxoIndex,   \* the in-memory counters of the "<address>-txo" prefixes
    job,            \* the indexBlock call in progress
    restarts        \* how often the process has been restarted

index == <<blockAt, hashHeight, timeHash, txBlock, txoAddress, addressTxo,
           blockTxo, txoSpent, blockTxoSpent, highest>>
indexerVars == <<index, nextTxoIndex, job, restarts>>

\* The keys and values of new replace or join those of table.
Put(table, new) ==
    [k \in DOMAIN table \cup DOMAIN new |->
        IF k \in DOMAIN new THEN new[k] ELSE table[k]]
Entry(key, value) == [k \in {key} |-> value]
EmptyTable == [k \in {} |-> NoBlock]

Steps == {"idle", "clear", "highest", "batch"}
Idle == [step |-> "idle", block |-> NoBlock, height |-> 0]

-----------------------------------------------------------------------------
(* What the database and the counters answer.                              *)

HasIndexedBlock(b, h) == h \in DOMAIN blockAt /\ blockAt[h] = b

\* Mutants of LastIndex: without the counters in memory, and without the look
\* into the database.
LastIndexCounted(a) == Cardinality({k \in DOMAIN addressTxo : k[1] = a})
LastIndexForgotten(a) == IF a \in DOMAIN nextTxoIndex THEN nextTxoIndex[a] ELSE 0

\* The last index given out for the prefix of address a: the counter in
\* memory or, at its first use, the number of keys found in the database.
LastIndex(a) ==
    IF a \in DOMAIN nextTxoIndex
    THEN nextTxoIndex[a]
    ELSE Cardinality({k \in DOMAIN addressTxo : k[1] = a})

\* How many of the first i credits of b go to address a.
CreditsTo(b, a, i) == Cardinality({j \in 1..i : Credits[b][j].address = a})

\* The key under which the i-th credit of b is stored.
TxoKey(b, i) == LET a == Credits[b][i].address
                IN  <<a, LastIndex(a) + CreditsTo(b, a, i)>>

TxoKeys(b) == [i \in 1..Len(Credits[b]) |-> TxoKey(b, i)]

\* The records of the credits and of the debits of b in its batch.
TxoRecords(b, h) ==
    [k \in Range(TxoKeys(b)) |->
        LET i == CHOOSE i \in 1..Len(Credits[b]) : TxoKey(b, i) = k
        IN  [out |-> Credits[b][i].out, height |-> h]]

\* The counters of the addresses b credits, once its batch is built.
CountersAfter(b) ==
    [a \in {c.address : c \in Range(Credits[b])} |->
        LastIndex(a) + CreditsTo(b, a, Len(Credits[b]))]

SpentOutpoints(b) == [i \in 1..Len(Debits[b]) |-> Debits[b][i].out]

\* Mutant of SpentRecords: the first input is taken for a coinbase.
SpentRecordsSkipFirst(b) ==
    [o \in {Debits[b][i].out : i \in 2..Len(Debits[b])} |->
        LET i == CHOOSE i \in 1..Len(Debits[b]) : Debits[b][i].out = o
        IN  [block |-> b, tx |-> Debits[b][i].tx]]

SpentRecords(b) ==
    [o \in Range(SpentOutpoints(b)) |->
        LET i == CHOOSE i \in 1..Len(Debits[b]) : Debits[b][i].out = o
        IN  [block |-> b, tx |-> Debits[b][i].tx]]

-----------------------------------------------------------------------------
(* indexBlock, one action for each database write.                         *)

IndexerInit ==
    /\ blockAt = EmptyTable
    /\ hashHeight = EmptyTable
    /\ timeHash = EmptyTable
    /\ txBlock = EmptyTable
    /\ txoAddress = [c \in Credit |-> 0]
    /\ addressTxo = EmptyTable
    /\ blockTxo = [b \in Blocks |-> <<>>]
    /\ txoSpent = EmptyTable
    /\ blockTxoSpent = [b \in Blocks |-> <<>>]
    /\ highest = -1
    /\ nextTxoIndex = EmptyTable
    /\ job = Idle
    /\ restarts = 0

\* Mutant of IndexBlock: clears whether or not a block is replaced.
IndexBlockAlwaysClears(b, h) ==
    /\ job = Idle
    /\ ~HasIndexedBlock(b, h)
    /\ job' = [step |-> "clear", block |-> b, height |-> h]
    /\ UNCHANGED <<index, nextTxoIndex, restarts>>

\* The call, up to the decision whether a block at this height is replaced.
IndexBlock(b, h) ==
    /\ job = Idle
    /\ ~HasIndexedBlock(b, h)
    /\ job' = [step |-> IF h \in DOMAIN blockAt THEN "clear" ELSE "highest",
               block |-> b, height |-> h]
    /\ UNCHANGED <<index, nextTxoIndex, restarts>>

\* Mutants of ClearBlockTxos: only the spends, or only the TXOs, are removed.
ClearSpendsOnly ==
    /\ job.step = "clear"
    /\ txoSpent' = Restrict(txoSpent,
                      DOMAIN txoSpent \ Range(blockTxoSpent[blockAt[job.height]]))
    /\ job' = [job EXCEPT !.step = "highest"]
    /\ UNCHANGED <<blockAt, hashHeight, timeHash, txBlock, txoAddress, addressTxo,
                   blockTxo, blockTxoSpent, highest, nextTxoIndex, restarts>>

ClearTxosOnly ==
    /\ job.step = "clear"
    /\ addressTxo' = Restrict(addressTxo,
                        DOMAIN addressTxo \ Range(blockTxo[blockAt[job.height]]))
    /\ job' = [job EXCEPT !.step = "highest"]
    /\ UNCHANGED <<blockAt, hashHeight, timeHash, txBlock, txoAddress, blockTxo,
                   txoSpent, blockTxoSpent, highest, nextTxoIndex, restarts>>

\* clearBlockTxos deletes every key that the lists of the replaced block
\* name; the lists themselves and all its other keys stay.
ClearBlockTxos ==
    /\ job.step = "clear"
    /\ LET old == blockAt[job.height]
       IN  /\ addressTxo' = Restrict(addressTxo,
                                DOMAIN addressTxo \ Range(blockTxo[old]))
           /\ txoSpent' = Restrict(txoSpent,
                                DOMAIN txoSpent \ Range(blockTxoSpent[old]))
    /\ job' = [job EXCEPT !.step = "highest"]
    /\ UNCHANGED <<blockAt, hashHeight, timeHash, txBlock, txoAddress, blockTxo,
                   blockTxoSpent, highest, nextTxoIndex, restarts>>

\* Mutants of PutHighest: one block late, and without the comparison.
PutHighestLate ==
    /\ job.step = "highest"
    /\ highest' = IF highest + 1 < job.height THEN job.height ELSE highest
    /\ job' = [job EXCEPT !.step = "batch"]
    /\ UNCHANGED <<blockAt, hashHeight, timeHash, txBlock, txoAddress, addressTxo,
                   blockTxo, txoSpent, blockTxoSpent, nextTxoIndex, restarts>>

PutHighestAlways ==
    /\ job.step = "highest"
    /\ highest' = job.height
    /\ job' = [job EXCEPT !.step = "batch"]
    /\ UNCHANGED <<blockAt, hashHeight, timeHash, txBlock, txoAddress, addressTxo,
                   blockTxo, txoSpent, blockTxoSpent, nextTxoIndex, restarts>>

PutHighest ==
    /\ job.step = "highest"
    /\ highest' = IF highest < job.height THEN job.height ELSE highest
    /\ job' = [job EXCEPT !.step = "batch"]
    /\ UNCHANGED <<blockAt, hashHeight, timeHash, txBlock, txoAddress, addressTxo,
                   blockTxo, txoSpent, blockTxoSpent, nextTxoIndex, restarts>>

\* The batch is written at once.  Every TXO takes the next index of its
\* address's prefix and of the block's prefix.
WriteBatch ==
    /\ job.step = "batch"
    /\ LET b == job.block
           h == job.height
       IN  /\ blockAt' = Put(blockAt, Entry(h, b))
           /\ hashHeight' = Put(hashHeight, Entry(b, h))
           /\ timeHash' = Put(timeHash, Entry(TimeOf[b], b))
           /\ txBlock' = Put(txBlock, [t \in TxsOf[b] |-> b])
           /\ txoAddress' = [c \in Credit |->
                  txoAddress[c] + IF c \in Range(Credits[b]) THEN 1 ELSE 0]
           /\ addressTxo' = Put(addressTxo, TxoRecords(b, h))
           /\ blockTxo' = [blockTxo EXCEPT ![b] = @ \o TxoKeys(b)]
           /\ txoSpent' = Put(txoSpent, SpentRecords(b))
           /\ blockTxoSpent' = [blockTxoSpent EXCEPT ![b] = @ \o SpentOutpoints(b)]
           /\ nextTxoIndex' = Put(nextTxoIndex, CountersAfter(b))
    /\ job' = Idle
    /\ UNCHANGED <<highest, restarts>>

\* The process stops, at any step, and starts again: the database keeps what
\* was written, the counters and the call in progress are gone.
RestartIndexer ==
    /\ restarts < MaxRestarts
    /\ restarts' = restarts + 1
    /\ nextTxoIndex' = EmptyTable
    /\ job' = Idle
    /\ UNCHANGED index

\* The caller walks a chain upwards, so the predecessor of the block it hands
\* over is recorded one height below (BlockFileWatcher states which chain).
CallIndexBlock(b) ==
    /\ Prev[b] # ZeroHash => HasIndexedBlock(Prev[b], HeightOf[b] - 1)
    /\ IndexBlock(b, HeightOf[b])

IndexBlockStep == ClearBlockTxos \/ PutHighest \/ WriteBatch

IndexerNext == \/ \E b \in Blocks : CallIndexBlock(b)
               \/ IndexBlockStep
               \/ RestartIndexer

IndexerSpec == IndexerInit /\ [][IndexerNext]_indexerVars

\* The lists of b are as long as MaxIndexings batches allow.
MayIndex(b) ==
    /\ Len(blockTxo[b]) < MaxIndexings * Len(Credits[b]) \/ Credits[b] = <<>>
    /\ Len(blockTxoSpent[b]) < MaxIndexings * Len(Debits[b]) \/ Debits[b] = <<>>

RunningNext == \/ \E b \in Blocks : MayIndex(b) /\ CallIndexBlock(b)
               \/ IndexBlockStep

\* An indexer that is never restarted, with the bound that makes its states
\* finite in number.
RunningSpec == IndexerInit /\ [][RunningNext]_indexerVars

-----------------------------------------------------------------------------
(* Properties.                                                             *)

\* A table with keys in K and values in V.
IsTable(table, K, V) == DOMAIN table \subseteq K /\ Range(table) \subseteq V

\* Every table has keys and values of its kinds.
TypeOK ==
    /\ IsTable(blockAt, Nat, Blocks)
    /\ IsTable(hashHeight, Blocks, Nat)
    /\ IsTable(timeHash, Nat, Blocks)
    /\ IsTable(txBlock, Txs, Blocks)
    /\ txoAddress \in [Credit -> Nat]
    /\ IsTable(addressTxo, Addresses \X Nat, [out : Outpoints, height : Nat])
    /\ blockTxo \in [Blocks -> Seq(Addresses \X Nat)]
    /\ IsTable(txoSpent, Outpoints, [block : Blocks, tx : Txs])
    /\ blockTxoSpent \in [Blocks -> Seq(Outpoints)]
    /\ highest \in Nat \cup {-1}
    /\ IsTable(nextTxoIndex, Addresses, Nat)
    /\ job \in [step : Steps, block : Blocks \cup {NoBlock}, height : Nat]
    /\ (job.step # "idle") <=> (job.block \in Blocks)
    /\ job.step = "clear" => job.height \in DOMAIN blockAt
    /\ restarts \in 0..MaxRestarts

\* The height whose block has been cleared and not yet been replaced.
Replacing == IF job.step \in {"highest", "batch"} THEN {job.height} ELSE {}

\* The blocks recorded by height whose contents the tables should hold.
Intact == {blockAt[h] : h \in DOMAIN blockAt \ Replacing}

TxosOf(b) == {[address |-> c.address, out |-> c.out, height |-> HeightOf[b]] :
                 c \in Range(Credits[b])}

StoredTxos == {[address |-> k[1], out |-> addressTxo[k].out,
                height |-> addressTxo[k].height] : k \in DOMAIN addressTxo}

\* The address records are those of the recorded blocks: a reorganisation
\* takes away the records of every replaced block and of no other, also when
\* a block comes back after having been replaced.
TxosMatchBlocks == StoredTxos = UNION {TxosOf(b) : b \in Intact}

\* No output is stored twice for an address at one height, so no balance
\* counts it twice.
NoTxoTwice ==
    \A k, l \in DOMAIN addressTxo :
        k[1] = l[1] /\ addressTxo[k] = addressTxo[l] => k = l

\* An output is reported as spent only by a block that is recorded at its
\* height, not by one that a reorganisation removed (outpointSpend).
SpentByRecordedBlock ==
    \A o \in DOMAIN txoSpent :
        LET b == txoSpent[o].block IN HasIndexedBlock(b, HeightOf[b])

\* Every output that a recorded block spends is reported as spent.
SpendsRecorded ==
    \A b \in Intact : \A i \in DOMAIN Debits[b] : Debits[b][i].out \in DOMAIN txoSpent

\* "highestblock" names the top of the recorded heights: it is ahead of them
\* only between its own write and that of the batch.
HighestIsTip ==
    (restarts = 0 /\ job.step # "batch") =>
        DOMAIN blockAt = 0..highest

\* A TXO is stored under a key that is free: what getNextTxoIndex returns is
\* never in use.
NoTxoOverwritten ==
    [][\A k \in DOMAIN addressTxo : k \in DOMAIN addressTxo' =>
           addressTxo'[k] = addressTxo[k]]_indexerVars
=============================================================================
