# A verification of the block indexer

TLA+ specifications of the blockchain indexer in `src/` (C++: a process that
follows the block files of a Bitcoin-like coin daemon, keeps an index of blocks,
transactions and address balances in LevelDB, watches the daemon's mempool and
answers queries over HTTP), their TLC configurations, and theorems proved with
TLAPS. File names below are relative to `src/src/` of the repository.

## 1. Inventory

The process has three threads: the *watcher* (scan, chain selection, indexing),
the *mempool monitor*, and the *web server* on the main thread. They share the
LevelDB handle, which is thread-safe per operation, and the `MempoolMonitor`
object, which has no lock.

| Component | State | Operations | Calls and shares | Correct means | Hard because |
|---|---|---|---|---|---|
| `BlockIndexer` (`blockindexer.cpp`) | the key families of the database; `nextTxoIndex` in memory | `hasIndexedBlock`, `indexBlock`, `clearBlockTxos`, `getNextTxoIndex` | called by the watcher; calls `MempoolMonitor::transactionIndexed`; the web server reads its tables | the address and spend records are those of the recorded blocks, through reorganisations and restarts | three separate writes per block; lists of replaced blocks stay; counters rebuilt from the database |
| `BlockFileWatcher` (`blockfilewatcher.cpp` 40-247) | `maxLastModified`, `blocks`, `blockHeight` | `startWatcher`, `scanBlockFiles`, `scanBlocks`, `updateIndex`, `processNextBlock`, `findLongestChain` | reads files the daemon is writing; calls `BlockIndexer` | the index ends at a longest chain of the stored blocks, heights right, and catches up | files grow during the scan; blocks in any order and twice; whole-second times; an unbounded recursive loop |
| double-spend analysis (`blockfilewatcher.cpp` 249-579) | `blocksByHeight` | `dumpDoubleSpends`, `indexBlocksByHeight`, `analyzeDoubleBlocks` | one-shot report over the daemon's files; reads whole blocks and scripts | finds the outputs two branches spend differently, and nothing else | an uninitialised member; the files grow; branches that fork again |
| `MempoolMonitor` (`mempoolmonitor.cpp`) | `mempoolTransactions`, `addressMempoolTransactions` | `startWatcher`, `transactionIndexed`, `getTxIds`, `getTxos`, `outpointSpend` | polls the daemon; called by the indexer and the web server | what it holds is the daemon's pool, less what is indexed | two writers without a lock; a snapshot worked through with remote calls |
| `HttpServer` (`httpserver.cpp`) | none | thirteen handlers | reads the database and the monitor, asks the daemon | an answer is true of some state of the index | every handler reads several keys while the indexer writes |
| `main.cpp` | the shared pointers | open database, start threads, or dump | all | nothing is used before it exists | threads start before what they use |
| `BlockScanner`, `FileReader` | a position in a file | `open`, `moveNext`, `scanNextBlock` | used by the scan | misses no block, and knows where each is | the file grows; the last block may be half there |
| `BlockReader` | a position in a file | `readBlock`, `readTransaction` | used by the indexer and the dump | reads back what the daemon wrote, with the right hashes | witnesses are left out of the hash by a second reading |
| `ScriptSolver` | none | `getScriptType`, `getAddressesFromScript` | used by the indexer, the dump, the monitor and the web server | finds whom a script pays | kinds told apart by size and a few bytes |
| `Utility`, `crypto/bech32.cpp` | none | base 58, bech32, hexadecimal, hashes | used by `ScriptSolver` and the readers | an address is read back as what was encoded | carries between digits, leading zeros, a last group |
| `CoinParams`, stream buffers | none to speak of | read parameters, adapt streams | used by the above | - | - |
| `vertcoinrpc.h`, `crypto/`, `json.hpp`, `cxxopts.hpp`, `doublespendviewer/` | - | generated, third-party or presentation | - | - | - |

The hazards, each at its line and with the properties that would catch it, are in
`PROJECT.json` ("hazards").

## 2. Plan

1. `BlockIndexer`, its theorems, and the small chains that check it - **done**
2. `ChainSelection`, `LongestChain`, `BlockFileWatcher` composed with
   `BlockIndexer` - **done**
3. `MempoolMonitor` - **done**
4. `HttpServer`: handlers as sequences of reads of the tables of `BlockIndexer`,
   interleaved with its three writes; what each answer is true of - **done** for
   eleven handlers; the two others pass one call on to the daemon
5. `Ledger`, an abstract specification of the index, and `IndexerLedger`, the
   mapping under which `BlockIndexer` implements it while it is not restarted -
   **done**
6. `Startup` (order of thread creation), `BlockFiles` (a file that grows, blocks
   half written, and how they are read), `ScriptSolver` and `Addresses`,
   `DoubleSpends` (which blocks are compared, and what the report says) - **done**
7. Proofs: the tables of the index and the ledger they implement, the startup,
   the watcher, `findLongestChain`, the mempool monitor, the answers of the web
   server - **done**
8. Proofs: what `BlockFiles` reads back, the marks of `DoubleSpends`, and that its report
   is true and has all it should have - **done**

## 3. The modules

**`BlockIndexer`** - a family of keys is a table, a function on the keys present.
`blockAt` stands for `block-<height>` and the five other keys that one height
names, `txBlock` for the keys that one transaction names; `addressTxo`,
`blockTxo`, `txoSpent`, `blockTxoSpent` are the records that a reorganisation has
to undo. A block-prefixed list, whose keys are numbered from the same counters, is a
sequence. A call of `indexBlock` is `IndexBlock` (the look at the height),
`ClearBlockTxos` if another block is there, `PutHighest`, `WriteBatch`: one
action for each database write, with `job` between them. `RestartIndexer` may come at
any of these points: LevelDB applies a batch entirely or not at all, and loses at
most the latest writes, so a crash is a stop at an earlier point. Transactions,
outputs and addresses are names; what a block credits and spends are the
constants `Credits` and `Debits`, in block order. `CallIndexBlock` is what the
indexer may be asked when it is looked at alone: the predecessor is recorded
below.

**`Ledger`** - what a reader of the index is promised: blocks are posted and
withdrawn whole, nothing is spent twice. There are no writes, keys, counters or
lists in it. **`IndexerLedger`** maps the tables to it: the blocks whose records
are complete are posted, the stored TXOs and spends are its credits and spends.
`KeepsLedger` says that every database write either withdraws one whole block, or
posts one whole block, or changes nothing a reader sees - so that the deletion
keyed by lists that have grown, and by transactions both branches share, removes
exactly what the block brought.

**`Startup`** - extends `BlockIndexer` with the statements of `main` in order, the
pointers they fill, and the watcher thread that is started before what it uses.
A thread that runs before there is a watcher ends the process; so may anything else
(`Stop`).

**`ChainSelection`** - which follower of a block is taken: a deepest one and, of
several, the last in scan order. This is the definition `BlockFileWatcher` uses.
**`LongestChain`** - the loop that the code runs to decide it, frame by frame with
an explicit stack for its recursion; its run shows that the two agree.

**`BlockFileWatcher`** - extends `BlockIndexer` with the daemon (appends any
block to any file at any time, in any order), the clock, and the watcher thread:
one `stat` at a time, one file of the scan at a time, one block of the walk at a
time. `Indexing` is the indexer's next write. `Enter` is the duplicate check of
`scanBlocks`.

**`MempoolMonitor`** - the daemon's pool and chain (`Accept`, `Evict`, `Mine`,
`Unmine`: external), the monitor's round (`Poll` to `EndPoll`), and the indexer's
thread as far as it calls `transactionIndexed` (`TakeBlock` to `WriteBlock`). One
operation on a map is one step; the order in which a JSON array or a map is
walked is free.

**`HttpServer`** - extends `BlockIndexer` with one request at a time (the service
runs its handlers on one thread) and one action for each read of a handler:
`getBlock`, `getBlocks`, `getBlocksByDate`, `getBlockTransactions`,
`getTransactionProof`, `outpointSpend`, `outpointSpends`, `addressBalance`,
`addressTxos`, `sync` and `mempoolTransactionIds`; handlers that make the same read share
its action. An answer is sent at once (`Close`). A LevelDB iterator shows the
database of the moment it was made (`TakeSnapshot`, `ListBlocks`, `ListByDate`, the
parts of a page), a `Get` the database of its own moment. Its keys come in order:
the numbers of an address, and the times of blocks, are walked from the least one up
(`Ascending`). The
indexer's actions get the calls of `transactionIndexed` between `highestblock`
and the batch; the monitor is reduced to a set of transactions, which
`MonitorInserts` extends and `transactionIndexed` shrinks, each at once. It enters
no transaction that is indexed already, although the monitor can: that is
`mempool_indexed`, and no answer about the mempool is right after it. `torn` and
`before` are history variables for the properties.

A reorganisation that is seen by a request tears its answer: the reads go by
height, and one height after another changes its block. The properties of `HttpServer`
are therefore of answers during which no reorganisation was under way
(`Settled` at the start, nothing cleared until the end). They still hold again
after any number of reorganisations, with whatever those left in the tables.

**`BlockFiles`** - a block file is a sequence of tokens: numbers, headers, inputs,
outputs, witness items, each what a few reads of the code take. The daemon writes
its last block in four parts at any moment (`DaemonWrites`); what it has not written
reads as zero, because the files are extended with zeros ahead of the data or
because a failed read leaves its variable as it was. `moveNext` and
`scanNextBlock` are the scan, `readBlock` and `readTransaction` the second
reading, with the marker of a witness transaction and the part of it that is
hashed.

**`ScriptSolver`** - the tests of `getScriptType` in their order and the loops of the
multi-signature and data scripts, over bytes. **`Addresses`** - base 58, the regrouping
of bits and the checksum of bech32, the addresses made with them. The hash
functions are its parameters: nothing depends on what they compute. The module
has the other direction too, `ReadAddress`, written from what an address means:
it is the reference that a wallet stands for. The checksum is tied to the
published one by an assumption TLC evaluates, a valid string of BIP 173.

**`DoubleSpends`** - extends both with `dumpDoubleSpends`: the scan, the blocks
arranged by height with those of the longest chain marked, the branches
collected while a height has several blocks, and their spends compared at the next
height that has one. Reading is part of each of these steps, so what the daemon
writes in between is seen. A mark that `scanNextBlock` leaves unset may be read
as true (`garbage`). The report is the set of facts it states - an output spent by
two transactions of two blocks, a transaction that spent the coinbase of a lost
block, what is told of outputs - and not their grouping. An exception, which ends
the program without a report, is the step "aborted".

`MC*` modules only give the constants their values. `*Proofs` modules hold the
theorems about the module they are named after and about those it extends
(`BlockIndexerProofs`: `Ledger` too; `WatcherProofs`: `BlockFileWatcher` and `Startup`),
`CommonLemmas` what they share. A definition named as
the mutant of another is an operator that stands for a plausible mistake; the specification
does not use it, and with it in the place of the original the property named in
`PROJECT.json` fails.

The modules that are proved about have loops over sequences as recursive
functions or as functions given by a quantifier (`Followers`, `FoundIn`, `Above`,
`Without`), not as operators of the libraries: those take an operator as a
parameter, and the provers learn nothing of what they compute. Where `HttpServer` uses
operators of the libraries (`SetToSeq`, `FlattenSeq`), its proofs say first what those
compute, and so do those of `DoubleSpends` for `FlattenSeq`, which it uses where the code
appends to a vector in a loop.

## 4. What is checked

| Run | Bounds | Shows |
|---|---|---|
| `indexer_reorg` | six blocks, a fork of two against three; five indexings in all; no restart | all safety properties of the tables in every order of replacing and coming back, and that they implement the ledger |
| `indexer_growth` | four blocks in a line, four restarts, each from the first statement of `main` | counters rebuilt from the database are right as long as nothing was removed; the indexer reports to the monitor the web server asks |
| `watcher` | four blocks, a branch of one against one of two; two files; four stored blocks, repetitions included; two seconds; one restart | heights, links and `highestblock` at the end of every walk; no spend of a replaced block |
| `watcher_live` | the same blocks in one file; two seconds; one restart | the index catches up; the watcher implements `IndexerSpec` |
| `longest_chain` | all trees of five blocks, all scan orders, all forks in them | the loop ends, indexes within bounds, returns the block `ChainSelection` says |
| `mempool` | two transactions, one paying two addresses; one return to the pool | nothing that stays in the pool is overlooked; no output is listed twice before a reorganisation |
| `http` | five blocks, a fork of two against two, each indexed once; proofs of two blocks, lists of three, pages of one transaction, where the code has ten, a hundred and ten; arithmetic modulo 1000 | proofs and lists are linked; balances, outputs, pages and spends are those of the chain; nothing counted twice |
| `double_spends` | eleven blocks, a fork at the start, a fork of that fork, two more above; seven layouts in two files; the last block of one file in any stage of being written; one unset mark | every block found, where it is, and read back; the chain marked is the chain indexed; what is reported is true; what forks spend twice is reported; addresses pay whom the scripts pay; the dump ends |
| `reused_index`, `lost_txos`, `early_respend`, `mempool_indexed` | as small as shows it | a statement of a header file that does not hold, see below |

The bounds are those at which the interesting cases happen: a fork whose branches
differ in length is needed for a replacement, two heights of it for a replacement
that is only half done, a second indexing of a block for lists that have grown, a
fifth block for a fork above a fork. The length of a proof has to be smaller than
the highest block, so that proofs below it, of it and above it occur; the modulus only
has to be larger than every sum. A further second of the clock only adds
another change that is noticed. The seven layouts are the ones that differ in what
the dump does with them: blocks in order, a fork before the chain, everything
backwards, a tie, blocks stored twice, a branch that forks again, a single block. A half-written
block is interesting only as the last of a file; two of them would meet in no step.
The scripts pay hashes and keys that consist of the very bytes the tests look for,
with a leading zero where base 58 counts them.

**Fairness.** `WF(WatcherStep)`: the thread's loop has no wait but a sleep of a
second, and every call in it returns (that of `findLongestChain` is what
`longest_chain` checks). `WF(Monitor)`, `WF(Indexer)`: the same for the two
threads, remote calls answering or failing. `DoubleSpends`: weak fairness of the
dump, a single thread that waits for nothing, written out as "ended, or steps for
ever"; the daemon may stop writing at any point. Nothing is assumed of the daemon,
the clock or restarts anywhere. `CatchesUp` is checked with `SameSecondWrites = FALSE`,
and needs it: times are compared in whole seconds, so a block that is appended in
the second of a modification time already seen stays unnoticed until the next
write.

**Where the code does not do what its comments say** (the runs that expect a
violation; TLC prints the behaviour):

- `reused_index`: `getNextTxoIndex` counts keys at its first use of a prefix.
  After a reorganisation removed keys that are not the last ones, and a restart,
  it returns an index in use, and a stored TXO is overwritten.
- `lost_txos`: a stop between `clearBlockTxos` and the batch, and a chain that
  comes back to the old block: `hasIndexedBlock` answers true, its TXOs are gone.
- `early_respend`: a transaction mined at a lower height in the new branch: its
  spend record, already rewritten, is removed when the old block is cleared. The
  output counts as unspent.
- `mempool_indexed`: a block indexed between the poll and the insertion leaves
  its transaction in the mempool for good.

Further limits show in the models, contradict nothing the repository says, and are
claimed by no property:

- an evicted transaction never leaves the monitor's map, and an output pushed while
  `transactionIndexed` holds its copies is lost when they are written back;
- between the notification of the mempool and the batch, a spend is in neither;
- the hash of a replaced block is answered by `getBlock` with the block that
  replaced it, and is still listed by `getBlocksByDate`;
- `getBlock` of a block that was indexed after `highestblock` was read has
  confirmations that wrapped around;
- `getBlocks` fails between the writes of `highestblock` and of its block;
- a proof below height 10 is empty (`ProofIsChain` says so); the proof of a transaction
  that two branches have at different heights may be one of the wrong height, because
  "tx-<hash>-block" keeps the block that was written last;
- a page of a block has eleven transactions, the last of them also on the next
  page (`httpserver.cpp:276`), and after a reorganisation a page tells an address
  twice (`blockindexer.cpp:222`);
- `outpointSpends` puts a spender found in the mempool into a variable that hides
  the answer (`httpserver.cpp:889`), which then has neither; a spender mined between the
  look at the index and the look at the mempool is in neither, and the output is
  called unspent;
- the report of double spends loses blocks of a branch that forks again, and does not compare
  what is spent at heights that have a single block;
- `getScriptTypeName` throws for the scripts classified as known non-standard, which
  ends the report; the names of the two witness kinds are exchanged
  (`scriptsolver.cpp:99-115`), which no address depends on.

## 5. What is proved

All theorems are for any blocks, contents, files, transactions and addresses, and
for any number of steps; the bounds of TLC are constants with any value in them.
What is assumed: `ChainAssumption` (heights count predecessors) and
`ContentsAssumption` (a block spends an output once, its credits differ: the daemon has
validated it); for the web server `ServerAssumption` (types; what a block credits and
debits is what its transactions make and take; no restart, which would end a request;
no sum reaches the modulus) and `ValidityAssumption` (in a chain no transaction is mined
twice, nothing is spent twice, and what is spent was made: the daemon has validated the
blocks); for the files and the report of double spends `FilesAssumption` (types; a block
has a transaction; a transaction with witnesses has one for each input, since the format
has no other; no block is among its own ancestors, because a hash covers the hash
before it; the hash of zeros and the header of zeros are no block's, and no input names
the hash of zeros but that of a coinbase); and six hypotheses that some of the theorems name.

- `NoRestartInReorg`: the process is never restarted, or no two blocks have the same
  height. Both halves are proved in one argument. Without it the statements are
  false: `reused_index` and `lost_txos` are restarts after, and in, a reorganisation.
- `SpentAtOneHeight`: blocks of different heights spend different outputs.
  `early_respend` is a transaction that two branches have at different heights.
- `OneHeight`: no two blocks have a transaction at different heights. Only the proof
  of a transaction needs it: the block named for a transaction is the one written last,
  and when a reorganisation is given up half-way it stays one of the other branch.
- `ValidSpends`, `ValidBlocks`, `WrittenOnce`: what the daemon sees to in the blocks it
  stores. Only the report of double spends needs them; see there.

**The index** (`BlockIndexerProofs`).

- `TypeCorrect`. Inductive with the finiteness of the address table, which makes
  the count at the first use of a prefix a number.
- `HighestCorrect`. `NoGap` adds what holds while the batch is outstanding: the
  recorded heights with that of the block in hand have no gap, because its predecessor
  is recorded when it is handed over and stays so (`GoesOnTop`).
- `SpentByRecorded`, with restarts anywhere. A batch replaces a block whose spends
  must be gone already. `AtOwnHeight` (a recorded block is at its own height),
  `SpendsListed` (every spend is in the list of the block it names, so clearing
  finds it) and `ClearedHasNoSpends` (between the removal and the batch no spend
  names the block at that height, and a restart in between changes nothing).
- `NeverOverwritten`. `KeysCounted`: no key, stored or listed, is above the counter
  of its address, so that the new keys of a batch, all above it, are free. It is kept
  either because the counter is in memory from the first key on (`InMemory`) or, on a
  straight chain that is restarted, because nothing was ever removed and counting the
  keys finds the last (`Exact`).
- `TxosCorrect`, `NeverTwice`. `clearBlockTxos` deletes every key in a list that was
  never shortened, so a key must not be given to two blocks, ever: the lists of two blocks
  have no key in common, every stored key is in the list of the intact block
  whose record it holds (`ListsDisjoint`, `RecordsListed`), and each credit of an intact
  block has a record in its list (`CreditsStored`).
- `SpendsKept`. The same for spends, whose keys do not name their block: the list of
  a block names only outputs it spends.
- `Implements`: `IndexerSpec => KeepsLedger`, step by step: a removal withdraws
  the block whose records it takes away, a batch posts its block, the other two are
  stutters. It uses the invariants above in both states.

**Startup** (`WatcherProofs`, last section). `RunsIndexer`: `StartupSpec => IndexerSpec`, so that what is
proved of the index holds of the program, stopped anywhere; `GrowsUndamaged`
draws the conclusion. `MonitorThere`: each pointer a thread uses is filled by
statements before the one that starts it, or checked by it (`Constructed`,
`OnlyThreadIndexes`).

**The watcher** (`WatcherProofs`). `WatcherRunsIndexer`: every step of the watcher is a step of
`IndexerSpec` or a stutter. It needs `PrefixRecorded`'s invariant: below the
height of the walk, each block is at its place and stands on the one before; that
is the guard with which `BlockIndexer` describes its caller. With it
`WatcherSpends` and `CompleteAtEnd` are the theorems about the index.
`LongestAtEnd`: from where the walk is, the scan leads as high as any block whose
chain is complete (`Leads`; `BestChild` chooses a follower that keeps this true), so at its
end it is at a highest one. Nothing is recorded above it, because what was ever recorded
has a complete chain among the stored blocks (`OnlyRooted`), which are still there
and are scanned again after a restart (`ScannedIsStored`, `Seen`).

**findLongestChain** (`LongestChainProofs`). `DeepestReturned`: an explicit stack of frames
against `ChainSelection`, which says of each block how long the chain above it
is. In each frame the chains before the loop index have made one move more than the others; a
chain has not ended as long as its moves are no more than its depth, and the block it
has come to has so many less above it (`Rounds`). A frame below the top waits for
the answer of the one above it, whose candidates are the followers of its block
(`Waits`). That the index stays inside the vectors (`IndexInside`) and that some chain
lives (`ChainsLive`, without which the loop would not end) are parts of the invariant.

**The mempool monitor** (`MempoolMonitorProofs`). `OutputsOnce` relates two threads
without a lock. Neither the list of an address nor the copy of it that `transactionIndexed` is
about to write back names a transaction more often than it pays the address, less what the
monitor has still to add (`HasRoom`); of a transaction that can be entered again they
name nothing (`Left`), since what is mined does not come back into the pool (`OnChain`) and
what is fetched was not in the snapshot (`Fetching`). It ends when a reorganisation returns a transaction that was
indexed (`returns`), because that enters it again; the property says so.

**The web server** (`HttpServerProofs`). Every answer that the run `http` checks is proved, for
requests of any length and blocks of any size. The argument has three layers.

- *The index.* `ServerRunsIndexer`: the server's steps are steps of the indexer, so the
  invariants of the index hold below it (`Base`). To these `Facts` adds what the tables
  say of each other: the blocks that were ever recorded, their predecessors and their
  transactions are indexed, an address has a count exactly
  if a block that was ever recorded credits it, every spend is one of its block's.
- *A request.* `Undisturbed`: as long as no reorganisation has been seen, the recorded
  blocks are one chain, and what was recorded and spent when the request came still is.
  It rests on `BatchOnTop`: a batch that replaces nothing meets a free height, and spends nothing
  spent already. `TablesGrow` is what it means for a reader: between two reads
  the tables only get larger, and the mempool loses a transaction that the index gets
  (`HasLeft`).
- *An answer.* For each handler one invariant says what the reads so far have
  found (`BlockInv`, `ProofInv`, `SpendersInv`, `ListInv`, `BalanceInv`, `TxosInv`, `PageInv`).
  A read establishes its next part from the tables as they are at that moment, and
  `TablesGrow` keeps the parts before it. `PageInv` is an example: what has been told is true,
  what is still to be read belongs to the block, and each thing the page owes has been
  told or is still to be read - of the height of a spender also when only the spender
  is still to be read, since that read orders the other. For the balances it has to
  be shown besides that an output of the mempool is none of the chain (`PendingAre`): a transaction
  is removed from the one before it enters the other.

The proofs need to know what an enumeration of a set, an ascending one and a flattened
sequence contain (`SetToSeqEnumerates`, `AscendingEnumerates`, `FlattenMembers`).

**The block files** (`BlockFilesProofs`). The scan reads
tokens while the daemon writes; what makes it right is one invariant over both,
`FilesInv`: there is a layout of which every file holds a beginning, all of it except
in the growing file (`FilesAre`); what was stored at the start are blocks of that layout
(`OldAre`); and of the file being scanned, the position is where a block starts or behind
all of them, each stored block before it has been found, and each
entry found is right (`ScanIs`, `Noted`).

- *The format.* Where a block starts is the length of the blocks before it
  (`Start`, `StartOrder`). At these places the magic is read, or zeros if the block is
  not yet there, and the scan gets from one of them to the next or to the end of
  what is written (`ReadsAre`, `ReadsNothingAtEnd`).
- `FoundCorrect`. The growing file is the delicate case: a block of which only
  magic and size are there is found with a header of zeros (`ZeroHeader`), the scan goes on
  behind what is written and finds no magic there; a file that grows afterwards makes nothing
  wrong that was noted down (`DaemonKeepsScan`). A block stored twice is kept once, and the entry
  that stays is one of a whole copy or of zeros (`KeepIs`).
- `TransactionRead`. `readTransaction` gives back what was serialized, for any inputs, outputs
  and witnesses: the marker is told from a number of inputs because no transaction has
  none, the loop over the witnesses ends at the lock time (`WitnessesSkipped`), and the
  bytes the hash is taken from are the transaction without marker and witnesses. It rests
  on what stands in a file at a place (`Stands`) and on that a part of what stands there
  stands behind the parts before it (`StandsPart`, `PartsStand`).
- `ReadBackCorrect`. `BlockRead` repeats this for the transactions of a block, each read from where
  the one before ended.

**The report of double spends** (`DoubleSpendsProofs`). `MarksCorrect` compares two uses of
`findLongestChain`: once for all blocks of a height, and block by block from the first,
as the indexer walks. The two agree on the last block of the longest chains in the order in
which they look. What has to be shown is that a height's best block follows the best block
of the height below. `Follow` counts how far the chain above a block goes (it is finite
because the predecessors have no cycle, `FollowEnds`). In a list of followers the last of
the deepest is that of the last of the deepest blocks below (`StepBest`), because the
followers of a height are listed in the order of the blocks they follow (`AboveAre`), the
best follower of a block is the one the walk goes to and has one block less above it
(`ChildBest`), and no follower of another block has more. `LevelsInv` says that the heights built so far are
these lists, each marked by one call; an induction over the heights (`WalkIs`) ends the argument.

`ReportCorrect`: what the report says is so, whichever marks were left unset and whenever
the daemon wrote on. The invariant has four parts: `FilesInv` and `LevelsInv` from above, where
the entries stand (`PlacesAre`), and `ReportInv`, which says of the collected branches
what they hold (`Branches`) and of the report that it is true.

- *What is read* (`EntryRead`). A block that is there whole is read right. Of one that is
  half there no transaction is read, or, because zeros are read behind what is written, one
  without inputs (`HalfBlockRead`), at which the comparison throws (`tx.inputs.at(0)`): no
  report comes of it. So what is compared are transactions of the block they are read
  from. Its hash is that of the entry, or the entry's is that of a header of zeros and the
  header has been written meanwhile (`ReadFrom`).
- *A double spend* names two entries of the list of spends, each from an input of a
  transaction of a collected block (`SpendsAre`, `TwiceIsTrue`). The marked one is of the
  walk, by the heights and marks of `MarksCorrect`, unless a mark was left unset (`MarkedIsOn`).
- *An orphan* spends the coinbase of a block without a mark, which is off the walk
  (`UnmarkedIsOff`, `CoinbasesAreLost`). Were the transaction in a block of the walk, the walk, which is a
  chain down to a first block, would hold the block of that coinbase (`OrphanIsOff`).

This last argument is where validity is needed: `ValidSpends` says that what the
blocks of a chain spend was made on it, that a coinbase is in one block, and that a first
block spends nothing. The daemon sees to it when it connects a block; of a block stored but never
connected, on a branch that was never the longest, it has not checked the spends, and the
theorem does not speak of files with an invalid one. `WrittenOnce` says that the block a file ends with is nowhere
else in the files. It cannot be left out: a block that is found whole may be begun a
second time, as a header of zeros, which is an entry of its own and gets no mark; read
again later it is a block of the walk without a mark (`LateHeader`), its coinbase counts as lost, and TLC
finds a transaction reported as an orphan that is in a block of the chain. The run `double_spends` evaluates
these hypotheses, and `ValidBlocks`, for its layouts (`DaemonAssumption`).

`ForksCorrect`: the converse, that what there is to report is reported. It holds of blocks that
were whole when the scan began and as long as no branch forks again (`NoForkOnFork`), which is
where the code loses blocks. `RunInv` says of the heights looked at so far that those in
one run with the last height of several blocks are in the branches (`RunHeld`), and that of all others
everything is reported (`RunsClosed`).

- *Collecting.* A block that was whole is read whole (`StoredRead`). `Place` loses no block and
  takes away one end of a branch only, that of the predecessor of what it places
  (`PlaceKeeps`); the blocks of a height have different predecessors, each the end of a
  branch, so that each finds its place and ends a branch afterwards (`PlaceAllKeeps`, `HeightPlaced`). The
  block of the walk is among them at every height (`WalkStands`).
- *Comparing.* What a collected block spends is in the list of spends (`SpendFound`). If the block
  of the walk spends an output, some spend of it is marked; the first marked one is
  noted with every spend by another transaction in another block, hence with at least one of the two
  in question, and with both if it is neither (`TwiceMade`). If no mark was left unset, no marked block spends
  the coinbase of a lost block (`NotMarked`), so that every transaction that spends it is
  looked at as an orphan (`OrphanNoted`, `CoinbaseLost`).
- *The runs.* A comparison takes place before the branches of a run are given up, at the first
  height of the next run or at the end. Two heights of one run are collected in the same
  branches (`RunsJoin`), and what is reported stays so (`ReportedStays`).

`ValidBlocks` says that a block begins with a coinbase and spends no output twice: of two
transactions of one block that spend the output, one may be the first marked spend, and the other
is not noted with it. `WrittenOnce` is needed for `StoredRead`: of a block that is begun a second time the
later, half-written copy may be the one that is looked at.

`CommonLemmas` has the little induction that is needed: least and greatest
numbers of a set, and induction in the form of a set of numbers, from the
well-foundedness of finite subsets in the library (the library's own induction
theorems take an operator); and what `FlattenSeq` makes of a list of sequences: where
each of them comes to stand (`FlattenPlaces`), what the members are, and which of those in
a set is the last (`FlattenLast`).

## 6. What is only model-checked, and what is not modelled

Only checked:

- liveness and everything that needs fairness: `CatchesUp`, `Terminates`, the
  mempool's and the dump's;
- `PayeesTold`: scripts and addresses. `ScriptSolver` and `Addresses` work through
  bytes, and a proof would need an induction for each loop; the checksum of bech32 is a
  computation over bits, for which the provers have no theory. Both are checked on
  the scripts of `double_spends`.

Not modelled:

- amounts, file positions and sizes in the index (they are written and overwritten
  together with what is modelled); the status of database writes, which the code
  ignores; undefined behaviour of the unlocked maps beyond lost updates;
- the handlers `getTransaction` and `sendRawTransaction`, and the `raw` and `script`
  options of the others: each passes one call on to the daemon, or copies bytes of a
  file into the answer;
- hexadecimal conversions, calls of hash functions, stream buffers, the parameter
  file: no state, and nothing another part depends on but the bytes;
- how integers are packed into bytes in the block files: a number is one token;
- `requiredSignatures` and `readRawBlockHeader`, which nothing calls;
- `vertcoinrpc.h` (generated), `doublespendviewer/` (a page that shows a report), the
  build;
- `json.hpp`, `cxxopts.hpp`, `crypto/ripemd160.cpp`: code of other projects. They
  are 16 750 of the 21 300 lines under `src/src`; of the program's own lines the models
  cover a little under half.
