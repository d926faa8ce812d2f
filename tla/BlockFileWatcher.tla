-------------------------- MODULE BlockFileWatcher --------------------------
(***************************************************************************)
(* The thread that watches the coin daemon's block files and brings the    *)
(* index up to date (src/blockfilewatcher.cpp): it compares modification   *)
(* times, scans all files, and walks the longest chain upwards, handing    *)
(* every block that is not indexed at its height to indexBlock.  The       *)
(* daemon appends to the files at any moment, in any order of blocks.      *)
(***************************************************************************)
EXTENDS BlockIndexer, FiniteSetsExt

CONSTANTS
    Files,              \* the blk*.dat files
    MaxStored,          \* bound: how many blocks are stored, twice or not
    MaxClock,           \* bound: the last second of the clock
    SameSecondWrites    \* may the daemon still write in the second of a
                        \* modification time the watcher has already seen?

ASSUME WatcherAssumption ==
    /\ MaxStored \in Nat /\ MaxClock \in Nat \ {0}
    /\ SameSecondWrites \in BOOLEAN

VARIABLES
    disk,               \* disk[f]: the blocks stored in f, in order
    mtime,              \* mtime[f]: the second of the last write to f, 0 if none
    clock,              \* the current second
    maxLastModified,    \* the largest modification time seen
    wpc,                \* where the thread is
    pending,            \* the files readdir has not yet returned
    shouldUpdate,
    scanned,            \* the blocks found by the scan, each once, in order
    nextBlock,          \* the argument of the next processNextBlock
    blockHeight

daemonVars == <<disk, mtime, clock>>
threadVars == <<maxLastModified, wpc, pending, shouldUpdate, scanned, nextBlock,
                blockHeight>>
watcherVars == <<indexerVars, daemonVars, threadVars>>

Chain == INSTANCE ChainSelection WITH AllBlocks <- Blocks, PrevOf <- Prev

WatcherSteps == {"sleep", "stat", "scan", "process", "index"}

WatcherInit ==
    /\ IndexerInit
    /\ disk = [f \in Files |-> <<>>]
    /\ mtime = [f \in Files |-> 0]
    /\ clock = 1
    /\ maxLastModified = 0
    /\ wpc = "sleep"
    /\ pending = {}
    /\ shouldUpdate = FALSE
    /\ scanned = <<>>
    /\ nextBlock = ZeroHash
    /\ blockHeight = 0

-----------------------------------------------------------------------------
(* The coin daemon and the clock.                                          *)

\* A block may be stored more than once.
DaemonAppends(f, b) ==
    /\ MapThenSumSet(LAMBDA g : Len(disk[g]), Files) < MaxStored
    /\ SameSecondWrites \/ clock > maxLastModified
    /\ disk' = [disk EXCEPT ![f] = Append(@, b)]
    /\ mtime' = [mtime EXCEPT ![f] = clock]
    /\ UNCHANGED <<indexerVars, threadVars, clock>>

Tick ==
    /\ clock < MaxClock
    /\ clock' = clock + 1
    /\ UNCHANGED <<indexerVars, threadVars, disk, mtime>>

-----------------------------------------------------------------------------
(* startWatcher.                                                           *)

WakeUp ==
    /\ wpc = "sleep"
    /\ wpc' = "stat"
    /\ pending' = Files
    /\ shouldUpdate' = FALSE
    /\ UNCHANGED <<indexerVars, daemonVars, maxLastModified, scanned, nextBlock,
                   blockHeight>>

\* The modification times are compared in whole seconds.
StatFile(f) ==
    /\ wpc = "stat"
    /\ f \in pending
    /\ pending' = pending \ {f}
    /\ IF mtime[f] > maxLastModified
       THEN maxLastModified' = mtime[f] /\ shouldUpdate' = TRUE
       ELSE UNCHANGED <<maxLastModified, shouldUpdate>>
    /\ UNCHANGED <<indexerVars, daemonVars, wpc, scanned, nextBlock, blockHeight>>

NothingChanged ==
    /\ wpc = "stat" /\ pending = {} /\ ~shouldUpdate
    /\ wpc' = "sleep"
    /\ UNCHANGED <<indexerVars, daemonVars, maxLastModified, pending, shouldUpdate,
                   scanned, nextBlock, blockHeight>>

-----------------------------------------------------------------------------
(* updateIndex: the scan, then the walk.                                   *)

\* Mutant of StartUpdate: the height of the last walk is kept.
StartUpdateNoReset ==
    /\ wpc = "stat" /\ pending = {} /\ shouldUpdate
    /\ wpc' = "scan"
    /\ pending' = Files
    /\ UNCHANGED <<indexerVars, daemonVars, maxLastModified, shouldUpdate, scanned,
                   nextBlock, blockHeight>>

StartUpdate ==
    /\ wpc = "stat" /\ pending = {} /\ shouldUpdate
    /\ wpc' = "scan"
    /\ pending' = Files
    /\ blockHeight' = 0
    /\ UNCHANGED <<indexerVars, daemonVars, maxLastModified, shouldUpdate, scanned,
                   nextBlock>>

\* Mutant of Enter: one block for each predecessor.
EnterFirst(found, b) ==
    IF Chain!Children(Prev[b], found) # {} THEN found ELSE Append(found, b)

\* A file is read to its end as it is at that moment; a block found before is
\* not entered again.
Enter(found, b) == IF Chain!IsIn(b, found) THEN found ELSE Append(found, b)

\* What is found once the first i blocks of a file have been entered.
FoundIn(file, found) ==
    LET after[i \in 0..Len(file)] ==
            IF i = 0 THEN found ELSE Enter(after[i - 1], file[i])
    IN  after

ScanFile(f) ==
    /\ wpc = "scan"
    /\ f \in pending
    /\ pending' = pending \ {f}
    /\ scanned' = FoundIn(disk[f], scanned)[Len(disk[f])]
    /\ UNCHANGED <<indexerVars, daemonVars, maxLastModified, wpc, shouldUpdate,
                   nextBlock, blockHeight>>

StartWalk ==
    /\ wpc = "scan" /\ pending = {}
    /\ wpc' = "process"
    /\ nextBlock' = ZeroHash
    /\ UNCHANGED <<indexerVars, daemonVars, maxLastModified, pending, shouldUpdate,
                   scanned, blockHeight>>

AtChainEnd == Chain!Children(nextBlock, scanned) = {}

\* processNextBlock: its best block is the argument of the next call.
SkipBlock ==
    /\ wpc = "process" /\ ~AtChainEnd
    /\ LET best == Chain!BestChild(nextBlock, scanned)
       IN  HasIndexedBlock(best, blockHeight) /\ nextBlock' = best
    /\ blockHeight' = blockHeight + 1
    /\ UNCHANGED <<indexerVars, daemonVars, maxLastModified, wpc, pending,
                   shouldUpdate, scanned>>

StartIndexing ==
    /\ wpc = "process" /\ ~AtChainEnd
    /\ LET best == Chain!BestChild(nextBlock, scanned)
       IN  IndexBlock(best, blockHeight) /\ nextBlock' = best
    /\ wpc' = "index"
    /\ UNCHANGED <<daemonVars, maxLastModified, pending, shouldUpdate, scanned,
                   blockHeight>>

Indexing ==
    /\ wpc = "index"
    /\ IndexBlockStep
    /\ UNCHANGED <<daemonVars, threadVars>>

IndexingDone ==
    /\ wpc = "index" /\ job = Idle
    /\ wpc' = "process"
    /\ blockHeight' = blockHeight + 1
    /\ UNCHANGED <<indexerVars, daemonVars, maxLastModified, pending, shouldUpdate,
                   scanned, nextBlock>>

EndUpdate ==
    /\ wpc = "process" /\ AtChainEnd
    /\ wpc' = "sleep"
    /\ scanned' = <<>>
    /\ UNCHANGED <<indexerVars, daemonVars, maxLastModified, pending, shouldUpdate,
                   nextBlock, blockHeight>>

\* The process stops and is started again; the files are the daemon's.
Restart ==
    /\ RestartIndexer
    /\ maxLastModified' = 0
    /\ wpc' = "sleep"
    /\ pending' = {}
    /\ shouldUpdate' = FALSE
    /\ scanned' = <<>>
    /\ nextBlock' = ZeroHash
    /\ blockHeight' = 0
    /\ UNCHANGED daemonVars

WatcherStep ==
    \/ WakeUp \/ NothingChanged \/ StartUpdate \/ StartWalk \/ SkipBlock
    \/ StartIndexing \/ Indexing \/ IndexingDone \/ EndUpdate
    \/ \E f \in Files : StatFile(f) \/ ScanFile(f)

Daemon == \E f \in Files, b \in Blocks : DaemonAppends(f, b)

WatcherNext == WatcherStep \/ Daemon \/ Tick \/ Restart

\* The thread is never blocked for good: every call it makes returns.
WatcherSpec == WatcherInit /\ [][WatcherNext]_watcherVars /\ WF_watcherVars(WatcherStep)

-----------------------------------------------------------------------------
(* Properties.                                                             *)

\* The thread and the files are in states of their kinds, and the index stays
\* type correct under the calls that the thread really makes.
WatcherTypeOK ==
    /\ TypeOK
    /\ disk \in [Files -> Seq(Blocks)]
    /\ mtime \in [Files -> 0..MaxClock]
    /\ clock \in 1..MaxClock
    /\ maxLastModified \in 0..MaxClock
    /\ wpc \in WatcherSteps
    /\ pending \subseteq Files
    /\ shouldUpdate \in BOOLEAN
    /\ scanned \in Seq(Blocks)
    /\ nextBlock \in Blocks \cup {ZeroHash}
    /\ blockHeight \in Nat

\* Every block of R is a first block or stands on another of R.
Grounded(R) == \A b \in R : Prev[b] = ZeroHash \/ Prev[b] \in R

\* The blocks of S whose chain down to genesis is in S.
Rooted(S) == UNION {R \in SUBSET S : Grounded(R)}

\* The index holds a chain from genesis made of blocks of S, and S holds no
\* longer one.
HoldsLongestChain(S) ==
    /\ Range(blockAt) \subseteq S
    /\ \A h \in DOMAIN blockAt :
          Prev[blockAt[h]] = IF h = 0 THEN ZeroHash ELSE blockAt[h - 1]
    /\ DOMAIN blockAt = 0..(Cardinality(DOMAIN blockAt) - 1)
    /\ \A b \in Rooted(S) : HeightOf[b] \in DOMAIN blockAt

\* Whatever was appended during the scan, whichever chain was indexed before
\* and wherever the process stopped, a finished walk leaves a longest chain of
\* the blocks it has seen, nothing above it, and "highestblock" at its top.
WalkEndsAtLongestChain ==
    (wpc = "process" /\ AtChainEnd) =>
        /\ HoldsLongestChain(Range(scanned))
        /\ highest = blockHeight - 1 /\ DOMAIN blockAt = 0..highest

\* What the walk has passed is recorded, linked and at the right heights, so
\* that the height it passes to indexBlock is the block's own.
WalkedPrefixRecorded ==
    wpc \in {"process", "index"} =>
        /\ \A h \in 0..(blockHeight - 1) :
              h \in DOMAIN blockAt /\ HeightOf[blockAt[h]] = h
        /\ (wpc = "process" /\ blockHeight > 0) => nextBlock = blockAt[blockHeight - 1]
        /\ wpc = "index" => HeightOf[nextBlock] = blockHeight

\* A walk that has passed a block by, because the index has it, leaves it with
\* its records in place.
WalkEndsComplete ==
    (wpc = "process" /\ AtChainEnd) =>
        \A h \in DOMAIN blockAt : TxosOf(blockAt[h]) \subseteq StoredTxos

Stored == UNION {Range(disk[f]) : f \in Files}

\* Once the daemon stops writing, the index comes to hold a longest chain of
\* all the stored blocks and stays with it.
CatchesUp == <>[]HoldsLongestChain(Stored)
=============================================================================
