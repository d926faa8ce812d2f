---------------------------- MODULE DoubleSpends ----------------------------
(***************************************************************************)
(* The report of double spends (src/blockfilewatcher.cpp,                  *)
(* dumpDoubleSpends): scan the files, arrange all blocks by height with    *)
(* those of the longest chain marked, and compare what the blocks of       *)
(* consecutive heights with several blocks spend.  The daemon may still be *)
(* writing.  The report is a set of facts; how the code groups them into   *)
(* events is left out.                                                     *)
(***************************************************************************)
EXTENDS BlockFiles, ScriptSolver

CONSTANTS
    Payees,         \* Payees[t]: whom the outputs of t were made out to
    MaxGarbage      \* bound: how many unset marks read as true

ASSUME GarbageAssumption == MaxGarbage \in Nat

VARIABLES
    garbage,        \* the blocks whose mark, which the scan leaves unset, reads
                    \* as true
    level,          \* matchingBlocks: the blocks of the next height
    byHeight,       \* blocksByHeight, from 1
    height,         \* the height looked at
    doubleBlocks,   \* the branches collected: sequences of blocks
    prevDoubleBlock,
    reorgedCoinbases,
    doubleSpends,   \* what is reported: outputs spent twice
    orphans,        \* and transactions that spent the coinbase of a lost block
    told            \* what the report says of a transaction's outputs

results == <<doubleSpends, orphans, told>>
collectVars == <<height, doubleBlocks, prevDoubleBlock, reorgedCoinbases, results>>
dumpVars == <<garbage, level, byHeight, collectVars>>
vars == <<fileVars, scanVars, dumpVars>>

Chain == INSTANCE ChainSelection
    WITH AllBlocks <- Blocks \cup {ZeroHeader},
         PrevOf <- [b \in Blocks \cup {ZeroHeader} |->
                       IF b = ZeroHeader THEN ZeroHash ELSE Prev[b]]

Hashes(list) == [i \in DOMAIN list |-> list[i].hash]

\* The blocks found that follow p, in the order of the scan.
FollowUps(p) ==
    FlattenSeq([i \in DOMAIN found |-> IF found[i].prev = p THEN <<found[i]>> ELSE <<>>])

\* Those that follow one block of a height after those that follow another.
Above(blocks) == FlattenSeq([i \in DOMAIN blocks |-> FollowUps(blocks[i].hash)])

Init ==
    /\ FilesInit /\ ScanInit
    /\ garbage = {} /\ level = <<>> /\ byHeight = <<>>
    /\ height = 1 /\ doubleBlocks = <<>> /\ prevDoubleBlock = -1
    /\ reorgedCoinbases = {}
    /\ doubleSpends = {} /\ orphans = {} /\ told = {}

Daemon == DaemonWrites /\ UNCHANGED dumpVars

Scan == ScanStep /\ UNCHANGED dumpVars

-----------------------------------------------------------------------------
(* The blocks by height.                                                   *)

StartLevels ==
    /\ step = "open" /\ pending = {}
    /\ step' = "level"
    /\ level' = FollowUps(ZeroHash)
    /\ garbage' \in UNION {kSubset(n, ToSet(Hashes(found))) : n \in 0..MaxGarbage}
    /\ UNCHANGED <<fileVars, pending, file, pos, found, byHeight, collectVars>>

\* Mutant of NextLevel: the mark goes to the first block of the height.
NextLevelFirst ==
    /\ step = "level" /\ level # <<>>
    /\ LET best == Hashes(level)[1]
       IN  byHeight' = Append(byHeight, [i \in DOMAIN level |->
               [block |-> level[i],
                mainChain |-> level[i].hash = best \/ level[i].hash \in garbage]])
    /\ level' = Above(level)
    /\ UNCHANGED <<fileVars, scanVars, garbage, collectVars>>

\* findLongestChain and indexBlocksByHeight.  A mark is set, never cleared.
\* Every height is new, so no block is found there already.
NextLevel ==
    /\ step = "level" /\ level # <<>>
    /\ LET best == Chain!Best(Hashes(level), Hashes(found))
       IN  byHeight' = Append(byHeight, [i \in DOMAIN level |->
               [block |-> level[i],
                mainChain |-> level[i].hash = best \/ level[i].hash \in garbage]])
    /\ level' = Above(level)
    /\ UNCHANGED <<fileVars, scanVars, garbage, collectVars>>

LevelsDone ==
    /\ step = "level" /\ level = <<>>
    /\ step' = "collect"
    /\ UNCHANGED <<fileVars, pending, file, pos, found, dumpVars>>

-----------------------------------------------------------------------------
(* The comparison.                                                         *)

SpendsOf(block) ==
    FlattenSeq([i \in DOMAIN block.transactions |->
        LET tx == block.transactions[i]
        IN  [k \in DOMAIN tx.inputs |->
                [out |-> tx.inputs[k].from, tx |-> tx, block |-> block.hash,
                 mainChain |-> block.mainChain]]])

AllBlocksOf(branches) == FlattenSeq(branches)

SpendsIn(branches) ==
    LET blocks == AllBlocksOf(branches)
    IN  FlattenSeq([i \in DOMAIN blocks |-> SpendsOf(blocks[i])])

\* The coinbases of blocks that are not on the main chain.
CoinbasesLost(branches) ==
    UNION {{tx.hash : tx \in {t \in ToSet(block.transactions) : t.inputs[1].from = ZeroHash}} :
              block \in {c \in ToSet(AllBlocksOf(branches)) : ~c.mainChain}}

\* Where output o is spent, and where by a block of the main chain.
Spending(o, spends) == {i \in DOMAIN spends : spends[i].out = o}
Marked(o, spends) == {i \in Spending(o, spends) : spends[i].mainChain}
First(at) == CHOOSE i \in at : \A j \in at : i <= j
Final(at) == CHOOSE i \in at : \A j \in at : j <= i

\* Mutant of SpentTwice: whatever else spends the output.
SpentTwiceAnyhow(o, spends) ==
    LET main == spends[First(Marked(o, spends))]
    IN  {[out |-> o, tx |-> main.tx, block |-> main.block,
          alsoTx |-> also.tx, alsoBlock |-> also.block] :
             also \in {spends[i] : i \in Spending(o, spends)}}

\* Mutant of SpentTwice: only a spend at another place in the list.
SpentTwiceOnce(o, spends) ==
    LET main == spends[First(Marked(o, spends))]
        also == spends[Final(Spending(o, spends))]
    IN  IF also.tx.hash = main.tx.hash \/ also.block = main.block THEN {}
        ELSE {[out |-> o, tx |-> also.tx, block |-> also.block,
               alsoTx |-> also.tx, alsoBlock |-> also.block]}

\* The first marked spend of output o against every spend by another
\* transaction in another block.
SpentTwice(o, spends) ==
    LET main == spends[First(Marked(o, spends))]
    IN  {[out |-> o, tx |-> main.tx, block |-> main.block,
          alsoTx |-> also.tx, alsoBlock |-> also.block] :
             also \in {s \in {spends[i] : i \in Spending(o, spends)} :
                          s.tx.hash # main.tx.hash /\ s.block # main.block}}

\* The transactions that spend o and one of these coinbases, with the last of
\* them.
Orphaned(o, spends, coinbases) ==
    LET hits(tx) == {k \in DOMAIN tx.inputs : /\ tx.inputs[k].from # ZeroHash
                                              /\ tx.inputs[k].from.tx \in coinbases}
    IN  {[tx |-> s.tx, block |-> s.block, coinbase |-> s.tx.inputs[Final(hits(s.tx))].from.tx] :
            s \in {r \in {spends[i] : i \in Spending(o, spends)} : hits(r.tx) # {}}}

\* A table: with @@, TLC works each entry out once.
AddressesFrom == <<>> @@
    [script \in UNION {ToSet(Outputs[t]) : t \in Txs} |-> getAddressesFromScript(script)]

txToJson(tx) ==
    [txid |-> tx.hash,
     to |-> [i \in DOMAIN tx.outputs |-> AddressesFrom[tx.outputs[i].script]]]

\* The comparison throws for a transaction without inputs, which a half-written
\* block has, and for an output whose type has no name: the program ends.
analyzeDoubleBlocks(next) ==
    LET spends == SpendsIn(doubleBlocks)
        outs == {spends[i].out : i \in DOMAIN spends} \ {ZeroHash}
        lost == reorgedCoinbases \cup CoinbasesLost(doubleBlocks)
        twice == UNION {SpentTwice(o, spends) : o \in {p \in outs : Marked(p, spends) # {}}}
        orphaned == UNION {Orphaned(o, spends, lost) :
                              o \in {p \in outs : Marked(p, spends) = {}}}
        named == {d.tx : d \in twice} \cup {d.alsoTx : d \in twice} \cup {d.tx : d \in orphaned}
    IN  IF \/ \E block \in ToSet(AllBlocksOf(doubleBlocks)) :
                 \E tx \in ToSet(block.transactions) : tx.inputs = <<>>
           \/ \E tx \in named : \E txo \in ToSet(tx.outputs) : ~HasTypeName(txo.script)
        THEN step' = "aborted" /\ UNCHANGED <<reorgedCoinbases, results>>
        ELSE /\ reorgedCoinbases' = lost
             /\ doubleSpends' = doubleSpends \cup
                    {[d EXCEPT !.tx = @.hash, !.alsoTx = @.hash] : d \in twice}
             /\ orphans' = orphans \cup {[d EXCEPT !.tx = @.hash] : d \in orphaned}
             /\ told' = told \cup {txToJson(tx) : tx \in named}
             /\ step' = next

-----------------------------------------------------------------------------
(* The heights with several blocks.                                        *)

\* Block number j of a height: a new branch, if there are fewer, or at the end
\* of those branches that end in its predecessor.
Place(branches, j, block) ==
    IF j \notin DOMAIN branches THEN Append(branches, <<block>>)
    ELSE [k \in DOMAIN branches |->
             IF Last(branches[k]).hash = block.prev THEN Append(branches[k], block)
             ELSE branches[k]]

WithMark(block, mainChain) ==
    [hash |-> block.hash, prev |-> block.prev, transactions |-> block.transactions,
     mainChain |-> mainChain]

Read(entry) == WithMark(readBlock(entry.block.file, entry.block.at), entry.mainChain)

PlaceAll(branches, entries) ==
    LET placed[j \in 0..Len(entries)] ==
            IF j = 0 THEN branches
            ELSE LET before == placed[j - 1]
                     block == Read(entries[j])
                 IN  Place(before, j, block)
    IN  placed[Len(entries)]

AtHeight == step = "collect" /\ height \in DOMAIN byHeight /\ height' = height + 1

SingleBlock ==
    /\ AtHeight /\ Len(byHeight[height]) = 1
    /\ UNCHANGED <<fileVars, scanVars, garbage, level, byHeight, doubleBlocks,
                   prevDoubleBlock, reorgedCoinbases, results>>

ContinueRun ==
    /\ AtHeight /\ Len(byHeight[height]) > 1
    /\ prevDoubleBlock = height - 1
    /\ doubleBlocks' = PlaceAll(doubleBlocks, byHeight[height])
    /\ prevDoubleBlock' = height
    /\ UNCHANGED <<fileVars, scanVars, garbage, level, byHeight, reorgedCoinbases, results>>

StartRun ==
    /\ AtHeight /\ Len(byHeight[height]) > 1
    /\ prevDoubleBlock # height - 1
    /\ analyzeDoubleBlocks("collect")
    /\ doubleBlocks' = PlaceAll(<<>>, byHeight[height])
    /\ prevDoubleBlock' = height
    /\ UNCHANGED <<fileVars, pending, file, pos, found, garbage, level, byHeight>>

Finish ==
    /\ step = "collect" /\ height \notin DOMAIN byHeight
    /\ analyzeDoubleBlocks("done")
    /\ UNCHANGED <<fileVars, pending, file, pos, found, garbage, level, byHeight, height,
                   doubleBlocks, prevDoubleBlock>>

Dump == Scan \/ StartLevels \/ NextLevel \/ LevelsDone
        \/ SingleBlock \/ ContinueRun \/ StartRun \/ Finish

Next == Daemon \/ Dump

\* Nothing in the dump waits.  This is WF_vars(Dump), with what enables Dump
\* written out: TLC is too slow at finding it.
Spec == Init /\ [][Next]_vars
        /\ ([]<>(step \in {"done", "aborted"}) \/ []<><<Dump>>_vars)

-----------------------------------------------------------------------------
(* Properties.                                                             *)

\* The blocks by height stay as they are from "collect" on.
Dumped == step \in {"done", "aborted"}

\* Where updateIndex would walk: from the zero hash upwards.
Walk ==
    LET walk[h \in 0..Len(byHeight)] ==
            IF h = 0 THEN <<>>
            ELSE LET below == walk[h - 1]
                     last == IF h = 1 THEN ZeroHash ELSE below[h - 1]
                 IN  Append(below, Chain!BestChild(last, Hashes(found)))
    IN  walk[Len(byHeight)]

\* The two ways the program decides on the longest chain agree: asked for each
\* height among all its blocks, or block by block from the first one, it marks
\* the chain that it indexes, and but for unset marks nothing else.
MarksTheIndexedChain ==
    Dumped =>
        LET walk == Walk
            marked(h) == {e.block.hash : e \in {x \in ToSet(byHeight[h]) : x.mainChain}}
        IN  \A h \in DOMAIN byHeight :
                walk[h] \in marked(h) /\ marked(h) \ garbage \subseteq {walk[h]}

\* What is reported is so, whatever marks were unset and whatever the daemon
\* had not finished writing: two transactions of two blocks spend the output,
\* and a transaction that spent a lost coinbase is in no block of the chain.
\* With no mark unset, the block named first is one of the chain.
ReportIsTrue ==
    LET chain == ToSet(Walk) IN
    /\ \A d \in doubleSpends :
          /\ d.tx # d.alsoTx /\ d.block # d.alsoBlock
          /\ d.tx \in ToSet(Contents[d.block]) /\ d.alsoTx \in ToSet(Contents[d.alsoBlock])
          /\ d.out \in ToSet(Inputs[d.tx]) \cap ToSet(Inputs[d.alsoTx])
          /\ garbage = {} => d.block \in chain
    /\ \A d \in orphans :
          /\ d.tx \in ToSet(Contents[d.block])
          /\ Inputs[d.coinbase] = <<>> /\ \E o \in ToSet(Inputs[d.tx]) : o.tx = d.coinbase
          /\ \A b \in chain \ {ZeroHeader} : d.tx \notin ToSet(Contents[b])

\* What the daemon sees to: what the blocks of a chain spend was made on it, a
\* coinbase is in one block, and a first block spends nothing.
ValidSpends ==
    /\ \A chain \in SUBSET Blocks :
          (\A b \in chain : Prev[b] \in chain \cup {ZeroHash}) =>
              \A b \in chain : \A t \in ToSet(Contents[b]) : \A o \in ToSet(Inputs[t]) :
                  \E c \in chain : o.tx \in ToSet(Contents[c])
    /\ \A b, c \in Blocks : \A t \in ToSet(Contents[b]) \cap ToSet(Contents[c]) :
          Inputs[t] = <<>> => b = c
    /\ \A b \in Blocks : Prev[b] = ZeroHash => \A t \in ToSet(Contents[b]) : Inputs[t] = <<>>

\* The block that a file ends with, which may be half-written, is in the files
\* once.
WrittenOnce ==
    \A layout \in Layouts : \A f, g \in Files : layout[f] # <<>> =>
        \A k \in DOMAIN layout[g] :
            layout[g][k] = Last(layout[f]) => g = f /\ k = Len(layout[f])

\* A block begins with a coinbase and spends no output twice.
ValidBlocks ==
    \A b \in Blocks :
        /\ Inputs[Contents[b][1]] = <<>>
        /\ \A t, u \in ToSet(Contents[b]) :
              ToSet(Inputs[t]) \cap ToSet(Inputs[u]) # {} => t = u

\* Heights l to h have several blocks each.
InOneRun(l, h) == \A k \in l..h : Len(byHeight[k]) > 1

\* No block above the start of a run has a sibling.  A branch that forks again
\* is the case the collection of branches loses blocks in.
NoForkOnFork ==
    \A h \in DOMAIN byHeight \ {1} : \A i, j \in DOMAIN byHeight[h] :
        (byHeight[h][i].block.prev = byHeight[h][j].block.prev
            /\ InOneRun(h - 1, h)) => i = j

Named(o) == UNION {{d.tx, d.alsoTx} : d \in {x \in doubleSpends : x.out = o}}

\* Two transactions that spend an output, one on the chain and one off it at a
\* height of the same run, are both named with it; and with no mark unset, so
\* is a transaction that spent the coinbase of a block off the chain.
ForksReported ==
    (step = "done" /\ NoForkOnFork) =>
        LET walk == Walk
            off(h) == ({e.block.hash : e \in ToSet(byHeight[h])} \cap stored) \ {walk[h]}
            spenders(b, o) == {t \in ToSet(Contents[b]) : o \in ToSet(Inputs[t])}
            spent(b) == UNION {ToSet(Inputs[t]) : t \in ToSet(Contents[b])}
        IN  \A l, h \in DOMAIN byHeight : InOneRun(l, h) /\ InOneRun(h, l) =>
                \A b \in off(h) :
                    /\ walk[l] \in stored =>
                          \A o \in spent(b) \cap spent(walk[l]) :
                              LET both == spenders(b, o) \cup spenders(walk[l], o)
                              IN  Cardinality(both) > 1 => both \subseteq Named(o)
                    /\ garbage = {} =>
                          \A o \in spent(b), c \in off(l) :
                              o.tx = Contents[c][1] =>
                                  spenders(b, o) \subseteq {d.tx : d \in orphans}

WalletReads == <<>> @@
    [address \in UNION {ToSet(AddressesFrom[script]) : script \in DOMAIN AddressesFrom} |->
        ReadAddress(address)]

\* Each output of a transaction in the report is told to pay those whom it was
\* made out to, whichever of the script forms it has: a wallet that reads the
\* addresses finds the version or prefix, the very hash or program, and a
\* checksum that fits.
PayeesTold ==
    \A t \in told :
        [i \in DOMAIN t.to |-> [k \in DOMAIN t.to[i] |-> WalletReads[t.to[i][k]]]]
        = Payees[t.txid]

\* The dump ends, in a report or in an exception.
Finishes == <>(step \in {"done", "aborted"})
=============================================================================
