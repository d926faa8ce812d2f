----------------------------- MODULE BlockFiles -----------------------------
(***************************************************************************)
(* The block files: what the coin daemon writes into them, the scan for    *)
(* block headers (src/blockscanner.cpp; src/blockfilewatcher.cpp,          *)
(* scanBlockFiles and scanBlocks) and the reading of a whole block at a    *)
(* position found by the scan (src/blockreader.cpp, src/filereader.cpp).   *)
(*                                                                         *)
(* A file is a sequence of tokens, each what a few reads take: a number, a *)
(* header, an input, an output, a witness item.  What has not been written *)
(* yet reads as zeros, which the daemon extends its files with, or is past *)
(* the end and leaves the variables read into at zero.                     *)
(***************************************************************************)
EXTENDS Integers, Sequences, FiniteSets, SequencesExt

CONSTANTS
    Files,          \* the blk*.dat files
    Blocks,         \* block hashes
    ZeroHash,       \* what the genesis block names as its predecessor
    ZeroHeader,     \* the hash of a header of zeros
    Prev,           \* Prev[b]: the predecessor of b
    Contents,       \* Contents[b]: the transactions of b, in order
    Txs,            \* transaction hashes
    NoTx,           \* the hash of anything that is no transaction
    Inputs,         \* Inputs[t]: the outputs that t spends, none if a coinbase
    Outputs,        \* Outputs[t]: the scripts of the outputs of t
    Witness,        \* Witness[t]: how many witness items each input has, <<>>
                    \* if t is serialised without witnesses
    Layouts         \* what the files may hold: functions from files to blocks

ASSUME FilesAssumption ==
    /\ ZeroHeader \notin Blocks /\ ZeroHash \notin Blocks \cup {ZeroHeader}
    /\ NoTx \notin Txs
    /\ Prev \in [Blocks -> Blocks \cup {ZeroHash}]
    \* A hash covers that of the predecessor: no chain returns to where it was.
    /\ \A some \in SUBSET Blocks : IsFiniteSet(some) /\ some # {} =>
          \E b \in some : \A c \in some : Prev[c] # b
    /\ Contents \in [Blocks -> Seq(Txs)] /\ \A b \in Blocks : Contents[b] # <<>>
    /\ Inputs \in [Txs -> Seq([tx : Txs, n : Nat])]
    /\ \A t \in Txs : \A i \in DOMAIN Inputs[t] : Inputs[t][i] # ZeroHash
    /\ Outputs \in [Txs -> Seq(Seq(0..255))] /\ Witness \in [Txs -> Seq(Nat)]
    /\ \A t \in Txs : Witness[t] = <<>> \/ Len(Witness[t]) = Len(Inputs[t])
    /\ Layouts \subseteq [Files -> Seq(Blocks)]

VARIABLES
    disk,           \* disk[f]: the tokens written to f
    stored,         \* history: the blocks wholly written at the start
    unwritten,      \* the parts of the last block that are still to come
    growing,        \* the file they belong to
    pending,        \* the files readdir has not yet returned
    file,           \* the file being scanned
    pos,            \* the position in it
    step,           \* the next call
    found           \* the blocks found, as the watcher keeps them

fileVars == <<disk, stored, unwritten, growing>>
scanVars == <<pending, file, pos, step, found>>

-----------------------------------------------------------------------------
(* The format.                                                             *)

Number(n) == [kind |-> "number", n |-> n]
Magic == [kind |-> "magic"]
Header(b) == [kind |-> "header", block |-> b]

\* An input that spends nothing is a coinbase: its outpoint is all zeros.
InputTokens(t) ==
    IF Inputs[t] = <<>> THEN <<[kind |-> "input", from |-> ZeroHash, by |-> t]>>
    ELSE [i \in DOMAIN Inputs[t] |-> [kind |-> "input", from |-> Inputs[t][i], by |-> t]]

InsAndOuts(t) ==
    <<Number(Len(InputTokens(t)))>> \o InputTokens(t)
    \o <<Number(Len(Outputs[t]))>>
    \o [i \in DOMAIN Outputs[t] |-> [kind |-> "output", script |-> Outputs[t][i]]]

Version == Number(1)
LockTime == Number(0)
WitnessItems(n) == <<Number(n)>> \o [i \in 1..n |-> [kind |-> "witness"]]

\* A transaction as it is without its witnesses, which is what names it.
Stripped == [t \in Txs |-> <<Version>> \o InsAndOuts(t) \o <<LockTime>>]

\* With the witness marker and flag between version and inputs, or without.
Serialized(t) ==
    IF Witness[t] = <<>> THEN Stripped[t]
    ELSE <<Version, Number(0), Number(1)>> \o InsAndOuts(t)
         \o FlattenSeq([i \in DOMAIN Witness[t] |-> WitnessItems(Witness[t][i])])
         \o <<LockTime>>

HashOf(tokens) ==
    IF tokens \in Range(Stripped) THEN CHOOSE t \in Txs : Stripped[t] = tokens ELSE NoTx

\* The transactions of b after their number.
Body(b) == <<Number(Len(Contents[b]))>>
           \o FlattenSeq([i \in DOMAIN Contents[b] |-> Serialized(Contents[b][i])])

\* A block reaches the disk in parts: magic and size, header, the first
\* transaction, the others.
Parts(b) ==
    LET first == 1 + Len(Serialized(Contents[b][1]))
    IN  <<<<Magic, Number(1 + Len(Body(b)))>>, <<Header(b)>>,
          SubSeq(Body(b), 1, first), SubSeq(Body(b), first + 1, Len(Body(b)))>>

Written(blocks) == FlattenSeq([i \in DOMAIN blocks |-> FlattenSeq(Parts(blocks[i]))])

-----------------------------------------------------------------------------
(* Reading a block.                                                        *)

TokenAt(f, p) == IF p \in DOMAIN disk[f] THEN disk[f][p] ELSE Number(0)
NumberAt(f, p) == IF TokenAt(f, p).kind = "number" THEN TokenAt(f, p).n ELSE 0

\* Tokens from position p up to, not including, q.
Between(f, p, q) ==
    LET part == SubSeq(disk[f], p, IF q <= Len(disk[f]) THEN q - 1 ELSE Len(disk[f]))
    IN  part \o [i \in 1..(q - p - Len(part)) |-> Number(0)]

HeaderAt(f, p) ==
    IF TokenAt(f, p).kind = "header"
    THEN [hash |-> TokenAt(f, p).block, prev |-> Prev[TokenAt(f, p).block]]
    ELSE [hash |-> ZeroHeader, prev |-> ZeroHash]

\* Mutant of readTransaction: the hash is taken over all that was read.
readTransactionWhole(f, p) ==
    LET segwit == NumberAt(f, p + 1) = 0 /\ NumberAt(f, p + 2) # 0
        start == IF segwit THEN p + 3 ELSE p + 1
        outs == start + 1 + NumberAt(f, start)
        end == outs + 1 + NumberAt(f, outs)
        witnesses[i \in 0..NumberAt(f, start)] ==
            IF i = 0 THEN end
            ELSE LET at == witnesses[i - 1] IN at + 1 + NumberAt(f, at)
        lock == IF segwit THEN witnesses[NumberAt(f, start)] ELSE end
    IN  [hash |-> HashOf(Between(f, p, lock + 1)),
         inputs |-> Between(f, start + 1, outs),
         outputs |-> Between(f, outs + 1, end),
         next |-> lock + 1]

\* The two bytes after the version are the witness marker or, if they do not
\* look like it, are read again as the number of inputs.  The hash is taken
\* over a second reading that leaves the marker and the witnesses out.
readTransaction(f, p) ==
    LET segwit == NumberAt(f, p + 1) = 0 /\ NumberAt(f, p + 2) # 0
        start == IF segwit THEN p + 3 ELSE p + 1
        outs == start + 1 + NumberAt(f, start)
        end == outs + 1 + NumberAt(f, outs)
        witnesses[i \in 0..NumberAt(f, start)] ==
            IF i = 0 THEN end
            ELSE LET at == witnesses[i - 1] IN at + 1 + NumberAt(f, at)
        lock == IF segwit THEN witnesses[NumberAt(f, start)] ELSE end
    IN  [hash |-> HashOf(Between(f, p, p + 1) \o Between(f, start, end)
                         \o Between(f, lock, lock + 1)),
         inputs |-> Between(f, start + 1, outs),
         outputs |-> Between(f, outs + 1, end),
         next |-> lock + 1]

\* The block whose header is at p.  If its transactions have not been written,
\* their number reads as zero.
readBlock(f, p) ==
    LET read[i \in 0..NumberAt(f, p + 1)] ==
            IF i = 0 THEN [txs |-> <<>>, next |-> p + 2]
            ELSE LET before == read[i - 1]
                     tx == readTransaction(f, before.next)
                 IN  [txs |-> Append(before.txs, tx), next |-> tx.next]
    IN  [hash |-> HeaderAt(f, p).hash, prev |-> HeaderAt(f, p).prev,
         transactions |-> read[NumberAt(f, p + 1)].txs]

-----------------------------------------------------------------------------
(* The daemon and the scan.                                                *)

FilesInit ==
    \E layout \in Layouts, f \in Files : \E n \in 0..4 :
        /\ layout[f] # <<>>
        /\ growing = f
        /\ disk = [g \in Files |->
               IF g # f THEN Written(layout[g])
               ELSE Written(Front(layout[f])) \o FlattenSeq(SubSeq(Parts(Last(layout[f])), 1, n))]
        /\ unwritten = SubSeq(Parts(Last(layout[f])), n + 1, 4)
        /\ stored = (UNION {ToSet(layout[g]) : g \in Files \ {f}})
                    \cup ToSet(IF n = 4 THEN layout[f] ELSE Front(layout[f]))

ScanInit == pending = Files /\ file = growing /\ pos = 1 /\ step = "open" /\ found = <<>>

\* One part at a time, at any moment of the scan and of what follows it.
DaemonWrites ==
    /\ unwritten # <<>>
    /\ disk' = [disk EXCEPT ![growing] = @ \o Head(unwritten)]
    /\ unwritten' = Tail(unwritten)
    /\ UNCHANGED <<stored, growing, scanVars>>

\* Mutant of OpenFile: the file is returned by readdir again.
OpenFileAgain(f) ==
    /\ step = "open"
    /\ f \in pending
    /\ pending' = pending /\ file' = f /\ pos' = 1
    /\ step' = "magic"
    /\ UNCHANGED <<fileVars, found>>

OpenFile(f) ==
    /\ step = "open"
    /\ f \in pending
    /\ pending' = pending \ {f} /\ file' = f /\ pos' = 1
    /\ step' = "magic"
    /\ UNCHANGED <<fileVars, found>>

\* The scan of a file ends where no block starts.
moveNext ==
    /\ step = "magic"
    /\ pos' = pos + 1
    /\ step' = IF TokenAt(file, pos) = Magic THEN "block" ELSE "open"
    /\ UNCHANGED <<fileVars, pending, file, found>>

Scanned(p) == [hash |-> HeaderAt(file, p).hash, prev |-> HeaderAt(file, p).prev,
               file |-> file, at |-> p]

\* A block is kept once, however often it is stored.
Keep(block) ==
    IF \E i \in DOMAIN found : found[i].hash = block.hash THEN found
    ELSE Append(found, block)

\* Mutant of scanNextBlock: the header is not taken off what is skipped.
scanNextBlockTooFar ==
    /\ step = "block"
    /\ found' = Keep(Scanned(pos + 1))
    /\ pos' = pos + 2 + NumberAt(file, pos)
    /\ step' = "magic"
    /\ UNCHANGED <<fileVars, pending, file>>

\* The size, the header, and on to the next block.  If the file ends before
\* the header, the stream has failed and the scan of the file is over.
scanNextBlock ==
    /\ step = "block"
    /\ found' = Keep(Scanned(pos + 1))
    /\ pos' = pos + 1 + NumberAt(file, pos)
    /\ step' \in {"magic"} \cup IF pos + 1 \in DOMAIN disk[file] THEN {} ELSE {"open"}
    /\ UNCHANGED <<fileVars, pending, file>>

ScanStep == (\E f \in Files : OpenFile(f)) \/ moveNext \/ scanNextBlock

ScanDone == step \notin {"open", "magic", "block"}

-----------------------------------------------------------------------------
(* Properties.                                                             *)

\* The scan misses no block that was wholly written when it began, enters none
\* twice, and what it says of a block's place is true, although the daemon
\* goes on writing; the one thing it may make up is a header of zeros.
FoundWhereStored ==
    /\ ScanDone => stored \subseteq {found[i].hash : i \in DOMAIN found}
    /\ \A i, j \in DOMAIN found : found[i].hash = found[j].hash => i = j
    /\ \A i \in DOMAIN found : found[i].hash # ZeroHeader =>
          TokenAt(found[i].file, found[i].at) = Header(found[i].hash)

\* A wholly written block is read back as it is: every transaction with the
\* hash it has on the network, its inputs and its outputs, with witnesses or
\* without, and each from where the one before it ends.
BlocksReadBack ==
    (ScanDone /\ unwritten = <<>>) =>
        \A i \in DOMAIN found : found[i].hash \in stored =>
            LET txs == readBlock(found[i].file, found[i].at).transactions
            IN  /\ [k \in DOMAIN txs |-> txs[k].hash] = Contents[found[i].hash]
                /\ \A k \in DOMAIN txs :
                      /\ txs[k].inputs = InputTokens(txs[k].hash)
                      /\ [o \in DOMAIN txs[k].outputs |-> txs[k].outputs[o].script]
                         = Outputs[txs[k].hash]
=============================================================================
