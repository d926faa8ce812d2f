----------------------------- MODULE HttpServer -----------------------------
(***************************************************************************)
(* The queries of the web server (src/httpserver.cpp).  A handler answers  *)
(* one request from several reads of the database and of the mempool       *)
(* monitor, one after the other, while the indexer goes on writing: one    *)
(* action for each read.  An iterator reads the database as it was when it *)
(* was made; every Get reads it as it is.  The service runs its handlers   *)
(* on one thread.                                                          *)
(*                                                                         *)
(* The indexer is BlockIndexer with the calls of transactionIndexed that   *)
(* it makes while it builds a batch; no restart, which would end every     *)
(* request.                                                                *)
(***************************************************************************)
EXTENDS BlockIndexer, SequencesExt

CONSTANTS
    Makes,          \* Makes[t]: the credits of transaction t
    Takes,          \* Takes[t]: the outputs t spends, none if it is a coinbase
    MadeBy,         \* MadeBy[o]: the transaction of output o
    TxList,         \* TxList[b]: the transactions of b in order
    Nameless,       \* the outputs whose script type has no name
    TxosRequests,   \* the requests for the outputs of an address, from height
                    \* since, only the unspent ones or all of them
    SpendLists,     \* the lists of outputs whose spenders are asked for
    PageRequests,   \* the pages asked for: a block and a number
    PageSize,       \* how many transactions make a page (10 in the code)
    ProofDepth,     \* how many blocks a proof has (10 in the code)
    PageLimit,      \* how many blocks a list has (100 in the code)
    Modulus         \* what 64-bit arithmetic wraps around at

ASSUME ServerAssumption ==
    /\ Makes \in [Txs -> SUBSET Credit] /\ Takes \in [Txs -> SUBSET Outpoints]
    /\ MadeBy \in [Outpoints -> Txs] /\ TxList \in [Blocks -> Seq(Txs)]
    /\ \A t \in Txs : /\ IsFiniteSet(Makes[t]) /\ IsFiniteSet(Takes[t])
                     /\ IsFiniteSet({o \in Outpoints : MadeBy[o] = t})
    /\ \A b \in Blocks :
          /\ Range(Credits[b]) = UNION {Makes[t] : t \in TxsOf[b]}
          /\ Range(Debits[b]) = UNION {[out : Takes[t], tx : {t}] : t \in TxsOf[b]}
    /\ \A t \in Txs : \A c \in Makes[t] : MadeBy[c.out] = t
    /\ \A b \in Blocks : IsInjective(TxList[b]) /\ ToSet(TxList[b]) = TxsOf[b]
    /\ TxosRequests \subseteq [address : Addresses, since : Nat, unspent : BOOLEAN]
    /\ SpendLists \subseteq Seq(Outpoints)
    /\ NoBlock \notin Txs
    /\ PageRequests \subseteq [block : Blocks, page : Nat] /\ PageSize \in Nat
    /\ ProofDepth \in Nat \ {0} /\ PageLimit \in Nat \ {0} /\ Modulus \in Nat
    /\ MaxRestarts = 0
    /\ \A b \in Blocks : HeightOf[b] + ProofDepth < Modulus

\* A set of blocks that are complete chains, and one that is a single chain.
Grounded(S) == \A b \in S : Prev[b] \in S \cup {ZeroHash}
IsChain(S) == Grounded(S) /\ \A b, c \in S : HeightOf[b] = HeightOf[c] => b = c

\* In a chain no transaction is mined twice, no output is spent twice, and
\* what is spent was made: the coin daemon has validated the blocks on disk.
ASSUME ValidityAssumption ==
    \A S \in SUBSET Blocks :
        /\ IsChain(S) => \A b, c \in S :
              b # c => /\ TxsOf[b] \cap TxsOf[c] = {}
                       /\ \A d \in Range(Debits[b]), e \in Range(Debits[c]) : d.out # e.out
        /\ Grounded(S) => \A b \in S : \A d \in Range(Debits[b]) :
              \E c \in S : MadeBy[d.out] \in TxsOf[c]

VARIABLES
    mempool,        \* the transactions the monitor holds
    toNotify,       \* the transactions of the batch not yet notified
    op, arg,        \* the request
    step,           \* the next read
    tip,            \* "highestblock" as read
    hash, height,   \* a block hash and a height as read
    todo,           \* what the loop has still to look at
    items,          \* what the answer lists, or the confirmed balance
    unconfirmed,    \* the outputs in the unconfirmed balance
    status,         \* of the answer, "" before
    torn,           \* history: was a reorganisation seen by the request?
    before          \* history: index and mempool at the start of the request

request == <<op, arg>>
locals == <<tip, hash, height, todo, items, unconfirmed>>
history == <<torn, before>>
handler == <<request, step, locals, status, before>>
serverVars == <<indexerVars, mempool, toNotify, handler, torn>>

Nothing == [spent |-> {}, recorded |-> {}, mempool |-> {}]

Init ==
    /\ IndexerInit
    /\ mempool = {} /\ toNotify = {}
    /\ op = "none" /\ arg = NoBlock /\ step = "idle" /\ status = ""
    /\ tip = -1 /\ hash = NoBlock /\ height = 0
    /\ todo = <<>> /\ items = <<>> /\ unconfirmed = <<>>
    /\ torn = FALSE /\ before = Nothing

-----------------------------------------------------------------------------
(* The indexer and the monitor.                                            *)

Unrecorded(t) == \A h \in DOMAIN blockAt : t \notin TxsOf[blockAt[h]]

\* The monitor enters a transaction of the daemon's pool.  (That it may do so
\* after the transaction was indexed is the subject of MempoolMonitor.)
MonitorInserts(t) ==
    /\ Takes[t] # {}
    /\ t \notin mempool
    /\ Unrecorded(t)
    /\ job.step = "batch" => t \in toNotify \/ t \notin TxsOf[job.block]
    /\ mempool' = mempool \cup {t}
    /\ UNCHANGED <<indexerVars, toNotify, handler, torn>>

Index(b) ==
    /\ MayIndex(b) /\ CallIndexBlock(b)
    /\ UNCHANGED <<mempool, toNotify, handler, torn>>

Clear ==
    /\ ClearBlockTxos
    /\ torn' = (op # "none")
    /\ UNCHANGED <<mempool, toNotify, handler>>

BuildBatch ==
    /\ PutHighest
    /\ toNotify' = TxsOf[job.block]
    /\ UNCHANGED <<mempool, handler, torn>>

transactionIndexed(t) ==
    /\ job.step = "batch" /\ t \in toNotify
    /\ toNotify' = toNotify \ {t}
    /\ mempool' = mempool \ {t}
    /\ UNCHANGED <<indexerVars, handler, torn>>

\* Mutant of Batch: written before the mempool is told.
BatchFirst ==
    /\ WriteBatch
    /\ UNCHANGED <<mempool, toNotify, handler, torn>>

Batch ==
    /\ toNotify = {}
    /\ WriteBatch
    /\ UNCHANGED <<mempool, toNotify, handler, torn>>

-----------------------------------------------------------------------------
(* The start and the end of a request.                                     *)

FirstRead(o) ==
    CASE o \in {"getBlock", "getBlockTransactions", "getBlocks", "sync"} -> "highest"
      [] o \in {"getTransactionProof", "outpointSpend", "outpointSpends"} -> "txBlock"
      [] o \in {"addressBalance", "addressTxos"} -> "snapshot"
      [] o = "getBlocksByDate" -> "range"
      [] o = "mempoolTransactionIds" -> "ids"

Arguments(o) ==
    CASE o = "getBlock" -> Blocks
      [] o = "getBlockTransactions" -> PageRequests
      [] o = "getTransactionProof" -> Txs
      [] o = "outpointSpend" -> Outpoints
      [] o = "outpointSpends" -> SpendLists
      [] o = "addressBalance" -> Addresses
      [] o = "addressTxos" -> TxosRequests
      [] OTHER -> {NoBlock}

Operations == {"getBlock", "getBlockTransactions", "getBlocks", "getTransactionProof",
               "outpointSpend", "outpointSpends", "addressBalance", "addressTxos",
               "getBlocksByDate", "sync", "mempoolTransactionIds"}

\* The answers that name spenders in the mempool.
ListsSpenders == {"outpointSpend", "outpointSpends", "addressTxos"}

\* No reorganisation is under way: every recorded block stands on its
\* predecessor.
Settled ==
    /\ Replacing \cap DOMAIN blockAt = {}
    /\ \A h \in DOMAIN blockAt \ {0} :
          h - 1 \in DOMAIN blockAt /\ blockAt[h - 1] = Prev[blockAt[h]]

Begin(o, x) ==
    /\ op = "none"
    /\ op' = o /\ arg' = x /\ step' = FirstRead(o)
    /\ torn' = ~Settled
    /\ before' = [spent |-> DOMAIN txoSpent, recorded |-> Intact,
                  mempool |-> IF o \in ListsSpenders THEN mempool ELSE {}]
    /\ todo' = CASE o = "outpointSpend" -> <<x>> [] o = "outpointSpends" -> x [] OTHER -> <<>>
    /\ UNCHANGED <<indexerVars, mempool, toNotify, tip, hash, height, items, unconfirmed,
                   status>>

Close ==
    /\ step = "done"
    /\ op' = "none" /\ arg' = NoBlock /\ step' = "idle" /\ status' = ""
    /\ tip' = -1 /\ hash' = NoBlock /\ height' = 0
    /\ todo' = <<>> /\ items' = <<>> /\ unconfirmed' = <<>>
    /\ torn' = FALSE /\ before' = Nothing
    /\ UNCHANGED <<indexerVars, mempool, toNotify>>

GoTo(s) == step' = s /\ UNCHANGED status
Finish(s) == step' = "done" /\ status' = s

\* What no read of a handler changes.
Aside == UNCHANGED <<indexerVars, mempool, toNotify, request, history>>

-----------------------------------------------------------------------------
(* getBlock and getTransactionProof; the first reads of other handlers.    *)

Unsigned(n) == n % Modulus

\* Mutant of ProofHeights: one block more.
ProofHeightsLong(h) == [i \in 1..(h - Unsigned(h - ProofDepth) + 1) |-> h + 1 - i]

\* The heights of the blocks of a proof: the loop goes down from h to above
\* blockHeight-10, which wraps around below height 10.
ProofHeights(h) == [i \in 1..(h - Unsigned(h - ProofDepth)) |-> h + 1 - i]

AsksBlock == op \in {"getBlock", "getBlockTransactions"}
AsksSpends == op \in {"outpointSpend", "outpointSpends"}

\* An empty database answers with an empty string, which stoll refuses.
ReadHighest ==
    /\ step = "highest"
    /\ tip' = highest
    /\ IF highest = -1 THEN Finish("failed")
       ELSE GoTo(IF AsksBlock THEN "height" ELSE IF op = "sync" THEN "count" ELSE "list")
    /\ hash' = CASE op = "getBlock" -> arg
                 [] op = "getBlockTransactions" -> arg.block
                 [] OTHER -> hash
    /\ UNCHANGED <<height, todo, items, unconfirmed>> /\ Aside

ReadTxBlock ==
    /\ step = "txBlock" /\ op = "getTransactionProof"
    /\ IF arg \in DOMAIN txBlock THEN hash' = txBlock[arg] /\ GoTo("height")
       ELSE UNCHANGED hash /\ Finish("notFound")
    /\ UNCHANGED <<tip, height, todo, items, unconfirmed>> /\ Aside

ReadHeight ==
    /\ step = "height"
    /\ IF hash \in DOMAIN hashHeight
       THEN LET h == hashHeight[hash]
            IN  /\ height' = h
                /\ todo' = IF AsksBlock THEN <<h>> ELSE ProofHeights(h)
                /\ GoTo("position")
       ELSE UNCHANGED <<height, todo>> /\ Finish("notFound")
    /\ UNCHANGED <<tip, hash, items, unconfirmed>> /\ Aside

\* The block is read from the file at the position recorded for a height,
\* whichever block that now is.
ReadPosition ==
    /\ step = "position" /\ todo # <<>> /\ op # "getBlockTransactions"
    /\ IF Head(todo) \in DOMAIN blockAt
       THEN /\ items' = Append(items, blockAt[Head(todo)])
            /\ todo' = Tail(todo)
            /\ UNCHANGED <<step, status>>
       ELSE UNCHANGED <<items, todo>> /\ Finish("notFound")
    /\ UNCHANGED <<tip, hash, height, unconfirmed>> /\ Aside

EndPositions ==
    /\ step = "position" /\ todo = <<>>
    /\ Finish("ok")
    /\ UNCHANGED locals /\ Aside

\* The daemon answers with the height of its chain or not at all, in which
\* case the progress is computed from no number.
CountBlocks ==
    /\ step = "count"
    /\ \/ \E n \in Range(HeightOf) : items' = <<tip >= n>> /\ Finish("ok")
       \/ UNCHANGED items /\ Finish("failed")
    /\ UNCHANGED <<tip, hash, height, todo, unconfirmed>> /\ Aside

ReadIds ==
    /\ step = "ids"
    /\ items' = SetToSeq(mempool)
    /\ Finish("ok")
    /\ UNCHANGED <<tip, hash, height, todo, unconfirmed>> /\ Aside

-----------------------------------------------------------------------------
(* outpointSpend, and outpointSpends for each output of its list.          *)

\* Told of an output; "" where the answer says nothing.
Told(o, spent, spender, h) == [out |-> o, spent |-> spent, spender |-> spender, height |-> h]

NextOutpoint == todo' = Tail(todo) /\ GoTo("txBlock")

ReadTxBlockOfOutput ==
    /\ step = "txBlock" /\ AsksSpends /\ todo # <<>>
    /\ LET o == Head(todo)
       IN  IF MadeBy[o] \in DOMAIN txBlock
           THEN hash' = txBlock[MadeBy[o]] /\ GoTo("spent") /\ UNCHANGED <<todo, items>>
           ELSE items' = Append(items, Told(o, "error", NoBlock, -1))
                /\ NextOutpoint /\ UNCHANGED hash
    /\ UNCHANGED <<tip, height, unconfirmed>> /\ Aside

\* Mutant of ReadSpent: the height is that of the transaction spent from.
ReadSpentOwnBlock ==
    /\ step = "spent"
    /\ LET o == Head(todo)
       IN  IF o \in DOMAIN txoSpent
           THEN items' = Append(items, Told(o, "yes", txoSpent[o].tx, -1))
                /\ GoTo("spentHeight")
           ELSE UNCHANGED items /\ GoTo("mempool")
    /\ UNCHANGED <<tip, hash, height, todo, unconfirmed>> /\ Aside

\* The mempool is asked as well (unconfirmed=1) when the index has no spend.
ReadSpent ==
    /\ step = "spent"
    /\ LET o == Head(todo)
       IN  IF o \in DOMAIN txoSpent
           THEN /\ hash' = txoSpent[o].block
                /\ items' = Append(items, Told(o, "yes", txoSpent[o].tx, -1))
                /\ GoTo("spentHeight")
           ELSE UNCHANGED <<hash, items>> /\ GoTo("mempool")
    /\ UNCHANGED <<tip, height, todo, unconfirmed>> /\ Aside

ReadSpentHeight ==
    /\ step = "spentHeight"
    /\ items' = IF hash \in DOMAIN hashHeight
                THEN [items EXCEPT ![Len(items)].height = hashHeight[hash]] ELSE items
    /\ NextOutpoint
    /\ UNCHANGED <<tip, hash, height, unconfirmed>> /\ Aside

EndOutpoints ==
    /\ step = "txBlock" /\ AsksSpends /\ todo = <<>>
    /\ Finish("ok")
    /\ UNCHANGED locals /\ Aside

MempoolSpenders(o) == {t \in mempool : o \in Takes[t]}

\* Of a spender in the mempool outpointSpends says nothing at all: it writes
\* it into a variable that hides the answer.
ReadMempool ==
    /\ step = "mempool"
    /\ LET o == Head(todo)
       IN  IF MempoolSpenders(o) = {}
           THEN items' = Append(items, Told(o, "no", NoBlock, -1))
           ELSE IF op = "outpointSpends"
           THEN items' = Append(items, Told(o, "", NoBlock, -1))
           ELSE \E t \in MempoolSpenders(o) : items' = Append(items, Told(o, "yes", t, 0))
    /\ NextOutpoint
    /\ UNCHANGED <<tip, hash, height, unconfirmed>> /\ Aside

-----------------------------------------------------------------------------
(* getBlockTransactions.                                                   *)

OutsMade(t) == {o \in Outpoints : MadeBy[o] = t}

\* Mutant of PageOf: the transactions counted from 1.
PageOfFromOne(b, page) ==
    LET start == PageSize * page + 1
    IN  SubSeq(TxList[b], start + 1, Min({start + PageSize + 1, Len(TxList[b])}))

\* The last transaction of a page is also the first of the next.
PageOf(b, page) ==
    LET start == PageSize * page
    IN  SubSeq(TxList[b], start + 1, Min({start + PageSize + 1, Len(TxList[b])}))

\* The reads that a transaction takes: addresses and value of what it spends,
\* spender and addresses of what it makes.
ReadsFor(t) ==
    FlattenSeq([i \in 1..Cardinality(Takes[t]) |->
        LET o == SetToSeq(Takes[t])[i]
        IN  <<[part |-> "from", out |-> o, tx |-> t], [part |-> "value", out |-> o, tx |-> t]>>])
    \o FlattenSeq([i \in 1..Cardinality(OutsMade(t)) |->
        LET o == SetToSeq(OutsMade(t))[i]
        IN  <<[part |-> "spent", out |-> o, tx |-> t], [part |-> "to", out |-> o, tx |-> t]>>])

ReadPage ==
    /\ step = "position" /\ op = "getBlockTransactions"
    /\ IF height \in DOMAIN blockAt
       THEN LET page == PageOf(blockAt[height], arg.page)
            IN  /\ todo' = FlattenSeq([i \in DOMAIN page |-> ReadsFor(page[i])])
                /\ GoTo("part")
       ELSE UNCHANGED todo /\ Finish("notFound")
    /\ UNCHANGED <<tip, hash, height, items, unconfirmed>> /\ Aside

AddressesFor(o) == [a \in Addresses |-> txoAddress[[out |-> o, address |-> a]]]

ReadPart ==
    /\ step = "part" /\ todo # <<>> /\ Head(todo).part # "spent"
    /\ LET r == Head(todo)
       IN  /\ items' = Append(items,
                  [part |-> r.part, out |-> r.out, tx |-> r.tx,
                   told |-> CASE r.part = "value" -> MadeBy[r.out] \in DOMAIN txBlock
                              [] r.part = "height" -> hashHeight[r.block]
                              [] OTHER -> AddressesFor(r.out)])
           /\ IF r.part = "to" /\ r.out \in Nameless THEN Finish("failed")
              ELSE UNCHANGED <<step, status>>
    /\ todo' = Tail(todo)
    /\ UNCHANGED <<tip, hash, height, unconfirmed>> /\ Aside

\* The height of the block that spends an output is another read.
ReadPartSpent ==
    /\ step = "part" /\ todo # <<>> /\ Head(todo).part = "spent"
    /\ LET r == Head(todo)
       IN  IF r.out \in DOMAIN txoSpent
           THEN /\ items' = Append(items, [part |-> "spent", out |-> r.out, tx |-> r.tx,
                                           told |-> txoSpent[r.out].tx])
                /\ todo' = <<[part |-> "height", out |-> r.out, tx |-> r.tx,
                              block |-> txoSpent[r.out].block]>> \o Tail(todo)
           ELSE UNCHANGED items /\ todo' = Tail(todo)
    /\ UNCHANGED <<tip, hash, height, unconfirmed, step, status>> /\ Aside

EndParts ==
    /\ step = "part" /\ todo = <<>>
    /\ Finish("ok")
    /\ UNCHANGED locals /\ Aside

-----------------------------------------------------------------------------
(* addressBalance and addressTxos.                                         *)

NoSpender == NoBlock

\* The numbers in S as an iterator meets them.
Ascending(S) == [i \in 1..Cardinality(S) |->
                    CHOOSE n \in S : Cardinality({m \in S : m < n}) = i - 1]

\* The TXO stored for address a under number n.
TxoAt(a, n) == [out |-> addressTxo[<<a, n>>].out, time |-> -1,
                height |-> addressTxo[<<a, n>>].height, spender |-> NoSpender]

NumbersOf(a) == {k[2] : k \in {l \in DOMAIN addressTxo : l[1] = a}}

\* Mutant of TxosFound: the search starts after the first key.
TxosFoundLate(a) ==
    LET numbers == Ascending(NumbersOf(a) \ {1})
    IN  [i \in DOMAIN numbers |-> TxoAt(a, numbers[i])]

TxosFound(a) ==
    LET numbers == Ascending(NumbersOf(a))
    IN  [i \in DOMAIN numbers |-> TxoAt(a, numbers[i])]

AskedAddress == IF op = "addressTxos" THEN arg.address ELSE arg

TakeSnapshot ==
    /\ step = "snapshot"
    /\ todo' = TxosFound(AskedAddress)
    /\ GoTo("txo")
    /\ UNCHANGED <<tip, hash, height, items, unconfirmed>> /\ Aside

\* The spends are not those of the snapshot: they are read one by one.
LookUpSpend ==
    /\ step = "txo" /\ todo # <<>> /\ op = "addressBalance"
    /\ IF Head(todo).out \in DOMAIN txoSpent
       THEN todo' = Tail(todo) /\ UNCHANGED <<items, step, status>>
       ELSE items' = Append(items, Head(todo).out) /\ UNCHANGED todo /\ GoTo("spender")
    /\ UNCHANGED <<tip, hash, height, unconfirmed>> /\ Aside

LookUpSpendOfTxo ==
    /\ step = "txo" /\ todo # <<>> /\ op = "addressTxos"
    /\ todo' = [todo EXCEPT ![1].spender = IF Head(todo).out \in DOMAIN txoSpent
                                           THEN txoSpent[Head(todo).out].tx ELSE NoSpender]
    /\ GoTo("time")
    /\ UNCHANGED <<tip, hash, height, items, unconfirmed>> /\ Aside

\* An output with its spender goes into the answer, unless only unspent ones
\* are asked for.
ListTxo(txo) ==
    /\ items' = IF arg.unspent /\ txo.spender # NoSpender THEN items ELSE Append(items, txo)
    /\ todo' = Tail(todo)
    /\ GoTo("txo")

\* Mutant of ReadTxoTime: the height asked for is left out as well.
ReadTxoTimeLate ==
    /\ step = "time"
    /\ LET txo == [Head(todo) EXCEPT !.time = TimeOf[blockAt[Head(todo).height]]]
       IN  IF txo.height <= arg.since
           THEN todo' = Tail(todo) /\ GoTo("txo") /\ UNCHANGED items
           ELSE IF txo.spender = NoSpender
           THEN todo' = [todo EXCEPT ![1] = txo] /\ GoTo("spender") /\ UNCHANGED items
           ELSE ListTxo(txo)
    /\ UNCHANGED <<tip, hash, height, unconfirmed>> /\ Aside

\* The mempool is asked as well (unconfirmed=1) when the index has no spend.
ReadTxoTime ==
    /\ step = "time"
    /\ LET txo == [Head(todo) EXCEPT !.time = TimeOf[blockAt[Head(todo).height]]]
       IN  IF txo.height < arg.since
           THEN todo' = Tail(todo) /\ GoTo("txo") /\ UNCHANGED items
           ELSE IF txo.spender = NoSpender
           THEN todo' = [todo EXCEPT ![1] = txo] /\ GoTo("spender") /\ UNCHANGED items
           ELSE ListTxo(txo)
    /\ UNCHANGED <<tip, hash, height, unconfirmed>> /\ Aside

WithMempoolSpender(txo) ==
    IF MempoolSpenders(txo.out) = {} THEN {txo}
    ELSE {[txo EXCEPT !.spender = t] : t \in MempoolSpenders(txo.out)}

CountUnlessSpent ==
    /\ unconfirmed' = IF MempoolSpenders(Head(todo).out) = {}
                      THEN Append(unconfirmed, Head(todo).out) ELSE unconfirmed
    /\ todo' = Tail(todo)

LookUpSpender ==
    /\ step = "spender"
    /\ IF op = "addressBalance" THEN CountUnlessSpent /\ GoTo("txo") /\ UNCHANGED items
       ELSE /\ \E txo \in WithMempoolSpender(Head(todo)) : ListTxo(txo)
            /\ UNCHANGED unconfirmed
    /\ UNCHANGED <<tip, hash, height>> /\ Aside

PendingTxos(a) == {c.out : c \in {d \in UNION {Makes[t] : t \in mempool} : d.address = a}}

ReadPending ==
    /\ step = "txo" /\ todo = <<>>
    /\ LET pending == SetToSeq(PendingTxos(AskedAddress))
       IN  todo' = [i \in DOMAIN pending |-> [out |-> pending[i], time |-> -1,
                                             height |-> -1, spender |-> NoSpender]]
    /\ GoTo("pending")
    /\ UNCHANGED <<tip, hash, height, items, unconfirmed>> /\ Aside

\* addressTxos lists an output of the mempool whatever is asked for.
LookUpPending ==
    /\ step = "pending" /\ todo # <<>>
    /\ IF op = "addressBalance" THEN CountUnlessSpent /\ UNCHANGED items
       ELSE /\ \E txo \in WithMempoolSpender(Head(todo)) : items' = Append(items, txo)
            /\ todo' = Tail(todo)
            /\ UNCHANGED unconfirmed
    /\ UNCHANGED <<tip, hash, height, step, status>> /\ Aside

EndOutputs ==
    /\ step = "pending" /\ todo = <<>>
    /\ Finish("ok")
    /\ UNCHANGED locals /\ Aside

-----------------------------------------------------------------------------
(* getBlocks and getBlocksByDate.                                          *)

\* The iterator starts at the block named by "highestblock": if that has not
\* been written yet, it starts at a key of another kind, which is no number.
ListBlocks ==
    /\ step = "list"
    /\ IF tip \in DOMAIN blockAt
       THEN /\ todo' = [i \in 1..(IF tip < PageLimit THEN tip + 1 ELSE PageLimit) |->
                           [hash |-> blockAt[tip + 1 - i], height |-> tip + 1 - i]]
            /\ GoTo("info")
       ELSE UNCHANGED todo /\ Finish("failed")
    /\ UNCHANGED <<tip, hash, height, items, unconfirmed>> /\ Aside

\* All times: a narrower range is a part of this list.
ListByDate ==
    /\ step = "range"
    /\ LET times == Ascending(DOMAIN timeHash)
       IN  todo' = [i \in DOMAIN times |-> [hash |-> timeHash[times[i]], height |-> 0]]
    /\ GoTo("listed")
    /\ UNCHANGED <<tip, hash, height, items, unconfirmed>> /\ Aside

ReadListedHeight ==
    /\ step = "listed" /\ todo # <<>>
    /\ todo' = [todo EXCEPT ![1].height = hashHeight[Head(todo).hash]]
    /\ GoTo("info")
    /\ UNCHANGED <<tip, hash, height, items, unconfirmed>> /\ Aside

\* Mutant of ReadInfo: what is recorded one height below.
ReadInfoBelow ==
    /\ step = "info" /\ todo # <<>>
    /\ LET it == Head(todo)
       IN  items' = Append(items, [hash |-> it.hash, height |-> it.height,
               time |-> TimeOf[blockAt[IF it.height = 0 THEN 0 ELSE it.height - 1]]])
    /\ todo' = Tail(todo)
    /\ GoTo(IF op = "getBlocks" THEN "info" ELSE "listed")
    /\ UNCHANGED <<tip, hash, height, unconfirmed>> /\ Aside

\* Size, time and number of transactions are those recorded for the height.
ReadInfo ==
    /\ step = "info" /\ todo # <<>>
    /\ LET it == Head(todo)
       IN  items' = Append(items, [hash |-> it.hash, height |-> it.height,
                                   time |-> TimeOf[blockAt[it.height]]])
    /\ todo' = Tail(todo)
    /\ GoTo(IF op = "getBlocks" THEN "info" ELSE "listed")
    /\ UNCHANGED <<tip, hash, height, unconfirmed>> /\ Aside

EndList ==
    /\ step \in {"info", "listed"} /\ todo = <<>>
    /\ Finish("ok")
    /\ UNCHANGED locals /\ Aside

-----------------------------------------------------------------------------
Handler ==
    \/ ReadHighest \/ ReadTxBlock \/ ReadHeight \/ ReadPosition \/ EndPositions
    \/ CountBlocks \/ ReadIds
    \/ ReadTxBlockOfOutput \/ ReadSpent \/ ReadSpentHeight \/ ReadMempool
    \/ EndOutpoints
    \/ ReadPage \/ ReadPart \/ ReadPartSpent \/ EndParts
    \/ TakeSnapshot \/ LookUpSpend \/ LookUpSpendOfTxo \/ ReadTxoTime \/ LookUpSpender
    \/ ReadPending \/ LookUpPending \/ EndOutputs
    \/ ListBlocks \/ ListByDate \/ ReadListedHeight \/ ReadInfo \/ EndList

\* What happens between an answer and the next request matters to neither, so
\* an answer is closed as soon as it is there.
Next ==
    \/ Close
    \/ /\ step # "done"
       /\ \/ \E o \in Operations : \E x \in Arguments(o) : Begin(o, x)
          \/ Handler
          \/ \E b \in Blocks : Index(b)
          \/ Clear \/ BuildBatch \/ Batch
          \/ \E t \in Txs : transactionIndexed(t) \/ MonitorInserts(t)

Spec == Init /\ [][Next]_serverVars

-----------------------------------------------------------------------------
(* Properties.  They are of answers given while no reorganisation was under *)
(* way: one tears every answer, and nothing holds of those.                *)

Answered(o) == op = o /\ status = "ok" /\ ~torn

\* The index stays type correct beside the handlers, and a handler that has
\* not answered has its next read before it.
ServerTypeOK ==
    /\ TypeOK
    /\ mempool \subseteq Txs
    /\ toNotify \subseteq Txs /\ (toNotify # {} => job.step = "batch")
    /\ op \in Operations \cup {"none"}
    /\ (op = "none") <=> (step = "idle")
    /\ (status = "") <=> (step # "done")
    /\ tip \in Nat \cup {-1} /\ hash \in Blocks \cup {NoBlock} /\ height \in Nat
    /\ torn \in BOOLEAN

\* getBlock answers a recorded block with that block, and with at least one
\* confirmation: the height read after "highestblock" is never above it.
BlockAnswered ==
    (Answered("getBlock") /\ arg \in before.recorded) =>
        /\ items = <<arg>>
        /\ Unsigned(tip - HeightOf[arg] + 1) \in 1..(highest + 1)

\* The proof of a transaction in a recorded block is a piece of the chain, of
\* full length, that ends in a block with the transaction; below the height
\* that the length needs, it is empty.
ProofIsChain ==
    (Answered("getTransactionProof") /\ \E b \in before.recorded : arg \in TxsOf[b]) =>
        /\ Len(items) = IF height < ProofDepth THEN 0 ELSE ProofDepth
        /\ items # <<>> => arg \in TxsOf[items[1]]
        /\ \A i \in 1..(Len(items) - 1) : Prev[items[i]] = items[i + 1]

OutsOf(a, S) == {r.out : r \in {q \in UNION {TxosOf(b) : b \in S} : q.address = a}}

\* The balance of an address counts every output of the chain that is not
\* spent, and none that was spent when the request came, although outputs
\* and spends are read at different moments.
BalanceOfChain ==
    Answered("addressBalance") =>
        /\ ToSet(items) \cap before.spent = {}
        /\ OutsOf(arg, before.recorded) \ DOMAIN txoSpent \subseteq ToSet(items)
        /\ ToSet(items) \subseteq OutsOf(arg, Intact)

\* A transaction that is indexed while its outputs are counted is not counted
\* as an unconfirmed one as well.
CountedOnce ==
    Answered("addressBalance") => IsInjective(items) /\ IsInjective(unconfirmed)

Listed == {items[i] : i \in DOMAIN items}

\* The outputs listed for an address are those that the chain gave it from the
\* height asked for, each once, with the height and the time of its block; one
\* that the chain had spent when the request came has its spender, and so has
\* one whose spender was in the mempool from the request to the answer.  If
\* only the unspent ones were asked for, none is left out that is not spent.
TxosOfChain ==
    Answered("addressTxos") =>
        LET confirmed == {x \in Listed : x.height # -1}
            due == {r \in UNION {TxosOf(b) : b \in before.recorded} :
                       r.address = arg.address /\ r.height >= arg.since}
            mined == IF job.step = "batch" THEN TxsOf[job.block] ELSE {}
            spent(o) == \/ o \in DOMAIN txoSpent
                        \/ \E t \in mempool \cup mined : o \in Takes[t]
        IN  /\ IsInjective([i \in DOMAIN items |-> items[i].out])
            /\ \A r \in due : (\E x \in confirmed : x.out = r.out)
                              \/ (arg.unspent /\ spent(r.out))
            /\ \A x \in confirmed :
                  /\ x.height >= arg.since
                  /\ \E b \in Intact : x.height = HeightOf[b] /\ x.time = TimeOf[b]
                                     /\ x.out \in OutsOf(arg.address, {b})
                  /\ x.out \in before.spent =>
                        x.spender = txoSpent[x.out].tx /\ ~arg.unspent
            /\ \A x \in Listed : x.spender = NoSpender =>
                  \A t \in before.mempool \cap mempool : x.out \notin Takes[t]

\* A page of a block that was recorded when the request came tells of its
\* transactions, in their number, what each made, whom it was made out to and,
\* if it was spent by then, by whom and at what height; and of what each spent
\* that it was recorded.
PageAnswered ==
    (Answered("getBlockTransactions") /\ arg.block \in before.recorded) =>
        LET first == PageSize * arg.page + 1
            last == Min({first + PageSize - 1, Len(TxList[arg.block])})
            told(part, o, t) == {x.told : x \in {y \in Listed :
                                    y.part = part /\ y.out = o /\ y.tx = t}}
            paid(o) == {a \in Addresses : \E c \in Makes[MadeBy[o]] :
                                              c.out = o /\ c.address = a}
            positive(counts) == {a \in Addresses : counts[a] > 0}
        IN  \A t \in {TxList[arg.block][i] : i \in first..last} :
                /\ \A o \in Takes[t] : /\ told("value", o, t) = {TRUE}
                                      /\ {positive(c) : c \in told("from", o, t)} = {paid(o)}
                /\ \A o \in OutsMade(t) :
                      /\ {positive(c) : c \in told("to", o, t)} = {paid(o)}
                      /\ o \in before.spent =>
                            /\ told("spent", o, t) = {txoSpent[o].tx}
                            /\ told("height", o, t) = {HeightOf[txoSpent[o].block]}

\* outpointSpend and outpointSpends answer for every outpoint they are asked
\* for, in this order; for one that the chain had spent when the request came,
\* with its spender and the height of the spender's block; and for none that
\* it is unspent if its spender was in the mempool all the time.
SpenderAnswered ==
    (Answered("outpointSpend") \/ Answered("outpointSpends")) =>
        /\ [i \in DOMAIN items |-> items[i].out]
           = IF op = "outpointSpend" THEN <<arg>> ELSE arg
        /\ \A x \in Listed :
              /\ x.out \in before.spent =>
                    /\ x.spender = txoSpent[x.out].tx
                    /\ \E b \in before.recorded : HeightOf[b] = x.height
                                                 /\ x.spender \in TxsOf[b]
              /\ x.spent = "no" =>
                    \A t \in before.mempool \cap mempool : x.out \notin Takes[t]

\* The blocks listed are linked, from "highestblock" downwards, and what is
\* told of a listed block that is recorded is its own.
ListsConsistent ==
    /\ Answered("getBlocks") =>
          /\ items[1].height = tip
          /\ \A i \in 1..(Len(items) - 1) : Prev[items[i].hash] = items[i + 1].hash
    /\ (Answered("getBlocks") \/ Answered("getBlocksByDate")) =>
          \A i \in DOMAIN items : items[i].hash \in Intact =>
              /\ items[i].height = HeightOf[items[i].hash]
              /\ items[i].time = TimeOf[items[i].hash]
=============================================================================
