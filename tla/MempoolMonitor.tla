--------------------------- MODULE MempoolMonitor ---------------------------
(***************************************************************************)
(* The unconfirmed transactions kept in memory (src/mempoolmonitor.cpp).   *)
(* Two threads change them without a lock: the monitor, which polls the    *)
(* coin daemon and enters what is new, and the indexer, which calls        *)
(* transactionIndexed for every transaction of a block before it writes    *)
(* the block's batch (src/blockindexer.cpp).  Every single operation on a  *)
(* map is taken as atomic, the best that the unlocked maps can do; the     *)
(* threads interleave between any two of them.                             *)
(***************************************************************************)
EXTENDS Integers, Sequences, FiniteSets, Functions

CONSTANTS
    Txs,
    Addresses,
    AddressesOf,    \* AddressesOf[t]: the address of every output of t, in order
    NoTx,
    MaxReturns      \* bound: how often a reorganisation returns a transaction
                    \* to the daemon's pool

ASSUME MempoolAssumption ==
    /\ NoTx \notin Txs
    /\ AddressesOf \in [Txs -> Seq(Addresses)]
    /\ MaxReturns \in Nat

VARIABLES
    pool,                       \* the daemon's pool
    gone,                       \* evicted from it, replaced or in conflict
    mined,                      \* in a block of the daemon's chain
    blocks,                     \* the blocks the indexer has not yet taken
    returns,
    mempoolTransactions,        \* the transactions of the monitor's map
    addressMempoolTransactions, \* per address the transactions of its outputs
    mpc, snapshot, current, outputs,                    \* the monitor thread
    ipc, blockTxs, toNotify, erased, toCollect, changed,\* the indexer thread
    indexed                     \* the transactions the index holds

daemonVars == <<pool, gone, mined, blocks, returns>>
maps == <<mempoolTransactions, addressMempoolTransactions>>
monitorVars == <<mpc, snapshot, current, outputs>>
notifyVars == <<ipc, blockTxs, toNotify, erased, toCollect, changed, indexed>>
vars == <<daemonVars, maps, monitorVars, notifyVars>>

NothingChanged == [a \in {} |-> <<>>]

Init ==
    /\ pool = {} /\ gone = {} /\ mined = {} /\ blocks = <<>> /\ returns = 0
    /\ mempoolTransactions = {}
    /\ addressMempoolTransactions = [a \in Addresses |-> <<>>]
    /\ mpc = "sleep" /\ snapshot = {} /\ current = NoTx /\ outputs = <<>>
    /\ ipc = "idle" /\ blockTxs = {} /\ toNotify = {} /\ erased = NoTx
    /\ toCollect = {} /\ changed = NothingChanged /\ indexed = {}

-----------------------------------------------------------------------------
(* The coin daemon.                                                        *)

Accept(t) ==
    /\ t \notin pool \cup gone \cup mined
    /\ pool' = pool \cup {t}
    /\ UNCHANGED <<gone, mined, blocks, returns, maps, monitorVars, notifyVars>>

Evict(t) ==
    /\ t \in pool
    /\ pool' = pool \ {t}
    /\ gone' = gone \cup {t}
    /\ UNCHANGED <<mined, blocks, returns, maps, monitorVars, notifyVars>>

\* A block may hold transactions that never were in this daemon's pool.
Mine(S) ==
    /\ S \cap (gone \cup mined) = {}
    /\ pool' = pool \ S
    /\ mined' = mined \cup S
    /\ blocks' = Append(blocks, S)
    /\ UNCHANGED <<gone, returns, maps, monitorVars, notifyVars>>

\* A reorganisation takes t's block off the chain.
Unmine(t) ==
    /\ t \in indexed /\ t \in mined
    /\ returns < MaxReturns
    /\ returns' = returns + 1
    /\ mined' = mined \ {t}
    /\ pool' = pool \cup {t}
    /\ UNCHANGED <<gone, blocks, maps, monitorVars, notifyVars>>

-----------------------------------------------------------------------------
(* The monitor thread, startWatcher.                                       *)

Poll ==
    /\ mpc = "sleep"
    /\ snapshot' = pool
    /\ mpc' = "loop"
    /\ UNCHANGED <<daemonVars, maps, current, outputs, notifyVars>>

SkipKnown(t) ==
    /\ mpc = "loop" /\ t \in snapshot
    /\ t \in mempoolTransactions
    /\ snapshot' = snapshot \ {t}
    /\ UNCHANGED <<daemonVars, maps, mpc, current, outputs, notifyVars>>

\* Mutant of FetchTx: also what is known already.
FetchTxAgain(t) ==
    /\ mpc = "loop" /\ t \in snapshot
    /\ t \in pool \cup mined
    /\ snapshot' = snapshot \ {t}
    /\ current' = t
    /\ mpc' = "insert"
    /\ UNCHANGED <<daemonVars, maps, outputs, notifyVars>>

\* The daemon has a transaction index, so it answers for mined ones as well.
FetchTx(t) ==
    /\ mpc = "loop" /\ t \in snapshot
    /\ t \notin mempoolTransactions
    /\ t \in pool \cup mined
    /\ snapshot' = snapshot \ {t}
    /\ current' = t
    /\ mpc' = "insert"
    /\ UNCHANGED <<daemonVars, maps, outputs, notifyVars>>

\* Mutant of FetchFails: the same transaction is asked for again and again.
FetchFailsStays(t) ==
    /\ mpc = "loop" /\ t \in snapshot
    /\ t \notin mempoolTransactions
    /\ t \notin pool \cup mined
    /\ UNCHANGED vars

\* The daemon no longer has it: the exception ends this round.
FetchFails(t) ==
    /\ mpc = "loop" /\ t \in snapshot
    /\ t \notin mempoolTransactions
    /\ t \notin pool \cup mined
    /\ snapshot' = {}
    /\ mpc' = "sleep"
    /\ UNCHANGED <<daemonVars, maps, current, outputs, notifyVars>>

InsertTx ==
    /\ mpc = "insert"
    /\ mempoolTransactions' = mempoolTransactions \cup {current}
    /\ outputs' = AddressesOf[current]
    /\ mpc' = "push"
    /\ UNCHANGED <<daemonVars, addressMempoolTransactions, snapshot, current, notifyVars>>

PushOutput ==
    /\ mpc = "push" /\ outputs # <<>>
    /\ addressMempoolTransactions' =
          [addressMempoolTransactions EXCEPT ![Head(outputs)] = Append(@, current)]
    /\ outputs' = Tail(outputs)
    /\ UNCHANGED <<daemonVars, mempoolTransactions, mpc, snapshot, current, notifyVars>>

EndPush ==
    /\ mpc = "push" /\ outputs = <<>>
    /\ current' = NoTx
    /\ mpc' = "loop"
    /\ UNCHANGED <<daemonVars, maps, snapshot, outputs, notifyVars>>

EndPoll ==
    /\ mpc = "loop" /\ snapshot = {}
    /\ mpc' = "sleep"
    /\ UNCHANGED <<daemonVars, maps, snapshot, current, outputs, notifyVars>>

-----------------------------------------------------------------------------
(* The indexer thread: indexBlock calling transactionIndexed.              *)

TakeBlock ==
    /\ ipc = "idle" /\ blocks # <<>>
    /\ blockTxs' = Head(blocks)
    /\ toNotify' = Head(blocks)
    /\ blocks' = Tail(blocks)
    /\ ipc' = "notify"
    /\ UNCHANGED <<pool, gone, mined, returns, maps, monitorVars, erased, toCollect,
                   changed, indexed>>

NotifyUnknown(t) ==
    /\ ipc = "notify" /\ t \in toNotify
    /\ t \notin mempoolTransactions
    /\ toNotify' = toNotify \ {t}
    /\ UNCHANGED <<daemonVars, maps, monitorVars, ipc, blockTxs, erased, toCollect,
                   changed, indexed>>

EraseTx(t) ==
    /\ ipc = "notify" /\ t \in toNotify
    /\ t \in mempoolTransactions
    /\ mempoolTransactions' = mempoolTransactions \ {t}
    /\ toNotify' = toNotify \ {t}
    /\ erased' = t
    /\ toCollect' = Addresses
    /\ changed' = NothingChanged
    /\ ipc' = "collect"
    /\ UNCHANGED <<daemonVars, addressMempoolTransactions, monitorVars, blockTxs, indexed>>

\* Copied[i]: the first i of list without the outputs of t.
Copied(list, t) ==
    LET copied[i \in 0..Len(list)] ==
            IF i = 0 THEN <<>>
            ELSE IF list[i] = t THEN copied[i - 1]
            ELSE Append(copied[i - 1], list[i])
    IN  copied

Without(list, t) == Copied(list, t)[Len(list)]

\* The list of an address is copied without the outputs of the erased one.
CollectAddress(a) ==
    /\ ipc = "collect" /\ a \in toCollect
    /\ toCollect' = toCollect \ {a}
    /\ changed' =
          IF erased \in Range(addressMempoolTransactions[a])
          THEN [b \in DOMAIN changed \cup {a} |->
                   IF b = a THEN Without(addressMempoolTransactions[a], erased)
                   ELSE changed[b]]
          ELSE changed
    /\ ipc' = IF toCollect' = {} THEN "store" ELSE "collect"
    /\ UNCHANGED <<daemonVars, maps, monitorVars, blockTxs, toNotify, erased, indexed>>

\* The copy takes the place of the list, whatever was pushed in between.
StoreAddress(a) ==
    /\ ipc = "store" /\ a \in DOMAIN changed
    /\ addressMempoolTransactions' = [addressMempoolTransactions EXCEPT ![a] = changed[a]]
    /\ changed' = Restrict(changed, DOMAIN changed \ {a})
    /\ UNCHANGED <<daemonVars, mempoolTransactions, monitorVars, ipc, blockTxs, toNotify,
                   erased, toCollect, indexed>>

EndNotify ==
    /\ ipc = "store" /\ DOMAIN changed = {}
    /\ erased' = NoTx
    /\ ipc' = "notify"
    /\ UNCHANGED <<daemonVars, maps, monitorVars, blockTxs, toNotify, toCollect, changed,
                   indexed>>

\* Mutant of WriteBlock: before all transactions have been notified.
WriteBlockEarly ==
    /\ ipc = "notify"
    /\ indexed' = indexed \cup blockTxs
    /\ blockTxs' = {}
    /\ ipc' = "idle"
    /\ UNCHANGED <<daemonVars, maps, monitorVars, toNotify, erased, toCollect, changed>>

\* Only now does the index show the block's transactions.
WriteBlock ==
    /\ ipc = "notify" /\ toNotify = {}
    /\ indexed' = indexed \cup blockTxs
    /\ blockTxs' = {}
    /\ ipc' = "idle"
    /\ UNCHANGED <<daemonVars, maps, monitorVars, toNotify, erased, toCollect, changed>>

-----------------------------------------------------------------------------
Daemon == \/ \E t \in Txs : Accept(t) \/ Evict(t) \/ Unmine(t)
          \/ \E S \in SUBSET Txs : S # {} /\ Mine(S)

Monitor == \/ Poll \/ InsertTx \/ PushOutput \/ EndPush \/ EndPoll
           \/ \E t \in Txs : SkipKnown(t) \/ FetchTx(t) \/ FetchFails(t)

Indexer == \/ TakeBlock \/ EndNotify \/ WriteBlock
           \/ \E t \in Txs : NotifyUnknown(t) \/ EraseTx(t)
           \/ \E a \in Addresses : CollectAddress(a) \/ StoreAddress(a)

Next == Daemon \/ Monitor \/ Indexer

\* Both threads run; the daemon may stop accepting and mining at any time.
Spec == Init /\ [][Next]_vars /\ WF_vars(Monitor) /\ WF_vars(Indexer)

-----------------------------------------------------------------------------
(* Properties.                                                             *)

\* What the threads hold is of its kind, and the transactions still to be
\* notified are those of the block in hand: its batch waits for them.
TypeOK ==
    /\ pool \subseteq Txs /\ gone \subseteq Txs /\ mined \subseteq Txs
    /\ blocks \in Seq(SUBSET Txs)
    /\ returns \in 0..MaxReturns
    /\ mempoolTransactions \subseteq Txs
    /\ addressMempoolTransactions \in [Addresses -> Seq(Txs)]
    /\ mpc \in {"sleep", "loop", "insert", "push"}
    /\ snapshot \subseteq Txs /\ current \in Txs \cup {NoTx}
    /\ outputs \in Seq(Addresses)
    /\ ipc \in {"idle", "notify", "collect", "store"}
    /\ blockTxs \subseteq Txs /\ toNotify \subseteq blockTxs
    /\ erased \in Txs \cup {NoTx} /\ toCollect \subseteq Addresses
    /\ DOMAIN changed \subseteq Addresses
    /\ \A a \in DOMAIN changed : changed[a] \in Seq(Txs)
    /\ indexed \subseteq Txs

\* What the web server is answered.
getTxIds == mempoolTransactions
getTxos(a) == addressMempoolTransactions[a]

Times(x, s) == Cardinality({i \in DOMAIN s : s[i] = x})

\* However the threads interleave, outside transactionIndexed an address list
\* has no output of a transaction more often than the transaction pays the
\* address, so that an unconfirmed balance counts no output twice: until a
\* reorganisation returns a transaction that had been indexed.
NoOutputTwice ==
    (returns = 0 /\ ipc \in {"idle", "notify"}) =>
        \A a \in Addresses, t \in Txs :
            Times(t, getTxos(a)) <= Times(a, AddressesOf[t])

\* A transaction that stays in the daemon's pool is seen, also after a poll
\* that failed half-way and after a return from a block.
PoolIsSeen ==
    \A t \in Txs : []<>(t \notin pool) \/ <>[](t \in getTxIds)

\* A transaction that has been indexed leaves the mempool.
IndexedLeavesMempool ==
    \A t \in Txs : t \in indexed ~> t \notin getTxIds
=============================================================================
