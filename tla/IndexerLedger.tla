---------------------------- MODULE IndexerLedger ----------------------------
(***************************************************************************)
(* BlockIndexer implements Ledger: of the three writes of indexBlock the   *)
(* removal withdraws a block, the batch posts one, and "highestblock" does *)
(* neither.                                                                *)
(***************************************************************************)
EXTENDS BlockIndexer

StoredSpends == {[out |-> o, block |-> txoSpent[o].block, tx |-> txoSpent[o].tx] :
                    o \in DOMAIN txoSpent}

Books == INSTANCE Ledger WITH
        Below <- Prev,
        Level <- HeightOf,
        Gives <- [b \in Blocks |-> TxosOf(b)],
        Takes <- [b \in Blocks |-> {[out |-> d.out, block |-> b, tx |-> d.tx] :
                                       d \in Range(Debits[b])}],
        posted <- Intact,
        credits <- StoredTxos,
        spends <- StoredSpends

\* Every step of the indexer, in any order of blocks and reorganisations and
\* with blocks that come back, withdraws one whole block, posts one whole
\* block, or changes nothing that a reader sees; and it spends no output twice.
KeepsLedger == Books!LedgerSpec
=============================================================================
