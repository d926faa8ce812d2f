SPECIFICATION RunningSpec
CONSTANTS
    Blocks <- ForkBlocks
    NoBlock = NoBlock
    ZeroHash = ZeroHash
    Prev <- MCPrev
    HeightOf <- MCHeightOf
    TimeOf <- MCTimeOf
    Txs <- MCTxs
    Outpoints <- MCOutpoints
    Addresses <- MCAddresses
    TxsOf <- MCTxsOf
    Credits <- MCCredits
    Debits <- MCDebits
    MaxIndexings = 5
    MaxRestarts = 0
CHECK_DEADLOCK FALSE
INVARIANTS
    TypeOK
    TxosMatchBlocks
    NoTxoTwice
    SpentByRecordedBlock
    SpendsRecorded
    HighestIsTip
PROPERTIES NoTxoOverwritten KeepsLedger
