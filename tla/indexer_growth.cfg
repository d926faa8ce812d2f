SPECIFICATION StartupSpec
CONSTANTS
    Blocks <- LineBlocks
    NoBlock = NoBlock
    ZeroHash = ZeroHash
    Prev <- MCPrev
    HeightOf <- MCHeightOf
    TimeOf <- MCTimeOf
    Txs <- MCTxs
    Outpoints <- MCOutpoints
    Addresses <- MCAddresses
    TxsOf <- MCTxsOf
    Credits <- MCCredits
    Debits <- MCDebits
    MaxIndexings = 1
    MaxRestarts = 4
CHECK_DEADLOCK FALSE
INVARIANTS TxosMatchBlocks ReportsToMonitor
PROPERTY NoTxoOverwritten
