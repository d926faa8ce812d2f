SPECIFICATION WatcherSpec
CONSTANTS
    Blocks = {"g0", "a1", "b1", "b2"}
    Files = {"blk0"}
    MaxStored = 4
    MaxClock = 2
    SameSecondWrites = FALSE
    MaxRestarts = 1
    MaxIndexings = 4
    NoBlock = NoBlock
    ZeroHash = ZeroHash
    Prev <- MCPrev
    HeightOf <- MCHeightOf
    TimeOf <- MCHeightOf
    Txs <- MCTxs
    Outpoints <- MCTxs
    Addresses <- MCAddresses
    TxsOf <- MCTxsOf
    Credits <- MCCredits
    Debits <- MCDebits
PROPERTIES
    CatchesUp
    IndexerSpec
