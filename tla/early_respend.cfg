SPECIFICATION WatcherSpec
CONSTANTS
    Blocks = {"g0", "a1", "a2", "b1", "b2"}
    Files = {"blk0"}
    MaxStored = 5
    MaxClock = 2
    SameSecondWrites = TRUE
    MaxRestarts = 0
    MaxIndexings = 4
    NoBlock = NoBlock
    ZeroHash = ZeroHash
    Prev <- MCPrev
    HeightOf <- MCHeightOf
    TimeOf <- MCHeightOf
    Txs <- MCTxs
    Outpoints <- MCTxs
    Addresses <- MCAddresses
    TxsOf <- EarlyTxsOf
    Credits <- MCCredits
    Debits <- EarlyDebits
INVARIANT SpendsRecorded
