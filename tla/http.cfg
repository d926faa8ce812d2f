SPECIFICATION Spec
CONSTANTS
    Blocks <- ServedBlocks

    NoBlock = NoBlock
    ZeroHash = ZeroHash
    Prev <- MCPrev
    HeightOf <- MCHeightOf
    TimeOf <- MCTimeOf
    Txs <- ServedTxs
    Outpoints <- ServedTxs
    Addresses <- MCAddresses
    TxsOf <- MCTxsOf
    Credits <- MCCredits
    Debits <- MCDebits
    MaxIndexings = 1
    MaxRestarts = 0
    Makes <- MCMakes
    Takes <- MCTakes
    MadeBy <- MCMadeBy
    TxList <- MCTxList
    Nameless = {"side"}
    TxosRequests <- MCTxosRequests
    SpendLists <- MCSpendLists
    PageRequests <- MCPageRequests
    PageSize = 1
    ProofDepth = 2
    PageLimit = 3
    Modulus = 1000
INVARIANTS
    ServerTypeOK
    BlockAnswered
    ProofIsChain
    BalanceOfChain
    
    SpenderAnswered
    
    PageAnswered
    ListsConsistent
