SPECIFICATION Spec
CONSTANTS
    Files = {"blk0", "blk1"}
    Blocks <- MCBlocks
    ZeroHash = ZeroHash
    ZeroHeader = ZeroHeader
    NoTx = NoTx
    Prev <- MCPrev
    Contents <- MCContents
    Txs <- MCTxs
    Inputs <- MCInputs
    Outputs <- MCOutputs
    Witness <- MCWitness
    Layouts <- MCLayouts
    Payees <- MCPayees
    p2pkhVersion = 0
    p2shVersion = 5
    bech32Prefix <- MCPrefix
    Hash160 <- MCHash160
    Sum <- MCSum
    MaxGarbage = 1
INVARIANTS
    FoundWhereStored
    BlocksReadBack
    MarksTheIndexedChain
    ReportIsTrue
    ForksReported
    PayeesTold
PROPERTY Finishes
CHECK_DEADLOCK FALSE
