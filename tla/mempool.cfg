SPECIFICATION Spec
CONSTANTS
    Txs <- MCTxs
    Addresses <- MCAddresses
    AddressesOf <- MCAddressesOf
    NoTx = NoTx
    MaxReturns = 1
INVARIANTS
    TypeOK
    NoOutputTwice
PROPERTY PoolIsSeen
