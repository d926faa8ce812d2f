SPECIFICATION Spec
CONSTANTS
    Txs <- MCTxs
    Addresses <- MCAddresses
    AddressesOf <- MCAddressesOf
    NoTx = NoTx
    MaxReturns = 0
PROPERTY IndexedLeavesMempool
