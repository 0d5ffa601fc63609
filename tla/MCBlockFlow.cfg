CONSTANTS
    a = a
    b = b
    Senders = {a, b}
    Txs <- MCTxs
    Genesis <- MCGenesis
    CosmosFees = {1}
    CosmosGas = {2}
    MaxGas = 4
    InitParams <- MCParams
    Proposals <- MCProposals
    MaxTxs = 3
    MaxLogs = 1
    MaxSeq = 2
    NoReceipt = NoReceipt
    NoTx = NoTx
    MaxBaseFee = 3
SPECIFICATION Spec
CONSTRAINT BaseFeeBound
INVARIANTS NonceCountsAccepted AnteSuffices FeesMatchGas ReceiptsTellOutcome
    WrittenGasFits ViewAgrees
