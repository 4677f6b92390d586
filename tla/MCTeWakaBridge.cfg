SPECIFICATION Spec
CONSTANTS
    Users <- MCUsers
    Contracts <- MCContracts
    Locks <- MCLocks
    TxHash = {"b1", "b2", "m1", "m2", "m3"}
    RefusedHash = "none"
    Nil = Nil
    mimStakingAmount = 3
    Int10 = 2
    Int1000 = 2
    MaxCoinBase = 1
    DumpHeight = 2
    BlockReward = 4
    SubsidyReductionInterval = 2
    CIP_2 = 2
    CIP_3 = 3
    CIP_4 = 4
    CIP_5 = 5
    Committee <- MCCommittee
    Alloc <- MCAlloc
    ReceiptTables <- MCReceiptTables
    TransactionTables <- MCTransactionTables
    StakeAmounts = {}
    CastAmounts = {5}
    SendAmounts = {}
    CoinBaseLists = {}
    ToAddresses = {}
    TypeArgs <- MCTypeArgs
    PubKeys <- MCPubKeys
    Coinbases = {0}
    MaxNonce = 2
    MaxNumber = 6
INVARIANTS
    TypeOK
    BalancesNonNegative
    NoDoubleClaim
    MintSettlesOnce
    IDsDistinctSinceCIP3
    SupplyConserved
CHECK_DEADLOCK FALSE
