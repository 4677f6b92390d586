SPECIFICATION Spec
CONSTANTS
    Users <- MCUsers
    Contracts <- MCContracts
    Locks <- MCLocks
    TxHash = {}
    RefusedHash = "none"
    Nil = Nil
    mimStakingAmount = 3
    Int10 = 2
    Int1000 = 2
    MaxCoinBase = 1
    DumpHeight = 2
    BlockReward = 4
    SubsidyReductionInterval = 2
    CIP_2 = 2
    CIP_3 = 3
    CIP_4 = 1
    CIP_5 = 2
    Committee <- MCCommittee
    Alloc <- MCAlloc
    ReceiptTables <- MCReceiptTables
    TransactionTables <- MCReceiptTables
    StakeAmounts = {2, 3}
    CastAmounts = {}
    SendAmounts = {1, 4}
    CoinBaseLists <- MCCoinBaseLists
    ToAddresses <- MCToAddresses
    TypeArgs = {}
    PubKeys = {}
    Coinbases = {1000}
    MaxNonce = 2
    MaxNumber = 3
INVARIANTS
    BalancesNonNegative
    PledgesDistinct
    LockedStakeBacked
    SupplyConserved
CHECK_DEADLOCK FALSE
