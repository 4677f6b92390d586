------------------------------- MODULE TeWaka -------------------------------
(***************************************************************************)
(* The TeWaka precompiled contract of core/vm/te_waka.go: pledges          *)
(* (mortgage, update), the bridge to the side chains (convert, confirm,    *)
(* casting), and what the end of a block does to the same state            *)
(* (ethash.Finalize: rewards, the CIP_4 and CIP_5 sweeps, ShiftItems).     *)
(*                                                                         *)
(* One behaviour is one chain: the transactions of block `number' run one  *)
(* after the other on the block's StateDB, Finalize closes the block and   *)
(* the next one starts.  A call that returns an error leaves no trace but  *)
(* the sender's nonce (evm.Call reverts to its snapshot).  Gas is left     *)
(* out: what it moves between accounts is covered by Transfer.             *)
(*                                                                         *)
(* Addresses are the numbers they spell.  Amounts are in wei; the 10^10    *)
(* between wei and a side chain's unit is Int10.  The hash behind an ID is *)
(* taken to be free of collisions: an ID is the tuple of what is hashed.   *)
(***************************************************************************)
EXTENDS Integers, Sequences, FiniteSets

CONSTANTS
    Users,              \* externally owned accounts
    Contracts,          \* accounts with code: may call, never sign
    Locks,              \* addresses MortgageToMin..MortgageToMax in use
    TxHash,             \* hashes of side chain transactions
    RefusedHash,        \* the one hash that confirm turns away by name
    Nil,                \* no receipt, no log, no transaction, no hash
    mimStakingAmount, Int10, Int1000, MaxCoinBase,
    DumpHeight, BlockReward, SubsidyReductionInterval,
    CIP_2, CIP_3, CIP_4, CIP_5,
    Committee,          \* the genesis pledges
    Alloc,              \* the genesis balances, before the pledges lock theirs
    ReceiptTables,      \* the candidate contents of receiptMap
    TransactionTables,  \* the candidate contents of transactionMap
    StakeAmounts, CastAmounts, SendAmounts, CoinBaseLists, ToAddresses,
    TypeArgs, PubKeys, Coinbases,    \* the inputs that calls draw from
    MaxNonce, MaxNumber \* bounds: transactions per user, blocks

MortgageToMin == 257
MortgageToMax == 356
Address0 == 0
TeWakaSweep == 400      \* 0x1111111111111111111111111111
TeWakaHeir == 401       \* 0xa5D17B93f4156afd96be9f5B40888ffb47fA4bc1

PoolTypes == 1..7
CoinPools == [t \in PoolTypes |-> 100 + t]
Pools == 101..107

Address == Users \cup Contracts \cup Locks \cup Pools
             \cup {Address0, TeWakaSweep, TeWakaHeir}

\* A public key is the address it stands for, empty, or bytes that are no key.
NoKey == -1
BadKey == -2

\* The contracts a side chain transaction must be addressed to, by type.
\* metisPoolAddr repeats the first address of oecPoolAddr.
PoolAddr == << {"eth"}, {"heco1", "heco2"}, {"bsc1", "bsc2"}, {"oec1", "oec2"},
               {"polygon"}, {"oec1"}, {"gate"} >>

Uint8 == 0..255

Pledge == [addr : Address, to : Address, amount : Nat, cba : Seq(Address)]

\* What ConvertItem.Hash covers and the properties tell apart, and the nonce
\* that CIP_3 adds.  Path, router, slippage and insurance are left out: equal
\* ones are the hard case.
ID == [asset : Uint8, conv : Uint8, hash : TxHash \cup {Nil}, amount : Nat,
       extra : Address, nonce : Nat]

Item == [id : ID, assetType : Uint8, convertType : Uint8,
         pubKey : Users \cup {NoKey, BadKey}, amount : Nat, fee : Nat, extra : Address]

UsedItem == Uint8 \X TxHash

VARIABLES
    number,         \* evm.Context.BlockNumber
    bal, nonce,     \* StateDB accounts
    pledges,        \* TeWakaImpl.PledgeInfos
    items,          \* TeWakaImpl.ConvertItems
    used,           \* TeWakaImpl.UsedItems, only ever searched: a set
    records,        \* the czz-record table of the database
    receiptMap, transactionMap,
    panicked,       \* the process died of a run-time panic
    claims          \* history: the successful converts and confirms, in order

tewaka == <<pledges, items, used>>
side == <<receiptMap, transactionMap>>
vars == <<number, bal, nonce, tewaka, records, side, panicked, claims>>

-----------------------------------------------------------------------------
(* Helpers *)

IsCIP2 == CIP_2 <= number
IsCIP3 == CIP_3 <= number
IsCIP4 == CIP_4 <= number

SubBalance(b, a, v) == [b EXCEPT ![a] = @ - v]
AddBalance(b, a, v) == [b EXCEPT ![a] = @ + v]
Move(b, from, to, v) == AddBalance(SubBalance(b, from, v), to, v)

\* Variant for comparison: the fee is taken on top of the amount.
ChargeOnTop(b, from, to, amount, fee) ==
    AddBalance(AddBalance(SubBalance(b, from, amount + fee), to, amount), Address0, fee)

\* The bridge's transfer: the fee goes to the zero address.
Charge(b, from, to, amount, fee) ==
    AddBalance(AddBalance(SubBalance(b, from, amount), to, amount - fee), Address0, fee)

\* A Go map lookup: a type without a pool reads the zero address.
PoolOf(t) == IF t \in PoolTypes THEN CoinPools[t] ELSE Address0

\* big.Int's Cmp: -1, 0 or 1.
Cmp(x, y) == IF x < y THEN -1 ELSE IF x = y THEN 0 ELSE 1

\* Variant for comparison: the database is not asked.
HasItemInState(t, h) == <<t, h>> \in used

HasItem(t, h) == <<t, h>> \in used \cup records

\* The pledge GetStakeUser returns: the first of the address.
IsStakeOf(i, a) == /\ i \in DOMAIN pledges
                   /\ pledges[i].addr = a
                   /\ \A j \in 1..(i - 1) : pledges[j].addr # a

\* The item a scan of ConvertItems for an ID stops at.
IsFirstItem(i, id) == /\ i \in DOMAIN items
                      /\ items[i].id = id
                      /\ \A j \in 1..(i - 1) : items[j].id # id

RemoveItem(s, i) == [j \in 1..(Len(s) - 1) |-> IF j < i THEN s[j] ELSE s[j + 1]]

CheckToAddress(t, tx) == t \in PoolTypes => tx.to \in PoolAddr[t]

\* TransitionDb: a transaction of u, whose call reaches the precompile from u
\* itself or from a contract.
Tx(u) == /\ ~panicked
         /\ nonce[u] < MaxNonce
         /\ nonce' = [nonce EXCEPT ![u] = @ + 1]

Callers(u) == {u} \cup Contracts

-----------------------------------------------------------------------------
(* Staking *)

\* Variant for comparison: the address that takes the stake may be taken.
mortgageAnyTo(u, from, to, amount, cba, keyOk) ==
    /\ Tx(u)
    /\ amount >= mimStakingAmount
    /\ keyOk
    /\ \A i \in DOMAIN pledges : pledges[i].addr # from
    /\ Len(cba) <= MaxCoinBase
    /\ bal[from] >= amount
    /\ pledges' = Append(pledges, [addr |-> from, to |-> to, amount |-> amount, cba |-> cba])
    /\ bal' = Move(bal, from, to, amount)
    /\ UNCHANGED <<number, items, used, records, side, panicked, claims>>

mortgage(u, from, to, amount, cba, keyOk) ==
    /\ Tx(u)
    /\ amount >= mimStakingAmount
    /\ keyOk
    /\ ~(Cmp(to, MortgageToMin) < 0 /\ Cmp(to, MortgageToMax) > 1)
    /\ \A i \in DOMAIN pledges : pledges[i].addr # from
    /\ \A i \in DOMAIN pledges : pledges[i].to # to
    /\ Len(cba) <= MaxCoinBase
    /\ bal[from] >= amount
    /\ pledges' = Append(pledges, [addr |-> from, to |-> to, amount |-> amount, cba |-> cba])
    /\ bal' = Move(bal, from, to, amount)
    /\ UNCHANGED <<number, items, used, records, side, panicked, claims>>

\* Variants for comparison: the balance is not checked, and the transfer goes
\* the wrong way.
updateUnchecked(u, from, amount, cba) ==
    /\ Tx(u)
    /\ \E i \in DOMAIN pledges :
         /\ IsStakeOf(i, from)
         /\ amount > 0 => amount >= mimStakingAmount
         /\ bal' = Move(bal, from, pledges[i].to, amount)
         /\ pledges' = pledges
    /\ UNCHANGED <<number, items, used, records, side, panicked, claims>>

updateSwapped(u, from, amount, cba) ==
    /\ Tx(u)
    /\ \E i \in DOMAIN pledges :
         /\ IsStakeOf(i, from)
         /\ amount > 0 => amount >= mimStakingAmount /\ bal[pledges[i].to] >= amount
         /\ bal' = Move(bal, pledges[i].to, from, amount)
         /\ pledges' = pledges
    /\ UNCHANGED <<number, items, used, records, side, panicked, claims>>

\* The transfer stays when the list is too long: that branch returns err, which
\* is nil there.
update(u, from, amount, cba) ==
    /\ Tx(u)
    /\ \E i \in DOMAIN pledges :
         /\ IsStakeOf(i, from)
         /\ amount > 0 => amount >= mimStakingAmount /\ bal[from] >= amount
         /\ bal' = Move(bal, from, pledges[i].to, amount)
         /\ pledges' = IF Len(cba) > MaxCoinBase
                         THEN pledges
                         ELSE [pledges EXCEPT ![i] = [@ EXCEPT !.cba = cba]]
    /\ UNCHANGED <<number, items, used, records, side, panicked, claims>>

-----------------------------------------------------------------------------
(* The bridge.  CIP_4 closes its three methods. *)

BurnAmount(burn) == IF burn.amountOut = 0 THEN burn.amountIn ELSE burn.amountOut

\* verifyConvertEthereumTypeTx returns an item.  A signature that no key can be
\* recovered from leaves a transaction without a sender.
verifyConvert(t, h) ==
    LET r == receiptMap[h]
        tx == transactionMap[h]
    IN  /\ r # Nil
        /\ r.status = 1
        /\ r.burn # Nil
        /\ BurnAmount(r.burn) * Int10 <= bal[PoolOf(t)]
        /\ r.burn.convertType % 256 \in PoolTypes \cup {0}
        /\ t # r.burn.convertType % 256
        /\ tx # Nil
        /\ CheckToAddress(t, tx)
        /\ tx.sender # Nil

\* What convert credits: the sender of the burn, or the pool of another type.
ConvertCredit(ct, sender) == IF ct = 0 THEN sender ELSE CoinPools[ct]

ConvertItem(t, h) ==
    LET burn == receiptMap[h].burn
        amount == BurnAmount(burn)
        ct == burn.convertType % 256
    IN  [id |-> [asset |-> t, conv |-> ct, hash |-> h, amount |-> amount,
                 extra |-> Address0, nonce |-> 0],
         assetType |-> t, convertType |-> ct, pubKey |-> transactionMap[h].sender,
         amount |-> amount, fee |-> amount \div Int1000, extra |-> Address0]

convert(u, arg, h) ==
    LET t == arg % 256
        item == ConvertItem(t, h)
        Amount == item.amount * Int10
        FeeAmount == Amount \div Int1000
    IN  /\ Tx(u)
        /\ ~IsCIP4
        /\ ~HasItem(t, h)
        /\ verifyConvert(t, h)
        /\ bal' = Charge(bal, PoolOf(t), ConvertCredit(item.convertType, item.pubKey),
                         Amount, FeeAmount)
        /\ items' = IF item.convertType = 0 THEN items ELSE Append(items, item)
        /\ used' = used \cup {<<t, h>>}
        /\ claims' = Append(claims, [kind |-> "convert", item |-> <<t, h>>])
        /\ UNCHANGED <<number, pledges, records, side, panicked>>

\* Only ErrRpcErr is looked at, which is never returned: after any other
\* verification error convert goes on with a nil item and panics on item.Amount.
convertPanic(u, arg, h) ==
    /\ ~panicked
    /\ nonce[u] < MaxNonce
    /\ ~IsCIP4
    /\ ~HasItem(arg % 256, h)
    /\ ~verifyConvert(arg % 256, h)
    /\ panicked' = TRUE
    /\ UNCHANGED <<number, bal, nonce, tewaka, records, side, claims>>

\* verifyConfirmEthereumTypeTx accepts the item at i for receipt h.
verifyConfirm(i, t, h) ==
    LET r == receiptMap[h]
        item == items[i]
        net == item.amount - item.fee
    IN  /\ h # RefusedHash
        /\ r # Nil
        /\ r.status = 1
        /\ r.mint # Nil
        /\ IsFirstItem(i, r.mint.mid)
        /\ item.convertType = t
        /\ IsCIP2 => /\ item.pubKey # BadKey
                     /\ r.mint.to = IF item.pubKey = NoKey THEN item.extra ELSE item.pubKey
        /\ r.mint.amountIn = IF item.assetType = 0 THEN net \div Int10 ELSE net
        /\ transactionMap[h] # Nil
        /\ CheckToAddress(t, transactionMap[h])

confirm(u, arg, h) ==
    LET t == arg % 256
    IN  /\ Tx(u)
        /\ ~IsCIP4
        /\ ~HasItem(t, h)
        /\ \E i \in DOMAIN items :
             /\ verifyConfirm(i, t, h)
             /\ items' = RemoveItem(items, i)
        /\ used' = used \cup {<<t, h>>}
        /\ claims' = Append(claims, [kind |-> "confirm", item |-> <<t, h>>])
        /\ UNCHANGED <<number, bal, pledges, records, side, panicked>>

\* Variant for comparison: the ID is told apart by block, not by nonce.
CastItemByBlock(from, ct, amount, pubKey) ==
    LET extra == IF IsCIP2 THEN from ELSE Address0
    IN  [id |-> [asset |-> 0, conv |-> ct, hash |-> Nil, amount |-> amount,
                 extra |-> extra, nonce |-> IF IsCIP3 THEN number ELSE 0],
         assetType |-> 0, convertType |-> ct, pubKey |-> pubKey,
         amount |-> amount, fee |-> amount \div Int1000, extra |-> extra]

CastItem(from, ct, amount, pubKey) ==
    LET extra == IF IsCIP2 THEN from ELSE Address0
    IN  [id |-> [asset |-> 0, conv |-> ct, hash |-> Nil, amount |-> amount,
                 extra |-> extra, nonce |-> IF IsCIP3 THEN nonce'[from] ELSE 0],
         assetType |-> 0, convertType |-> ct, pubKey |-> pubKey,
         amount |-> amount, fee |-> amount \div Int1000, extra |-> extra]

\* Variant for comparison: the type argument is not cut to uint8.
castingUncut(u, from, arg, amount, pubKey) ==
    LET item == CastItem(from, arg, amount, pubKey)
    IN  /\ Tx(u)
        /\ ~IsCIP4
        /\ ~(IsCIP2 /\ pubKey = BadKey)
        /\ bal[from] >= amount
        /\ bal' = Charge(bal, from, PoolOf(arg), amount, item.fee)
        /\ items' = Append(items, item)
        /\ UNCHANGED <<number, pledges, used, records, side, panicked, claims>>

casting(u, from, arg, amount, pubKey) ==
    LET ct == arg % 256
        item == CastItem(from, ct, amount, pubKey)
    IN  /\ Tx(u)
        /\ ~IsCIP4
        /\ ~(IsCIP2 /\ pubKey = BadKey)
        /\ bal[from] >= amount
        /\ bal' = Charge(bal, from, PoolOf(ct), amount, item.fee)
        /\ items' = Append(items, item)
        /\ UNCHANGED <<number, pledges, used, records, side, panicked, claims>>

-----------------------------------------------------------------------------
(* Everything else a transaction does *)

\* A call of the precompile that returns an error: a guard above fails, the
\* input does not unpack, or the method is crossToMainChainMap or
\* betweenSideChainCrossMap, whose arguments never unpack into their
\* unexported fields.  evm.Call takes every effect back.
revertedCall(u) ==
    /\ Tx(u)
    /\ UNCHANGED <<number, bal, tewaka, records, side, panicked, claims>>

Transfer(u, to, v) ==
    /\ Tx(u)
    /\ bal[u] >= v
    /\ bal' = Move(bal, u, to, v)
    /\ UNCHANGED <<number, tewaka, records, side, panicked, claims>>

-----------------------------------------------------------------------------
(* The end of a block *)

\* accumulateRewards: the subsidy halves every SubsidyReductionInterval blocks.
Reward(n) == BlockReward \div (2 ^ (n \div SubsidyReductionInterval))

\* Variant for comparison: the sum leaves out the first pool.
PoolTotalFromTwo(b) == b[102] + b[103] + b[104] + b[105] + b[106] + b[107]

PoolTotal(b) == b[101] + b[102] + b[103] + b[104] + b[105] + b[106] + b[107]

SweepPools(b) ==
    LET emptied == [a \in Address |-> IF a \in Pools THEN 0 ELSE b[a]]
    IN  AddBalance(emptied, TeWakaSweep, PoolTotal(b))

\* Variant for comparison: the swept account keeps its coins.
SweepToHeirTwice(b) == AddBalance(b, TeWakaHeir, b[TeWakaSweep])

SweepToHeir(b) == Move(b, TeWakaSweep, TeWakaHeir, b[TeWakaSweep])

FinalBalances(coinbase) ==
    LET rewarded == AddBalance(bal, coinbase, Reward(number))
        swept == IF number = CIP_4 THEN SweepPools(rewarded) ELSE rewarded
    IN  IF number = CIP_5 THEN SweepToHeir(swept) ELSE swept

\* Variant for comparison: the used items are cleared and not dumped.
ShiftItemsLost ==
    /\ used' = IF number % DumpHeight = 0 THEN {} ELSE used
    /\ UNCHANGED records

ShiftItems ==
    IF number % DumpHeight = 0
      THEN /\ records' = records \cup used
           /\ used' = {}
      ELSE UNCHANGED <<used, records>>

Finalize(coinbase) ==
    /\ ~panicked
    /\ number < MaxNumber
    /\ number' = number + 1
    /\ bal' = FinalBalances(coinbase)
    /\ ShiftItems
    /\ UNCHANGED <<nonce, pledges, items, side, panicked, claims>>

-----------------------------------------------------------------------------

\* Genesis.ToBlock: every member of the committee locks what it pledges.
GenesisBal ==
    LET after[n \in 0..Len(Committee)] ==
          IF n = 0
            THEN Alloc
            ELSE Move(after[n - 1], Committee[n].addr, Committee[n].to, Committee[n].amount)
    IN  after[Len(Committee)]

Init ==
    /\ number = 1
    /\ bal = GenesisBal
    /\ nonce = [a \in Users \cup Contracts |-> IF a \in Contracts THEN 1 ELSE 0]
    /\ pledges = Committee
    /\ items = << >>
    /\ used = {}
    /\ records = {}
    /\ receiptMap \in ReceiptTables
    /\ transactionMap \in TransactionTables
    /\ panicked = FALSE
    /\ claims = << >>

Next ==
    \/ \E u \in Users :
         \/ \E from \in Callers(u), to \in ToAddresses, amount \in StakeAmounts,
              cba \in CoinBaseLists, keyOk \in BOOLEAN :
              mortgage(u, from, to, amount, cba, keyOk)
         \/ \E from \in Callers(u), amount \in StakeAmounts \cup {0}, cba \in CoinBaseLists :
              update(u, from, amount, cba)
         \/ \E arg \in TypeArgs, h \in TxHash : convert(u, arg, h)
         \/ \E arg \in TypeArgs, h \in TxHash : convertPanic(u, arg, h)
         \/ \E arg \in TypeArgs, h \in TxHash : confirm(u, arg, h)
         \/ \E from \in Callers(u), arg \in TypeArgs, amount \in CastAmounts, pubKey \in PubKeys :
              casting(u, from, arg, amount, pubKey)
         \/ revertedCall(u)
         \/ \E to \in ToAddresses, v \in SendAmounts : Transfer(u, to, v)
    \/ \E coinbase \in Coinbases : Finalize(coinbase)

Spec == Init /\ [][Next]_vars

-----------------------------------------------------------------------------
(* Assumptions on the constants *)

ASSUME AddressAssumption ==
    /\ Users \subseteq Nat /\ Contracts \subseteq Nat /\ Locks \subseteq MortgageToMin..MortgageToMax
    /\ \A a \in Users \cup Contracts : a > TeWakaHeir
    /\ Users \cap Contracts = {}
    /\ Coinbases \subseteq Address /\ ToAddresses \subseteq Address

ASSUME NumberAssumption ==
    /\ mimStakingAmount \in Nat /\ MaxCoinBase \in Nat /\ MaxNumber \in Nat
    /\ Int10 \in Nat \ {0} /\ Int1000 \in Nat \ {0} /\ DumpHeight \in Nat \ {0}
    /\ CIP_2 \in Nat /\ CIP_3 \in Nat /\ CIP_4 \in Nat /\ CIP_5 \in Nat /\ CIP_2 <= CIP_3
    /\ \A n \in 0..MaxNumber : Reward(n) \in Nat

ASSUME InputAssumption ==
    /\ StakeAmounts \subseteq Nat /\ CastAmounts \subseteq Nat /\ SendAmounts \subseteq Nat
    /\ TypeArgs \subseteq Nat
    /\ PubKeys \subseteq Users \cup {NoKey, BadKey}
    /\ CoinBaseLists \subseteq Seq(Address)
    /\ Nil \notin TxHash

ASSUME SideAssumption ==
    /\ \A f \in ReceiptTables, h \in TxHash :
         f[h] # Nil /\ f[h].burn # Nil =>
           /\ f[h].burn.amountIn \in Nat /\ f[h].burn.amountOut \in Nat
           /\ f[h].burn.convertType \in Nat
    /\ \A f \in TransactionTables, h \in TxHash :
         f[h] # Nil => f[h].sender \in Users \cup {Nil}

\* The genesis file is sound: pledges of distinct members to distinct
\* addresses, all of them covered by the allocation.
ASSUME GenesisAssumption ==
    /\ Committee \in Seq(Pledge)
    /\ \A i \in 1..Len(Committee) : GenesisBal[Committee[i].to] >= Committee[i].amount
    /\ \A i, j \in 1..Len(Committee) :
         i # j => Committee[i].addr # Committee[j].addr /\ Committee[i].to # Committee[j].to
    /\ GenesisBal \in [Address -> Int] /\ \A a \in Address : GenesisBal[a] >= 0

-----------------------------------------------------------------------------
(* Properties *)

\* The state keeps its types: a type argument is cut to uint8 before it is
\* stored, every item carries its ID and every account keeps an integer balance.
TypeOK ==
    /\ number \in Nat
    /\ bal \in [Address -> Int]
    /\ nonce \in [Users \cup Contracts -> Nat]
    /\ pledges \in Seq(Pledge)
    /\ items \in Seq(Item)
    /\ used \subseteq UsedItem
    /\ records \subseteq UsedItem
    /\ receiptMap \in ReceiptTables
    /\ transactionMap \in TransactionTables
    /\ panicked \in BOOLEAN
    /\ claims \in Seq([kind : {"convert", "confirm"}, item : UsedItem])

\* SubBalance checks nothing: that no account, pool or fee account ever goes
\* below zero rests on the guards of the six methods that debit one.
BalancesNonNegative == \A a \in Address : bal[a] >= 0

\* convert and confirm take a (type, side chain transaction) at most once in
\* the life of the chain, also after ShiftItems has moved the used items out
\* of the contract's state and into the database.
NoDoubleClaim ==
    \A i, j \in DOMAIN claims : claims[i].item = claims[j].item => i = j

\* A mint on a side chain settles at most one outstanding item, whatever type
\* confirm is called with.
MintSettlesOnce ==
    \A i, j \in DOMAIN claims :
      /\ claims[i].kind = "confirm" /\ claims[j].kind = "confirm"
      /\ claims[i].item[2] = claims[j].item[2]
      => i = j

\* No two pledges share their owner or the address that holds the stake:
\* GetStakeUser and Update, which stop at the first match, see them all.
PledgesDistinct ==
    \A i, j \in DOMAIN pledges :
      i # j => pledges[i].addr # pledges[j].addr /\ pledges[i].to # pledges[j].to

\* The stake that counts towards mining is there: a pledge held at an address
\* of the mortgage range is covered by that address's balance for good.
LockedStakeBacked ==
    \A i \in DOMAIN pledges :
      pledges[i].to \in Locks => bal[pledges[i].to] >= pledges[i].amount

\* Two outstanding items answer to the same ID only if both were cast before
\* CIP_3, or by a contract, whose nonce does not move from call to call: for
\* all others the scan of ConvertItems finds the item that was meant.
IDsDistinctSinceCIP3 ==
    \A i, j \in DOMAIN items :
      i # j /\ items[i].id = items[j].id =>
        /\ items[i].id.hash = Nil
        /\ items[i].id.nonce = 0 \/ items[i].id.extra \in Contracts

\* A call of the precompile comes back with a result or an error: no input makes
\* the node itself stop.
CallsReturn == ~panicked

\* Stake is only ever held by an address of the mortgage range.
PledgesInRange ==
    \A i \in DOMAIN pledges : pledges[i].to \in MortgageToMin..MortgageToMax

=============================================================================
