---------------------------- MODULE TeWakaProofs ----------------------------
(***************************************************************************)
(* The theorems about TeWaka, for any users, contracts, receipts, genesis  *)
(* allocation and bounds.                                                  *)
(*                                                                         *)
(* Type correctness and balances come first: they are proved by cases on   *)
(* who pays.  Each method compares the payer's balance with what it takes, *)
(* in the units it takes it in, and a fee is never more than the amount it *)
(* is split off.  The same pass shows that what lies in the mortgage range *)
(* never shrinks, which the proofs about pledges build on.                 *)
(***************************************************************************)
EXTENDS TeWaka, Provers

USE FirstOrder

\* A fee, the amount divided by Int1000, is between zero and the amount.
LEMMA FeeBound ==
  ASSUME NEW a \in Nat, NEW d \in Nat \ {0}
  PROVE  a \div d \in 0..a
BY Solver

\* SubBalance leaves every account an integer balance.
LEMMA SubType ==
  ASSUME NEW b \in [Address -> Int], NEW x \in Address, NEW v \in Int
  PROVE  SubBalance(b, x, v) \in [Address -> Int]
BY Solver DEF SubBalance

\* AddBalance leaves every account an integer balance.
LEMMA AddType ==
  ASSUME NEW b \in [Address -> Int], NEW x \in Address, NEW v \in Int
  PROVE  AddBalance(b, x, v) \in [Address -> Int]
BY Solver DEF AddBalance

\* So does the pair of them that mortgage, update and Transfer make.
LEMMA MoveType ==
  ASSUME NEW b \in [Address -> Int], NEW x \in Address, NEW y \in Address, NEW v \in Int
  PROVE  Move(b, x, y, v) \in [Address -> Int]
BY SubType, AddType DEF Move

\* TeWakaImpl.Confirm takes one element out of a list and closes the gap.
LEMMA RemoveItemType ==
  ASSUME NEW S, NEW s \in Seq(S), NEW i \in 1..Len(s)
  PROVE  /\ RemoveItem(s, i) \in Seq(S)
         /\ Len(RemoveItem(s, i)) = Len(s) - 1
         /\ \A j \in 1..(Len(s) - 1) : RemoveItem(s, i)[j] = IF j < i THEN s[j] ELSE s[j + 1]
<1>1. /\ Len(s) - 1 \in Nat
      /\ RemoveItem(s, i) \in [1..(Len(s) - 1) -> S]
  BY Solver DEF RemoveItem
<1>2. RemoveItem(s, i) \in Seq(S)
  BY Solver, <1>1
<1>3. QED
  BY Solver, <1>1, <1>2 DEF RemoveItem
-----------------------------------------------------------------------------

\* The accounts that the methods touch exist, and no caller, pool or swept
\* account lies in the mortgage range.
LEMMA AddressFacts ==
  /\ Users \subseteq Address /\ Contracts \subseteq Address /\ Address \subseteq Nat
  /\ Address0 \in Address /\ TeWakaSweep \in Address /\ TeWakaHeir \in Address
  /\ Pools \subseteq Address
  /\ \A t \in Uint8 : PoolOf(t) \in Address /\ PoolOf(t) \notin Locks
  /\ \A u \in Users : \A from \in Callers(u) :
       from \in Users \cup Contracts /\ from \in Address /\ from \notin Locks
  /\ TeWakaSweep \notin Locks /\ Pools \cap Locks = {}
BY Solver, AddressAssumption
   DEF Address, Address0, TeWakaSweep, TeWakaHeir, Pools, PoolOf, CoinPools, PoolTypes, Uint8,
       Callers, MortgageToMin, MortgageToMax

\* What a burn that verifyConvert accepts gives convert to work with.
LEMMA ConvertFacts ==
  ASSUME TypeOK, NEW t \in Uint8, NEW h \in TxHash, verifyConvert(t, h)
  PROVE  LET item == ConvertItem(t, h)
             credit == ConvertCredit(item.convertType, item.pubKey)
         IN  /\ item \in Item
             /\ credit \in Address
             /\ item.amount * Int10 \in Nat
             /\ item.amount * Int10 <= bal[PoolOf(t)]
             /\ (item.amount * Int10) \div Int1000 \in 0..(item.amount * Int10)
<1> DEFINE burn == receiptMap[h].burn
           sender == transactionMap[h].sender
           amount == BurnAmount(burn)
           ct == burn.convertType % 256
           item == ConvertItem(t, h)
<1>1. burn.amountIn \in Nat /\ burn.amountOut \in Nat /\ burn.convertType \in Nat
  BY SideAssumption DEF TypeOK, verifyConvert
<1>2. sender \in Users
  BY Solver, SideAssumption DEF TypeOK, verifyConvert
<1>3. amount \in Nat
  BY <1>1 DEF BurnAmount
<1>4. ct \in PoolTypes \cup {0} /\ ct \in Uint8
  <2>1. ct \in PoolTypes \cup {0}
    BY DEF verifyConvert
  <2> HIDE DEF ct
  <2> QED BY Solver, <2>1 DEF PoolTypes, Uint8
<1>5. amount \div Int1000 \in Nat
  BY Solver, <1>3, FeeBound, NumberAssumption
<1>6. amount * Int10 \in Nat
  BY Solver, <1>3, NumberAssumption
<1>7. (amount * Int10) \div Int1000 \in 0..(amount * Int10)
  <2> HIDE DEF amount
  <2> QED BY <1>6, FeeBound, NumberAssumption
<1>8. amount * Int10 <= bal[PoolOf(t)]
  BY DEF verifyConvert
<1>9. /\ item.amount = amount /\ item.convertType = ct /\ item.pubKey = sender
      /\ item \in Item
  <2>1. [asset |-> t, conv |-> ct, hash |-> h, amount |-> amount,
         extra |-> Address0, nonce |-> 0] \in ID
    BY Solver, <1>3, <1>4, AddressFacts DEF ID
  <2> QED
    BY Solver, <1>2, <1>3, <1>4, <1>5, <2>1, AddressFacts DEF ConvertItem, Item
<1>10. ConvertCredit(ct, sender) \in Address
  <2> HIDE DEF ct, sender
  <2> QED BY Solver, <1>2, <1>4, AddressFacts DEF ConvertCredit, CoinPools, PoolTypes, Pools
<1> QED
  BY <1>6, <1>7, <1>8, <1>9, <1>10

\* What casting stores is an item: its type is cut to uint8 and its fee no more
\* than its amount.
LEMMA CastFacts ==
  ASSUME TypeOK, NEW u \in Users, Tx(u), NEW from \in Callers(u), NEW ct \in Uint8,
         NEW amount \in Nat, NEW pubKey \in PubKeys
  PROVE  LET item == CastItem(from, ct, amount, pubKey)
         IN  /\ item \in Item
             /\ item.fee \in 0..amount
             /\ item.id.hash = Nil
             /\ nonce' \in [Users \cup Contracts -> Nat]
<1>1. nonce' \in [Users \cup Contracts -> Nat]
  BY Solver DEF Tx, TypeOK
<1>2. amount \div Int1000 \in 0..amount
  BY FeeBound, NumberAssumption
<1>3. from \in Users \cup Contracts /\ from \in Address
  BY AddressFacts
<1>4. nonce'[from] \in Nat
  BY <1>1, <1>3
<1> DEFINE extra == IF IsCIP2 THEN from ELSE Address0
           n == IF IsCIP3 THEN nonce'[from] ELSE 0
           id == [asset |-> 0, conv |-> ct, hash |-> Nil, amount |-> amount,
                  extra |-> extra, nonce |-> n]
<1>5. extra \in Address /\ n \in Nat
  BY <1>3, <1>4, AddressFacts
<1>6. id \in ID
  BY Solver, <1>5 DEF ID, Uint8
<1> QED
  BY Solver, <1>1, <1>2, <1>5, <1>6, InputAssumption DEF CastItem, Item, Uint8

\* The bridge's transfer with a fee leaves every account an integer balance.
LEMMA ChargeType ==
  ASSUME NEW b \in [Address -> Int], NEW x \in Address, NEW y \in Address,
         NEW v \in Int, NEW fee \in Int
  PROVE  Charge(b, x, y, v, fee) \in [Address -> Int]
<1>1. SubBalance(b, x, v) \in [Address -> Int]
  BY SubType
<1>2. AddBalance(SubBalance(b, x, v), y, v - fee) \in [Address -> Int]
  <2>1. v - fee \in Int
    BY Solver
  <2> QED BY <1>1, <2>1, AddType
<1> QED
  BY <1>2, AddType, AddressFacts DEF Charge

\* So do the CIP_4 and the CIP_5 sweep of Finalize.
LEMMA SweepTypes ==
  ASSUME NEW b \in [Address -> Int]
  PROVE  /\ SweepPools(b) \in [Address -> Int]
         /\ SweepToHeir(b) \in [Address -> Int]
<1>1. PoolTotal(b) \in Int
  <2>1. \A p \in Pools : b[p] \in Int
    BY AddressFacts
  <2> QED BY Solver, <2>1 DEF PoolTotal, Pools
<1>2. SweepPools(b) \in [Address -> Int]
  <2> DEFINE emptied == [a \in Address |-> IF a \in Pools THEN 0 ELSE b[a]]
  <2>1. emptied \in [Address -> Int]
    BY Solver
  <2> HIDE DEF emptied
  <2>2. AddBalance(emptied, TeWakaSweep, PoolTotal(b)) \in [Address -> Int]
    BY <1>1, <2>1, AddType, AddressFacts
  <2> QED
    BY <2>2 DEF SweepPools, emptied
<1>3. SweepToHeir(b) \in [Address -> Int]
  BY MoveType, AddressFacts DEF SweepToHeir
<1> QED
  BY <1>2, <1>3

\* And so does the end of a block as a whole, the reward included.
LEMMA FinalTypes ==
  ASSUME TypeOK, NEW coinbase \in Coinbases, number < MaxNumber
  PROVE  FinalBalances(coinbase) \in [Address -> Int]
<1> DEFINE rewarded == AddBalance(bal, coinbase, Reward(number))
<1>1. Reward(number) \in Nat
  BY Solver, NumberAssumption DEF TypeOK
<1>2. rewarded \in [Address -> Int]
  BY Solver, <1>1, AddType, AddressAssumption DEF TypeOK
<1>3. SweepPools(rewarded) \in [Address -> Int]
  BY <1>2, SweepTypes
<1> QED
  BY <1>2, <1>3, SweepTypes DEF FinalBalances

-----------------------------------------------------------------------------

\* The genesis state has the types of TypeOK.
LEMMA TypeInit == Init => TypeOK
<1>1. SUFFICES ASSUME Init PROVE TypeOK
  OBVIOUS
<1>2. nonce \in [Users \cup Contracts -> Nat]
  <2>1. nonce = [a \in Users \cup Contracts |-> IF a \in Contracts THEN 1 ELSE 0]
    BY <1>1 DEF Init
  <2> QED BY <2>1
<1>3. bal \in [Address -> Int] /\ pledges \in Seq(Pledge)
  BY <1>1, GenesisAssumption DEF Init
<1>4. /\ number \in Nat /\ items \in Seq(Item)
      /\ used \subseteq UsedItem /\ records \subseteq UsedItem
      /\ receiptMap \in ReceiptTables /\ transactionMap \in TransactionTables
  BY Solver, <1>1 DEF Init
<1>6. panicked \in BOOLEAN
  BY <1>1 DEF Init
<1>5. claims \in Seq([kind : {"convert", "confirm"}, item : UsedItem])
  BY Solver, <1>1 DEF Init
<1> QED
  BY <1>2, <1>3, <1>4, <1>5, <1>6 DEF TypeOK

\* Every call and every Finalize keeps TypeOK, one step per action.
LEMMA TypeNext == TypeOK /\ [Next]_vars => TypeOK'
<1> SUFFICES ASSUME TypeOK, [Next]_vars PROVE TypeOK'
  OBVIOUS
<1>0. bal \in [Address -> Int]
  BY DEF TypeOK
<1>1. ASSUME NEW u \in Users, Tx(u) PROVE nonce' \in [Users \cup Contracts -> Nat]
  BY Solver, <1>1 DEF Tx, TypeOK
<1>2. ASSUME NEW u \in Users, NEW from \in Callers(u), NEW to \in ToAddresses,
             NEW amount \in StakeAmounts, NEW cba \in CoinBaseLists, NEW keyOk \in BOOLEAN,
             mortgage(u, from, to, amount, cba, keyOk)
      PROVE  TypeOK'
  <2>1. from \in Address /\ to \in Address /\ amount \in Nat /\ cba \in Seq(Address)
    BY AddressFacts, AddressAssumption, InputAssumption
  <2>2. bal' \in [Address -> Int]
    <3>1. bal' = Move(bal, from, to, amount)
      BY <1>2 DEF mortgage
    <3> QED BY Solver, <1>0, <2>1, <3>1, MoveType
  <2>3. pledges' \in Seq(Pledge)
    BY Solver, <1>2, <2>1 DEF mortgage, TypeOK, Pledge
  <2> QED
    BY <1>1, <1>2, <2>2, <2>3 DEF mortgage, TypeOK, side
<1>3. ASSUME NEW u \in Users, NEW from \in Callers(u), NEW amount \in Nat,
             NEW cba \in CoinBaseLists, update(u, from, amount, cba)
      PROVE  TypeOK'
  <2>1. from \in Address /\ amount \in Nat /\ cba \in Seq(Address)
    BY AddressFacts, InputAssumption
  <2>2. PICK i \in DOMAIN pledges :
          /\ bal' = Move(bal, from, pledges[i].to, amount)
          /\ pledges' = IF Len(cba) > MaxCoinBase
                          THEN pledges
                          ELSE [pledges EXCEPT ![i] = [@ EXCEPT !.cba = cba]]
    BY <1>3 DEF update
  <2>3. pledges[i] \in Pledge /\ i \in 1..Len(pledges)
    BY Solver DEF TypeOK
  <2>4. bal' \in [Address -> Int]
    <3>1. pledges[i].to \in Address
      BY <2>3 DEF Pledge
    <3>2. Move(bal, from, pledges[i].to, amount) \in [Address -> Int]
      <4>1. amount \in Int
        BY Solver, <2>1
      <4> QED BY <1>0, <2>1, <3>1, <4>1, MoveType
    <3> QED BY <2>2, <3>2
  <2>5. [pledges[i] EXCEPT !.cba = cba] \in Pledge
    BY <2>1, <2>3 DEF Pledge
  <2>6. pledges' \in Seq(Pledge)
    BY Solver, <2>2, <2>3, <2>5 DEF TypeOK
  <2> QED
    BY <1>1, <1>3, <2>4, <2>6 DEF update, TypeOK, side
<1>4. ASSUME NEW u \in Users, NEW arg \in TypeArgs, NEW h \in TxHash, convert(u, arg, h)
      PROVE  TypeOK'
  <2> DEFINE t == arg % 256
             item == ConvertItem(t, h)
             Amount == item.amount * Int10
             FeeAmount == Amount \div Int1000
             credit == ConvertCredit(item.convertType, item.pubKey)
  <2>1. t \in Uint8
    BY Solver, InputAssumption DEF Uint8
  <2>2. /\ item \in Item /\ credit \in Address /\ PoolOf(t) \in Address
        /\ Amount \in Int /\ FeeAmount \in Int
    <3>1. verifyConvert(t, h)
      BY <1>4 DEF convert
    <3> HIDE DEF t
    <3> QED BY Solver, <2>1, <3>1, ConvertFacts, AddressFacts
  <2>3. bal' = Charge(bal, PoolOf(t), credit, Amount, FeeAmount)
    BY <1>4 DEF convert
  <2>4. /\ items' = IF item.convertType = 0 THEN items ELSE Append(items, item)
        /\ used' = used \cup {<<t, h>>}
        /\ claims' = Append(claims, [kind |-> "convert", item |-> <<t, h>>])
    BY <1>4 DEF convert
  <2> HIDE DEF t, item, Amount, FeeAmount, credit
  <2>5. bal' \in [Address -> Int]
    BY <2>2, <2>3, ChargeType DEF TypeOK
  <2>6. items' \in Seq(Item) /\ used' \subseteq UsedItem
    BY Solver, <2>1, <2>2, <2>4 DEF TypeOK, UsedItem
  <2>7. claims' \in Seq([kind : {"convert", "confirm"}, item : UsedItem])
    <3>1. PICK S : S = [kind : {"convert", "confirm"}, item : UsedItem]
      OBVIOUS
    <3>2. <<t, h>> \in UsedItem
      BY Solver, <2>1 DEF UsedItem
    <3>3. PICK c \in S : c = [kind |-> "convert", item |-> <<t, h>>]
      BY <3>1, <3>2
    <3>4. claims \in Seq(S) /\ claims' = Append(claims, c)
      BY <2>4, <3>1, <3>3 DEF TypeOK
    <3>5. Append(claims, c) \in Seq(S)
      BY Solver, <3>4
    <3> QED BY <3>1, <3>4, <3>5
  <2>8. Tx(u) /\ UNCHANGED <<number, pledges, records, side, panicked>>
    BY <1>4 DEF convert
  <2> QED
    BY <1>1, <2>5, <2>6, <2>7, <2>8 DEF TypeOK, side
<1>5. ASSUME NEW u \in Users, NEW arg \in TypeArgs, NEW h \in TxHash, convertPanic(u, arg, h)
      PROVE  TypeOK'
  BY <1>5 DEF convertPanic, TypeOK, tewaka, side
<1>6. ASSUME NEW u \in Users, NEW arg \in TypeArgs, NEW h \in TxHash, confirm(u, arg, h)
      PROVE  TypeOK'
  <2> DEFINE t == arg % 256
  <2>1. t \in Uint8
    BY Solver, InputAssumption DEF Uint8
  <2>2. PICK i \in DOMAIN items : items' = RemoveItem(items, i)
    BY <1>6 DEF confirm
  <2>3. /\ used' = used \cup {<<t, h>>}
        /\ claims' = Append(claims, [kind |-> "confirm", item |-> <<t, h>>])
    BY <1>6 DEF confirm
  <2> HIDE DEF t
  <2>4. items' \in Seq(Item)
    <3>1. items \in Seq(Item)
      BY DEF TypeOK
    <3>2. i \in 1..Len(items)
      BY Solver, <3>1
    <3> QED BY <2>2, <3>1, <3>2, RemoveItemType
  <2>5. used' \subseteq UsedItem
    BY Solver, <2>1, <2>3 DEF TypeOK, UsedItem
  <2>6. claims' \in Seq([kind : {"convert", "confirm"}, item : UsedItem])
    <3>1. PICK S : S = [kind : {"convert", "confirm"}, item : UsedItem]
      OBVIOUS
    <3>2. <<t, h>> \in UsedItem
      BY Solver, <2>1 DEF UsedItem
    <3>3. PICK c \in S : c = [kind |-> "confirm", item |-> <<t, h>>]
      BY <3>1, <3>2
    <3>4. claims \in Seq(S) /\ claims' = Append(claims, c)
      BY <2>3, <3>1, <3>3 DEF TypeOK
    <3>5. Append(claims, c) \in Seq(S)
      BY Solver, <3>4
    <3> QED BY <3>1, <3>4, <3>5
  <2>7. Tx(u) /\ UNCHANGED <<number, bal, pledges, records, side, panicked>>
    BY <1>6 DEF confirm
  <2> QED
    BY <1>1, <2>4, <2>5, <2>6, <2>7 DEF TypeOK, side
<1>7. ASSUME NEW u \in Users, NEW from \in Callers(u), NEW arg \in TypeArgs,
             NEW amount \in CastAmounts, NEW pubKey \in PubKeys,
             casting(u, from, arg, amount, pubKey)
      PROVE  TypeOK'
  <2> DEFINE ct == arg % 256
             item == CastItem(from, ct, amount, pubKey)
  <2>1. ct \in Uint8 /\ amount \in Nat
    BY Solver, InputAssumption DEF Uint8
  <2>2. /\ Tx(u) /\ items' = Append(items, item)
        /\ bal' = Charge(bal, from, PoolOf(ct), amount, item.fee)
    BY <1>7 DEF casting
  <2> HIDE DEF ct
  <2>3. item \in Item /\ item.fee \in 0..amount
    BY <2>1, <2>2, CastFacts
  <2> HIDE DEF item
  <2>4. bal' \in [Address -> Int]
    <3>1. from \in Address /\ PoolOf(ct) \in Address /\ amount \in Int /\ item.fee \in Int
      BY Solver, <2>1, <2>3, AddressFacts
    <3>2. Charge(bal, from, PoolOf(ct), amount, item.fee) \in [Address -> Int]
      BY <1>0, <3>1, ChargeType
    <3> QED BY <2>2, <3>2
  <2>5. items' \in Seq(Item)
    BY Solver, <2>2, <2>3 DEF TypeOK
  <2>6. Tx(u) /\ UNCHANGED <<number, pledges, used, records, side, panicked, claims>>
    BY <1>7 DEF casting
  <2> QED
    BY <1>1, <2>4, <2>5, <2>6 DEF TypeOK, side
<1>8. ASSUME NEW u \in Users, revertedCall(u) PROVE TypeOK'
  BY <1>1, <1>8 DEF revertedCall, TypeOK, tewaka, side
<1>9. ASSUME NEW u \in Users, NEW to \in ToAddresses, NEW v \in SendAmounts, Transfer(u, to, v)
      PROVE  TypeOK'
  <2>1. bal' \in [Address -> Int]
    <3>1. bal' = Move(bal, u, to, v)
      BY <1>9 DEF Transfer
    <3>2. u \in Address /\ to \in Address /\ v \in Int
      BY Solver, AddressFacts, AddressAssumption, InputAssumption
    <3> QED BY <1>0, <3>1, <3>2, MoveType
  <2> QED
    BY <1>1, <1>9, <2>1 DEF Transfer, TypeOK, tewaka, side
<1>10. ASSUME NEW coinbase \in Coinbases, Finalize(coinbase) PROVE TypeOK'
  <2>1. bal' \in [Address -> Int]
    <3>1. bal' = FinalBalances(coinbase) /\ number < MaxNumber
      BY <1>10 DEF Finalize
    <3> QED BY <3>1, FinalTypes
  <2>2. used' \subseteq UsedItem /\ records' \subseteq UsedItem
    BY <1>10 DEF Finalize, ShiftItems, TypeOK
  <2> QED
    BY Solver, <1>10, <2>1, <2>2 DEF Finalize, TypeOK, side
<1>11. CASE UNCHANGED vars
  BY <1>11 DEF vars, tewaka, side, TypeOK
<1>12. StakeAmounts \cup {0} \subseteq Nat
  BY Solver, InputAssumption
<1> QED
  BY <1>2, <1>3, <1>4, <1>5, <1>6, <1>7, <1>8, <1>9, <1>10, <1>11, <1>12 DEF Next

\* The types of the contract's state, for any accounts, receipts and bounds: no
\* method stores a type wider than uint8, an item without its ID or a claim of
\* something that is no side chain transaction.
THEOREM TypeCorrect == Spec => []TypeOK
BY TypeInit, TypeNext, Temporal DEF Spec

-----------------------------------------------------------------------------
(* Balances *)

NonNegative(b) == \A a \in Address : b[a] >= 0

\* What a transfer leaves on an account, the sender's and the receiver's own
\* included, and where they are the same.
LEMMA MoveAt ==
  ASSUME NEW b \in [Address -> Int], NEW x \in Address, NEW y \in Address, NEW v \in Int,
         NEW a \in Address
  PROVE  Move(b, x, y, v)[a]
           = b[a] - (IF a = x THEN v ELSE 0) + (IF a = y THEN v ELSE 0)
BY Solver DEF Move, AddBalance, SubBalance

\* The same for the bridge's transfer, which splits off a fee.
LEMMA ChargeAt ==
  ASSUME NEW b \in [Address -> Int], NEW x \in Address, NEW y \in Address, NEW v \in Int,
         NEW fee \in Int, NEW a \in Address
  PROVE  Charge(b, x, y, v, fee)[a]
           = b[a] - (IF a = x THEN v ELSE 0) + (IF a = y THEN v - fee ELSE 0)
               + (IF a = Address0 THEN fee ELSE 0)
BY Solver, AddressFacts DEF Charge, AddBalance, SubBalance

\* A transfer of no more than the sender has leaves nobody in debt.
LEMMA MoveNonNegative ==
  ASSUME NEW b \in [Address -> Int], NEW x \in Address, NEW y \in Address, NEW v \in Nat,
         NonNegative(b), b[x] >= v
  PROVE  NonNegative(Move(b, x, y, v))
<1> SUFFICES ASSUME NEW a \in Address PROVE Move(b, x, y, v)[a] >= 0
  BY DEF NonNegative
<1>1. Move(b, x, y, v)[a] = b[a] - (IF a = x THEN v ELSE 0) + (IF a = y THEN v ELSE 0)
  BY Solver, MoveAt
<1>2. b[a] \in Int /\ b[a] >= 0 /\ (a = x => b[a] >= v)
  BY DEF NonNegative
<1> QED
  BY Solver, <1>1, <1>2

\* Nor does the bridge's, whose fee is a part of the amount.
LEMMA ChargeNonNegative ==
  ASSUME NEW b \in [Address -> Int], NEW x \in Address, NEW y \in Address, NEW v \in Nat,
         NEW fee \in 0..v, NonNegative(b), b[x] >= v
  PROVE  NonNegative(Charge(b, x, y, v, fee))
<1> SUFFICES ASSUME NEW a \in Address PROVE Charge(b, x, y, v, fee)[a] >= 0
  BY DEF NonNegative
<1>1. fee \in Int /\ fee >= 0 /\ v - fee >= 0
  BY Solver
<1>2. Charge(b, x, y, v, fee)[a]
        = b[a] - (IF a = x THEN v ELSE 0) + (IF a = y THEN v - fee ELSE 0)
            + (IF a = Address0 THEN fee ELSE 0)
  BY Solver, <1>1, ChargeAt
<1>3. b[a] \in Int /\ b[a] >= 0 /\ (a = x => b[a] >= v)
  BY DEF NonNegative
<1> QED
  BY Solver, <1>1, <1>2, <1>3

\* The reward and the two sweeps leave nobody in debt, and take nothing from an
\* address of the mortgage range.
LEMMA FinalNonNegative ==
  ASSUME TypeOK, NEW coinbase \in Coinbases, number < MaxNumber, NonNegative(bal)
  PROVE  /\ NonNegative(FinalBalances(coinbase))
         /\ \A l \in Locks : FinalBalances(coinbase)[l] >= bal[l]
<1> DEFINE r == Reward(number)
           b1 == AddBalance(bal, coinbase, r)
           b2 == SweepPools(b1)
           b3 == IF number = CIP_4 THEN b2 ELSE b1
           b4 == SweepToHeir(b3)
<1>1. r \in Nat /\ coinbase \in Address /\ bal \in [Address -> Int] /\ Locks \subseteq Address
  BY Solver, NumberAssumption, AddressAssumption DEF TypeOK, Address
<1> HIDE DEF r
<1>2. b1 \in [Address -> Int] /\ \A a \in Address : b1[a] >= bal[a]
  BY Solver, <1>1 DEF AddBalance
<1>3. NonNegative(b1)
  BY Solver, <1>1, <1>2 DEF NonNegative
<1> HIDE DEF b1
<1>4. PoolTotal(b1) \in Int /\ PoolTotal(b1) >= 0
  <2>1. \A p \in Pools : b1[p] \in Int /\ b1[p] >= 0
    BY <1>2, <1>3, AddressFacts DEF NonNegative
  <2> QED BY Solver, <2>1 DEF PoolTotal, Pools
<1>5. /\ b2 \in [Address -> Int]
      /\ \A a \in Address : b2[a] >= 0 /\ (a \notin Pools => b2[a] >= b1[a])
  <2>1. b2 \in [Address -> Int]
    BY <1>2, SweepTypes
  <2>2. \A a \in Address :
          b2[a] = (IF a \in Pools THEN 0 ELSE b1[a])
                    + (IF a = TeWakaSweep THEN PoolTotal(b1) ELSE 0)
    <3> HIDE DEF b1
    <3> QED BY Solver, <1>2, <1>4, AddressFacts DEF SweepPools, AddBalance
  <2> HIDE DEF b2
  <2> QED BY Solver, <1>2, <1>3, <1>4, <2>1, <2>2 DEF NonNegative
<1> HIDE DEF b2
<1>6. /\ b3 \in [Address -> Int] /\ NonNegative(b3)
      /\ \A l \in Locks : b3[l] >= bal[l]
  BY Solver, <1>1, <1>2, <1>3, <1>5, AddressFacts DEF NonNegative
<1> HIDE DEF b3
<1>7. b3[TeWakaSweep] \in Nat
  BY Solver, <1>6, AddressFacts DEF NonNegative
<1>8. NonNegative(b4)
  BY Solver, <1>6, <1>7, MoveNonNegative, AddressFacts DEF SweepToHeir
<1>9. \A l \in Locks : b4[l] >= b3[l]
  <2> SUFFICES ASSUME NEW l \in Locks PROVE b4[l] >= b3[l]
    OBVIOUS
  <2>1. l \in Address /\ l # TeWakaSweep /\ b3[l] \in Int
    BY <1>1, <1>6, AddressFacts
  <2>2. b4[l] = b3[l] - (IF l = TeWakaSweep THEN b3[TeWakaSweep] ELSE 0)
                  + (IF l = TeWakaHeir THEN b3[TeWakaSweep] ELSE 0)
    BY Solver, <1>6, <1>7, <2>1, MoveAt, AddressFacts DEF SweepToHeir
  <2> HIDE DEF b4
  <2> QED BY Solver, <1>7, <2>1, <2>2
<1>10. b4 \in [Address -> Int]
  BY <1>6, SweepTypes
<1>11. FinalBalances(coinbase) = IF number = CIP_5 THEN b4 ELSE b3
  BY DEF FinalBalances, b3, b2, b1, r
<1> HIDE DEF b4
<1> QED
  BY Solver, <1>1, <1>6, <1>8, <1>9, <1>10, <1>11

\* A transfer by an account outside the mortgage range takes nothing from it.
LEMMA MoveKeepsLocks ==
  ASSUME NEW b \in [Address -> Int], NEW x \in Address, NEW y \in Address, NEW v \in Nat,
         x \notin Locks
  PROVE  \A l \in Locks : Move(b, x, y, v)[l] >= b[l]
<1> SUFFICES ASSUME NEW l \in Locks PROVE Move(b, x, y, v)[l] >= b[l]
  OBVIOUS
<1>1. l \in Address /\ l # x /\ b[l] \in Int
  BY DEF Address
<1>2. Move(b, x, y, v)[l] = b[l] - (IF l = x THEN v ELSE 0) + (IF l = y THEN v ELSE 0)
  BY Solver, <1>1, MoveAt
<1> QED
  BY Solver, <1>1, <1>2

\* Nor does the bridge's transfer, whose payer is a pool or a caller.
LEMMA ChargeKeepsLocks ==
  ASSUME NEW b \in [Address -> Int], NEW x \in Address, NEW y \in Address, NEW v \in Nat,
         NEW fee \in 0..v, x \notin Locks
  PROVE  \A l \in Locks : Charge(b, x, y, v, fee)[l] >= b[l]
<1> SUFFICES ASSUME NEW l \in Locks PROVE Charge(b, x, y, v, fee)[l] >= b[l]
  OBVIOUS
<1>1. l \in Address /\ l # x /\ b[l] \in Int /\ fee \in Int /\ fee >= 0 /\ v - fee >= 0
  BY Solver DEF Address
<1>2. Charge(b, x, y, v, fee)[l]
        = b[l] - (IF l = x THEN v ELSE 0) + (IF l = y THEN v - fee ELSE 0)
            + (IF l = Address0 THEN fee ELSE 0)
  BY Solver, <1>1, ChargeAt
<1> QED
  BY Solver, <1>1, <1>2

\* Every step keeps all balances at zero or above, and only ever adds to an
\* address of the mortgage range.
LEMMA BalanceNext ==
  TypeOK /\ NonNegative(bal) /\ [Next]_vars
    => NonNegative(bal') /\ \A l \in Locks : bal'[l] >= bal[l]
<1> SUFFICES ASSUME TypeOK, NonNegative(bal), [Next]_vars
             PROVE  NonNegative(bal') /\ \A l \in Locks : bal'[l] >= bal[l]
  OBVIOUS
<1> DEFINE Goal == NonNegative(bal') /\ \A l \in Locks : bal'[l] >= bal[l]
<1>0. bal \in [Address -> Int] /\ Locks \subseteq Address
  BY DEF TypeOK, Address
<1>1. ASSUME NEW x \in Address, NEW y \in Address, NEW v \in Nat,
             x \notin Locks, bal[x] >= v, bal' = Move(bal, x, y, v)
      PROVE  Goal
  BY <1>0, <1>1, MoveNonNegative, MoveKeepsLocks
<1>2. ASSUME NEW x \in Address, NEW y \in Address, NEW v \in Nat, NEW fee \in 0..v,
             x \notin Locks, bal[x] >= v, bal' = Charge(bal, x, y, v, fee)
      PROVE  Goal
  BY <1>0, <1>2, ChargeNonNegative, ChargeKeepsLocks
<1>3. ASSUME bal' = bal PROVE Goal
  <2>1. \A l \in Locks : bal[l] \in Int
    BY <1>0
  <2> QED BY Solver, <1>3, <2>1
<1> HIDE DEF Goal
<1>4. ASSUME NEW u \in Users, NEW from \in Callers(u), NEW to \in ToAddresses,
             NEW amount \in StakeAmounts, NEW cba \in CoinBaseLists, NEW keyOk \in BOOLEAN,
             mortgage(u, from, to, amount, cba, keyOk)
      PROVE  Goal
  <2>1. from \in Address /\ from \notin Locks /\ to \in Address /\ amount \in Nat
    BY AddressFacts, AddressAssumption, InputAssumption
  <2>2. bal[from] >= amount /\ bal' = Move(bal, from, to, amount)
    BY <1>4 DEF mortgage
  <2> QED BY <1>1, <2>1, <2>2
<1>5. ASSUME NEW u \in Users, NEW from \in Callers(u), NEW amount \in Nat,
             NEW cba \in CoinBaseLists, update(u, from, amount, cba)
      PROVE  Goal
  <2>1. from \in Address /\ from \notin Locks
    BY AddressFacts
  <2>2. PICK i \in DOMAIN pledges :
          /\ amount > 0 => bal[from] >= amount
          /\ bal' = Move(bal, from, pledges[i].to, amount)
    BY <1>5 DEF update
  <2>3. pledges[i].to \in Address
    <3>1. pledges[i] \in Pledge
      BY Solver DEF TypeOK
    <3> QED BY <3>1 DEF Pledge
  <2>4. bal[from] >= amount
    BY Solver, <1>0, <2>1, <2>2 DEF NonNegative
  <2> QED BY <1>1, <2>1, <2>2, <2>3, <2>4
<1>6. ASSUME NEW u \in Users, NEW arg \in TypeArgs, NEW h \in TxHash, convert(u, arg, h)
      PROVE  Goal
  <2> DEFINE t == arg % 256
             item == ConvertItem(t, h)
             Amount == item.amount * Int10
             FeeAmount == Amount \div Int1000
             credit == ConvertCredit(item.convertType, item.pubKey)
  <2>1. t \in Uint8
    BY Solver, InputAssumption DEF Uint8
  <2>2. verifyConvert(t, h) /\ bal' = Charge(bal, PoolOf(t), credit, Amount, FeeAmount)
    BY <1>6 DEF convert
  <2> HIDE DEF t
  <2>3. /\ credit \in Address /\ PoolOf(t) \in Address /\ PoolOf(t) \notin Locks
        /\ Amount \in Nat /\ FeeAmount \in 0..Amount /\ bal[PoolOf(t)] >= Amount
    BY <1>0, <2>1, <2>2, ConvertFacts, AddressFacts
  <2> HIDE DEF item, Amount, FeeAmount, credit
  <2> QED BY <1>2, <2>2, <2>3
<1>7. ASSUME NEW u \in Users, NEW from \in Callers(u), NEW arg \in TypeArgs,
             NEW amount \in CastAmounts, NEW pubKey \in PubKeys,
             casting(u, from, arg, amount, pubKey)
      PROVE  Goal
  <2> DEFINE ct == arg % 256
             item == CastItem(from, ct, amount, pubKey)
  <2>1. ct \in Uint8 /\ amount \in Nat
    BY Solver, InputAssumption DEF Uint8
  <2>2. Tx(u) /\ bal[from] >= amount /\ bal' = Charge(bal, from, PoolOf(ct), amount, item.fee)
    BY <1>7 DEF casting
  <2> HIDE DEF ct
  <2>3. /\ from \in Address /\ from \notin Locks /\ PoolOf(ct) \in Address
        /\ item.fee \in 0..amount
    BY <2>1, <2>2, CastFacts, AddressFacts
  <2> HIDE DEF item
  <2> QED BY <1>2, <2>1, <2>2, <2>3
<1>8. ASSUME NEW u \in Users, NEW to \in ToAddresses, NEW v \in SendAmounts, Transfer(u, to, v)
      PROVE  Goal
  <2>1. u \in Address /\ u \notin Locks /\ to \in Address /\ v \in Nat
    BY AddressFacts, AddressAssumption, InputAssumption DEF Callers
  <2>2. bal[u] >= v /\ bal' = Move(bal, u, to, v)
    BY <1>8 DEF Transfer
  <2> QED BY <1>1, <2>1, <2>2
<1>9. ASSUME NEW coinbase \in Coinbases, Finalize(coinbase) PROVE Goal
  <2>1. number < MaxNumber /\ bal' = FinalBalances(coinbase)
    BY <1>9 DEF Finalize
  <2> QED BY <2>1, FinalNonNegative DEF Goal
<1>10. ASSUME NEW u \in Users, NEW arg \in TypeArgs, NEW h \in TxHash,
              convertPanic(u, arg, h) \/ confirm(u, arg, h)
       PROVE  Goal
  BY Solver, <1>3, <1>10 DEF convertPanic, confirm
<1>11. ASSUME NEW u \in Users, revertedCall(u) PROVE Goal
  BY <1>3, <1>11 DEF revertedCall
<1>12. ASSUME UNCHANGED vars PROVE Goal
  BY <1>3, <1>12 DEF vars
<1>13. StakeAmounts \cup {0} \subseteq Nat
  BY Solver, InputAssumption
<1>14. Goal
  BY <1>4, <1>5, <1>6, <1>7, <1>8, <1>9, <1>10, <1>11, <1>12, <1>13 DEF Next
<1> QED
  BY <1>14 DEF Goal

\* No account ever goes below zero: every debit is guarded, in each of the
\* methods that take one, by the balance it is made from.
THEOREM BalancesSafe == Spec => []BalancesNonNegative
<1>1. Init => NonNegative(bal)
  BY GenesisAssumption DEF Init, NonNegative
<1>2. TypeOK /\ NonNegative(bal) /\ [Next]_vars => NonNegative(bal)'
  BY BalanceNext DEF NonNegative
<1>3. NonNegative(bal) => BalancesNonNegative
  BY DEF NonNegative, BalancesNonNegative
<1> QED
  BY <1>1, <1>2, <1>3, TypeCorrect, Temporal DEF Spec

(***************************************************************************)
(* The pledges: each has its own owner and its own address, and those in   *)
(* the mortgage range stay covered by what lies at the address.            *)
(***************************************************************************)

\* What a step does to the pledges: nothing, a new coinbase list for one, or one
\* more whose owner and address no other has.
PledgesStep ==
  \/ pledges' = pledges
  \/ \E i \in DOMAIN pledges, cba \in Seq(Address) :
       pledges' = [pledges EXCEPT ![i] = [@ EXCEPT !.cba = cba]]
  \/ \E p \in Pledge :
       /\ pledges' = Append(pledges, p)
       /\ \A i \in DOMAIN pledges : pledges[i].addr # p.addr /\ pledges[i].to # p.to
       /\ p.to \in Locks => bal'[p.to] >= p.amount

\* Of all actions only mortgage and update touch the pledges, and only so.
LEMMA PledgesNext ==
  TypeOK /\ NonNegative(bal) /\ [Next]_vars => PledgesStep
<1> SUFFICES ASSUME TypeOK, NonNegative(bal), [Next]_vars PROVE PledgesStep
  OBVIOUS
<1>1. ASSUME NEW u \in Users, NEW from \in Callers(u), NEW to \in ToAddresses,
             NEW amount \in StakeAmounts, NEW cba \in CoinBaseLists, NEW keyOk \in BOOLEAN,
             mortgage(u, from, to, amount, cba, keyOk)
      PROVE  PledgesStep
  <2> DEFINE p == [addr |-> from, to |-> to, amount |-> amount, cba |-> cba]
  <2>1. from \in Address /\ from \notin Locks /\ to \in Address /\ amount \in Nat
        /\ cba \in Seq(Address)
    BY AddressFacts, AddressAssumption, InputAssumption
  <2>2. /\ pledges' = Append(pledges, p) /\ bal' = Move(bal, from, to, amount)
        /\ \A i \in DOMAIN pledges : pledges[i].addr # from /\ pledges[i].to # to
    BY <1>1 DEF mortgage
  <2>3. to \in Locks => bal'[to] >= amount
    <3> SUFFICES ASSUME to \in Locks PROVE bal'[to] >= amount
      OBVIOUS
    <3>1. bal \in [Address -> Int] /\ bal[to] \in Int /\ bal[to] >= 0
      BY <2>1 DEF TypeOK, NonNegative
    <3>2. bal'[to] = bal[to] - (IF to = from THEN amount ELSE 0)
                       + (IF to = to THEN amount ELSE 0)
      <4>1. Move(bal, from, to, amount)[to]
              = bal[to] - (IF to = from THEN amount ELSE 0) + (IF to = to THEN amount ELSE 0)
        BY Solver, <2>1, <3>1, MoveAt
      <4> QED BY <2>2, <4>1
    <3> QED BY Solver, <2>1, <3>1, <3>2
  <2>4. p \in Pledge
    BY <2>1 DEF Pledge
  <2> QED
    BY <2>2, <2>3, <2>4 DEF PledgesStep
<1>2. ASSUME NEW u \in Users, NEW from \in Callers(u), NEW amount \in Nat,
             NEW cba \in CoinBaseLists, update(u, from, amount, cba)
      PROVE  PledgesStep
  <2>1. cba \in Seq(Address)
    BY InputAssumption
  <2> QED
    BY <1>2, <2>1 DEF update, PledgesStep
<1>3. ASSUME NEW u \in Users, NEW arg \in TypeArgs, NEW h \in TxHash,
             convert(u, arg, h) \/ convertPanic(u, arg, h) \/ confirm(u, arg, h)
      PROVE  PledgesStep
  BY Solver, <1>3 DEF convert, convertPanic, confirm, tewaka, PledgesStep
<1>4. ASSUME NEW u \in Users, NEW from \in Callers(u), NEW arg \in TypeArgs,
             NEW amount \in CastAmounts, NEW pubKey \in PubKeys,
             casting(u, from, arg, amount, pubKey)
      PROVE  PledgesStep
  BY <1>4 DEF casting, PledgesStep
<1>5. ASSUME NEW u \in Users, revertedCall(u) PROVE PledgesStep
  BY <1>5 DEF revertedCall, tewaka, PledgesStep
<1>6. ASSUME NEW u \in Users, NEW to \in ToAddresses, NEW v \in SendAmounts, Transfer(u, to, v)
      PROVE  PledgesStep
  BY <1>6 DEF Transfer, tewaka, PledgesStep
<1>7. ASSUME NEW coinbase \in Coinbases, Finalize(coinbase) PROVE PledgesStep
  BY <1>7 DEF Finalize, PledgesStep
<1>8. ASSUME UNCHANGED vars PROVE PledgesStep
  BY <1>8 DEF vars, tewaka, PledgesStep
<1>9. StakeAmounts \cup {0} \subseteq Nat
  BY Solver, InputAssumption
<1> QED
  BY <1>1, <1>2, <1>3, <1>4, <1>5, <1>6, <1>7, <1>8, <1>9 DEF Next

\* No two pledges ever share an owner or a holding address: mortgage looks for
\* both in the list it appends to, and update never touches either.
THEOREM PledgesAreDistinct == Spec => []PledgesDistinct
<1>1. Init => PledgesDistinct
  <2> SUFFICES ASSUME Init PROVE PledgesDistinct
    OBVIOUS
  <2>1. pledges = Committee /\ DOMAIN Committee = 1..Len(Committee)
    BY Solver, GenesisAssumption DEF Init
  <2> QED BY Solver, <2>1, GenesisAssumption DEF PledgesDistinct
<1>2. TypeOK /\ PledgesDistinct /\ PledgesStep => PledgesDistinct'
  <2> SUFFICES ASSUME TypeOK, PledgesDistinct, PledgesStep PROVE PledgesDistinct'
    OBVIOUS
  <2>1. CASE pledges' = pledges
    BY Solver, <2>1 DEF PledgesDistinct
  <2>2. ASSUME NEW i \in DOMAIN pledges, NEW cba \in Seq(Address),
               pledges' = [pledges EXCEPT ![i] = [@ EXCEPT !.cba = cba]]
        PROVE  PledgesDistinct'
    <3>1. /\ DOMAIN pledges' = DOMAIN pledges
          /\ \A j \in DOMAIN pledges : /\ pledges'[j].addr = pledges[j].addr
                                       /\ pledges'[j].to = pledges[j].to
      <4>1. \A j \in DOMAIN pledges : pledges[j] \in Pledge
        BY Solver DEF TypeOK
      <4>2. pledges \in [DOMAIN pledges -> Pledge]
        BY Solver, <4>1 DEF TypeOK
      <4> QED BY <2>2, <4>1, <4>2 DEF Pledge
    <3> QED BY Solver, <3>1 DEF PledgesDistinct
  <2>3. ASSUME NEW p \in Pledge, pledges' = Append(pledges, p),
               \A i \in DOMAIN pledges : pledges[i].addr # p.addr /\ pledges[i].to # p.to
        PROVE  PledgesDistinct'
    <3>1. /\ DOMAIN pledges = 1..Len(pledges) /\ Len(pledges) \in Nat
          /\ DOMAIN pledges' = 1..(Len(pledges) + 1)
          /\ \A j \in 1..Len(pledges) : pledges'[j] = pledges[j]
          /\ pledges'[Len(pledges) + 1] = p
      BY Solver, <2>3 DEF TypeOK
    <3> QED BY Solver, <2>3, <3>1 DEF PledgesDistinct
  <2> QED
    BY <2>1, <2>2, <2>3 DEF PledgesStep
<1>3. Spec => []NonNegative(bal)
  <2>1. BalancesNonNegative => NonNegative(bal)
    BY DEF NonNegative, BalancesNonNegative
  <2> QED BY <2>1, BalancesSafe, Temporal
<1> QED
  BY <1>1, <1>2, <1>3, TypeCorrect, PledgesNext, Temporal DEF Spec

\* A pledge at an address of the mortgage range is covered for good: the pledge
\* arrives with its coins and no step takes any from such an address.
THEOREM LockedStakeIsBacked == Spec => []LockedStakeBacked
<1>1. Init => LockedStakeBacked
  <2> SUFFICES ASSUME Init PROVE LockedStakeBacked
    OBVIOUS
  <2>1. pledges = Committee /\ DOMAIN Committee = 1..Len(Committee) /\ bal = GenesisBal
    BY Solver, GenesisAssumption DEF Init
  <2> QED BY <2>1, GenesisAssumption DEF LockedStakeBacked
<1>2. ASSUME TypeOK, TypeOK', LockedStakeBacked, PledgesStep,
             \A l \in Locks : bal'[l] >= bal[l]
      PROVE  LockedStakeBacked'
  <2>1. /\ bal \in [Address -> Int] /\ bal' \in [Address -> Int] /\ Locks \subseteq Address
        /\ pledges \in Seq(Pledge) /\ \A i \in DOMAIN pledges : pledges[i] \in Pledge
    BY Solver, <1>2 DEF TypeOK, Address
  <2>2. ASSUME NEW i \in DOMAIN pledges, pledges[i].to \in Locks
        PROVE  bal'[pledges[i].to] >= pledges[i].amount
    <3>1. pledges[i].amount \in Int /\ bal[pledges[i].to] \in Int /\ bal'[pledges[i].to] \in Int
      <4>1. pledges[i] \in Pledge
        BY <2>1
      <4>2. pledges[i].amount \in Nat /\ pledges[i].to \in Address
        BY <4>1 DEF Pledge
      <4> QED BY Solver, <2>1, <4>2
    <3>2. /\ bal[pledges[i].to] >= pledges[i].amount
          /\ bal'[pledges[i].to] >= bal[pledges[i].to]
      BY <1>2, <2>2 DEF LockedStakeBacked
    <3> QED BY Solver, <3>1, <3>2
  <2>3. CASE pledges' = pledges
    BY <2>2, <2>3 DEF LockedStakeBacked
  <2>4. ASSUME NEW i \in DOMAIN pledges, NEW cba \in Seq(Address),
               pledges' = [pledges EXCEPT ![i] = [@ EXCEPT !.cba = cba]]
        PROVE  LockedStakeBacked'
    <3>1. /\ DOMAIN pledges' = DOMAIN pledges
          /\ \A j \in DOMAIN pledges : /\ pledges'[j].amount = pledges[j].amount
                                       /\ pledges'[j].to = pledges[j].to
      BY <2>1, <2>4 DEF Pledge
    <3> QED BY <2>2, <3>1 DEF LockedStakeBacked
  <2>5. ASSUME NEW p \in Pledge, pledges' = Append(pledges, p),
               p.to \in Locks => bal'[p.to] >= p.amount
        PROVE  LockedStakeBacked'
    <3>1. /\ DOMAIN pledges = 1..Len(pledges) /\ Len(pledges) \in Nat
          /\ DOMAIN pledges' = 1..(Len(pledges) + 1)
          /\ \A j \in 1..Len(pledges) : pledges'[j] = pledges[j]
          /\ pledges'[Len(pledges) + 1] = p
      BY Solver, <2>1, <2>5
    <3> QED BY Solver, <2>2, <2>5, <3>1 DEF LockedStakeBacked
  <2> QED
    BY <1>2, <2>3, <2>4, <2>5 DEF PledgesStep
<1>3. TypeOK /\ TypeOK' /\ NonNegative(bal) /\ LockedStakeBacked /\ [Next]_vars
        => LockedStakeBacked'
  BY <1>2, PledgesNext, BalanceNext
<1>4. Spec => []NonNegative(bal)
  <2>1. BalancesNonNegative => NonNegative(bal)
    BY DEF NonNegative, BalancesNonNegative
  <2> QED BY <2>1, BalancesSafe, Temporal
<1> QED
  BY <1>1, <1>3, <1>4, TypeCorrect, Temporal DEF Spec

(***************************************************************************)
(* The bridge: a side chain transaction is taken once, a mint settles one  *)
(* item, and since CIP_3 an ID names one item.                             *)
(*                                                                         *)
(* All three rest on what is remembered: the used items, wherever the last *)
(* dump has left them, and the nonces.  BridgeStep says what a step may do *)
(* to items and claims relative to that memory; the invariants are proved  *)
(* from it alone.                                                          *)
(***************************************************************************)

Remembered == used \cup records

\* No step forgets a used item, lowers a nonce or changes a receipt.
MemoryGrows ==
  /\ Remembered \subseteq Remembered'
  /\ \A a \in Users \cup Contracts : nonce'[a] >= nonce[a]
  /\ receiptMap' = receiptMap

NoClaim == items' = items /\ claims' = claims

Converts(t, h) ==
  /\ <<t, h>> \notin Remembered /\ <<t, h>> \in Remembered'
  /\ claims' = Append(claims, [kind |-> "convert", item |-> <<t, h>>])
  /\ \/ items' = items
     \/ \E item \in Item :
          /\ items' = Append(items, item)
          /\ item.id.asset = t /\ item.id.hash = h
          /\ item.id.conv = item.convertType

Confirms(i, t, h) ==
  /\ <<t, h>> \notin Remembered /\ <<t, h>> \in Remembered'
  /\ claims' = Append(claims, [kind |-> "confirm", item |-> <<t, h>>])
  /\ items' = RemoveItem(items, i)
  /\ items[i].id = receiptMap[h].mint.mid
  /\ items[i].convertType = t

Casts(item) ==
  /\ claims' = claims
  /\ items' = Append(items, item)
  /\ item.id.hash = Nil
  /\ item.id.conv = item.convertType
  /\ item.id.nonce # 0 =>
       /\ item.id.extra \in Users \cup Contracts
       /\ item.id.nonce <= nonce'[item.id.extra]
       /\ item.id.extra \in Users => item.id.nonce > nonce[item.id.extra]

BridgeStep ==
  \/ NoClaim
  \/ \E t \in Uint8, h \in TxHash : Converts(t, h)
  \/ \E i \in DOMAIN items, t \in Uint8, h \in TxHash : Confirms(i, t, h)
  \/ \E item \in Item : Casts(item)

-----------------------------------------------------------------------------

\* TransitionDb raises the sender's nonce and no other.
LEMMA TxNonce ==
  ASSUME TypeOK, NEW u \in Users, Tx(u)
  PROVE  /\ \A a \in Users \cup Contracts : nonce'[a] >= nonce[a]
         /\ nonce'[u] = nonce[u] + 1 /\ nonce[u] \in Nat
BY Solver DEF TypeOK, Tx

\* Every action keeps the memory: ShiftItems moves used items to the database
\* and drops none.
LEMMA MemoryNext == TypeOK /\ [Next]_vars => MemoryGrows
<1> SUFFICES ASSUME TypeOK, [Next]_vars PROVE MemoryGrows
  OBVIOUS
<1>1. ASSUME NEW u \in Users, Tx(u), used \subseteq used', records' = records,
             receiptMap' = receiptMap
      PROVE  MemoryGrows
  BY <1>1, TxNonce DEF MemoryGrows, Remembered
<1>2. ASSUME nonce' = nonce, used' \cup records' = used \cup records, receiptMap' = receiptMap
      PROVE  MemoryGrows
  <2>1. \A a \in Users \cup Contracts : nonce[a] \in Nat
    BY DEF TypeOK
  <2> QED BY Solver, <1>2, <2>1 DEF MemoryGrows, Remembered
<1>3. ASSUME NEW u \in Users, NEW from \in Callers(u), NEW to \in ToAddresses,
             NEW amount \in StakeAmounts, NEW cba \in CoinBaseLists, NEW keyOk \in BOOLEAN,
             mortgage(u, from, to, amount, cba, keyOk)
      PROVE  MemoryGrows
  BY <1>1, <1>3 DEF mortgage, side
<1>4. ASSUME NEW u \in Users, NEW from \in Callers(u), NEW amount,
             NEW cba \in CoinBaseLists, update(u, from, amount, cba)
      PROVE  MemoryGrows
  BY <1>1, <1>4 DEF update, side
<1>5. ASSUME NEW u \in Users, NEW arg \in TypeArgs, NEW h \in TxHash,
             convert(u, arg, h) \/ confirm(u, arg, h)
      PROVE  MemoryGrows
  BY Solver, <1>1, <1>5 DEF convert, confirm, side
<1>6. ASSUME NEW u \in Users, NEW arg \in TypeArgs, NEW h \in TxHash, convertPanic(u, arg, h)
      PROVE  MemoryGrows
  BY <1>2, <1>6 DEF convertPanic, side, tewaka
<1>7. ASSUME NEW u \in Users, NEW from \in Callers(u), NEW arg \in TypeArgs,
             NEW amount \in CastAmounts, NEW pubKey \in PubKeys,
             casting(u, from, arg, amount, pubKey)
      PROVE  MemoryGrows
  BY <1>1, <1>7 DEF casting, side
<1>8. ASSUME NEW u \in Users, revertedCall(u) PROVE MemoryGrows
  BY <1>1, <1>8 DEF revertedCall, side, tewaka
<1>9. ASSUME NEW u \in Users, NEW to \in ToAddresses, NEW v \in SendAmounts, Transfer(u, to, v)
      PROVE  MemoryGrows
  BY <1>1, <1>9 DEF Transfer, side, tewaka
<1>10. ASSUME NEW coinbase \in Coinbases, Finalize(coinbase) PROVE MemoryGrows
  BY <1>2, <1>10 DEF Finalize, ShiftItems, side
<1>11. ASSUME UNCHANGED vars PROVE MemoryGrows
  BY <1>2, <1>11 DEF vars, side, tewaka
<1> QED
  BY <1>3, <1>4, <1>5, <1>6, <1>7, <1>8, <1>9, <1>10, <1>11 DEF Next

\* Of all actions only convert, confirm and casting touch items and claims, and
\* only so.
LEMMA BridgeNext == TypeOK /\ [Next]_vars => BridgeStep
<1> SUFFICES ASSUME TypeOK, [Next]_vars PROVE BridgeStep
  OBVIOUS
<1>1. ASSUME NEW u \in Users, NEW arg \in TypeArgs, NEW h \in TxHash, convert(u, arg, h)
      PROVE  BridgeStep
  <2> DEFINE t == arg % 256
             item == ConvertItem(t, h)
  <2>1. t \in Uint8
    BY Solver, InputAssumption DEF Uint8
  <2>2. /\ verifyConvert(t, h)
        /\ <<t, h>> \notin used \cup records
        /\ items' = IF item.convertType = 0 THEN items ELSE Append(items, item)
        /\ used' = used \cup {<<t, h>>} /\ records' = records
        /\ claims' = Append(claims, [kind |-> "convert", item |-> <<t, h>>])
    BY <1>1 DEF convert, HasItem
  <2> HIDE DEF t
  <2>3. item \in Item
    BY <2>1, <2>2, ConvertFacts
  <2>4. item.id.asset = t /\ item.id.hash = h /\ item.id.conv = item.convertType
    BY DEF ConvertItem
  <2> HIDE DEF item
  <2>5. Converts(t, h)
    BY <2>2, <2>3, <2>4 DEF Converts, Remembered
  <2> QED BY <2>1, <2>5 DEF BridgeStep
<1>2. ASSUME NEW u \in Users, NEW arg \in TypeArgs, NEW h \in TxHash, confirm(u, arg, h)
      PROVE  BridgeStep
  <2> DEFINE t == arg % 256
  <2>1. t \in Uint8
    BY Solver, InputAssumption DEF Uint8
  <2>2. /\ <<t, h>> \notin used \cup records
        /\ used' = used \cup {<<t, h>>} /\ records' = records
        /\ claims' = Append(claims, [kind |-> "confirm", item |-> <<t, h>>])
    BY <1>2 DEF confirm, HasItem
  <2>3. PICK i \in DOMAIN items : verifyConfirm(i, t, h) /\ items' = RemoveItem(items, i)
    BY <1>2 DEF confirm
  <2> HIDE DEF t
  <2>4. items[i].id = receiptMap[h].mint.mid /\ items[i].convertType = t
    BY <2>3 DEF verifyConfirm, IsFirstItem
  <2>5. Confirms(i, t, h)
    BY <2>2, <2>3, <2>4 DEF Confirms, Remembered
  <2> QED BY <2>1, <2>5 DEF BridgeStep
<1>3. ASSUME NEW u \in Users, NEW from \in Callers(u), NEW arg \in TypeArgs,
             NEW amount \in CastAmounts, NEW pubKey \in PubKeys,
             casting(u, from, arg, amount, pubKey)
      PROVE  BridgeStep
  <2> DEFINE ct == arg % 256
             item == CastItem(from, ct, amount, pubKey)
  <2>1. ct \in Uint8 /\ amount \in Nat
    BY Solver, InputAssumption DEF Uint8
  <2>2. Tx(u) /\ items' = Append(items, item) /\ claims' = claims
    BY <1>3 DEF casting
  <2> HIDE DEF ct
  <2>3. item \in Item /\ item.id.hash = Nil
    BY <2>1, <2>2, CastFacts
  <2>4. item.id.conv = item.convertType
    BY DEF CastItem
  <2>5. ASSUME item.id.nonce # 0
        PROVE  /\ item.id.extra \in Users \cup Contracts
               /\ item.id.nonce <= nonce'[item.id.extra]
               /\ item.id.extra \in Users => item.id.nonce > nonce[item.id.extra]
    <3>1. IsCIP3
      BY <2>5 DEF CastItem
    <3>2. IsCIP2
      BY Solver, <3>1, NumberAssumption DEF IsCIP2, IsCIP3, TypeOK
    <3>3. item.id.extra = from /\ item.id.nonce = nonce'[from]
      BY <3>1, <3>2 DEF CastItem
    <3>4. from \in Users \cup Contracts /\ (from \in Users => from = u)
      BY AddressAssumption, AddressFacts DEF Callers
    <3>5. nonce'[from] \in Nat
      BY <2>1, <2>2, <3>4, CastFacts
    <3> HIDE DEF item
    <3> QED BY Solver, <2>2, <3>3, <3>4, <3>5, TxNonce
  <2> HIDE DEF item
  <2>6. Casts(item)
    BY <2>2, <2>3, <2>4, <2>5 DEF Casts
  <2> QED BY <2>3, <2>6 DEF BridgeStep
<1>4. ASSUME NoClaim PROVE BridgeStep
  BY <1>4 DEF BridgeStep
<1>5. ASSUME NEW u \in Users, NEW from \in Callers(u), NEW to \in ToAddresses,
             NEW amount \in StakeAmounts, NEW cba \in CoinBaseLists, NEW keyOk \in BOOLEAN,
             mortgage(u, from, to, amount, cba, keyOk)
      PROVE  NoClaim
  BY <1>5 DEF mortgage, NoClaim
<1>6. ASSUME NEW u \in Users, NEW from \in Callers(u), NEW amount,
             NEW cba \in CoinBaseLists, update(u, from, amount, cba)
      PROVE  NoClaim
  BY <1>6 DEF update, NoClaim
<1>7. ASSUME NEW u \in Users, NEW arg \in TypeArgs, NEW h \in TxHash, convertPanic(u, arg, h)
      PROVE  NoClaim
  BY <1>7 DEF convertPanic, tewaka, NoClaim
<1>8. ASSUME NEW u \in Users, revertedCall(u) PROVE NoClaim
  BY <1>8 DEF revertedCall, tewaka, NoClaim
<1>9. ASSUME NEW u \in Users, NEW to \in ToAddresses, NEW v \in SendAmounts, Transfer(u, to, v)
      PROVE  NoClaim
  BY <1>9 DEF Transfer, tewaka, NoClaim
<1>10. ASSUME NEW coinbase \in Coinbases, Finalize(coinbase) PROVE NoClaim
  BY <1>10 DEF Finalize, NoClaim
<1>11. ASSUME UNCHANGED vars PROVE NoClaim
  BY <1>11 DEF vars, tewaka, NoClaim
<1> QED
  BY <1>1, <1>2, <1>3, <1>4, <1>5, <1>6, <1>7, <1>8, <1>9, <1>10, <1>11 DEF Next

-----------------------------------------------------------------------------
(* The invariants *)

\* Every claim ever made is still remembered.
ClaimsRemembered == \A i \in DOMAIN claims : claims[i].item \in Remembered

\* A confirm was made under the type its mint's ID spells.
ConfirmsTyped ==
  \A i \in DOMAIN claims :
    claims[i].kind = "confirm" =>
      claims[i].item[1] = receiptMap[claims[i].item[2]].mint.mid.conv

\* An item's ID spells its type.  It belongs to a burn that is remembered, or to
\* a casting whose nonce its sender has not passed yet.
ItemsTraced ==
  \A i \in DOMAIN items :
    /\ items[i].id.conv = items[i].convertType
    /\ items[i].id.hash # Nil => <<items[i].id.asset, items[i].id.hash>> \in Remembered
    /\ items[i].id.hash = Nil /\ items[i].id.nonce # 0 =>
         /\ items[i].id.extra \in Users \cup Contracts
         /\ items[i].id.nonce <= nonce[items[i].id.extra]

BridgeInv == ClaimsRemembered /\ NoDoubleClaim /\ ConfirmsTyped /\ ItemsTraced
               /\ IDsDistinctSinceCIP3

\* What a list is after an append.
LEMMA AppendFacts ==
  ASSUME NEW S, NEW s \in Seq(S), NEW x \in S
  PROVE  /\ DOMAIN s = 1..Len(s) /\ Len(s) \in Nat
         /\ DOMAIN Append(s, x) = 1..(Len(s) + 1)
         /\ \A j \in DOMAIN s : Append(s, x)[j] = s[j]
         /\ Append(s, x)[Len(s) + 1] = x
         /\ \A j \in DOMAIN Append(s, x) : j \in DOMAIN s \/ j = Len(s) + 1
BY Solver

\* What is left after a removal was there before, at another place.
LEMMA RemoveFacts ==
  ASSUME NEW S, NEW s \in Seq(S), NEW i \in DOMAIN s
  PROVE  \A j \in DOMAIN RemoveItem(s, i) :
           /\ (IF j < i THEN j ELSE j + 1) \in DOMAIN s
           /\ RemoveItem(s, i)[j] = s[IF j < i THEN j ELSE j + 1]
<1>1. DOMAIN s = 1..Len(s) /\ Len(s) \in Nat
  BY Solver
<1> QED
  BY Solver, <1>1 DEF RemoveItem

\* A claim that is not remembered yet is new to the list of claims.
LEMMA NewClaim ==
  ASSUME TypeOK, MemoryGrows, ClaimsRemembered, NoDoubleClaim,
         NEW kind \in {"convert", "confirm"}, NEW t \in Uint8, NEW h \in TxHash,
         <<t, h>> \notin Remembered, <<t, h>> \in Remembered',
         claims' = Append(claims, [kind |-> kind, item |-> <<t, h>>])
  PROVE  ClaimsRemembered' /\ NoDoubleClaim'
<1> DEFINE c == [kind |-> kind, item |-> <<t, h>>]
           C == [kind : {"convert", "confirm"}, item : UsedItem]
<1>1. c \in C /\ claims \in Seq(C)
  BY DEF TypeOK, UsedItem
<1>2. c.item = <<t, h>>
  OBVIOUS
<1> HIDE DEF c, C
<1>3. claims' = Append(claims, c)
  BY DEF c
<1>4. /\ DOMAIN claims = 1..Len(claims) /\ Len(claims) \in Nat
      /\ DOMAIN claims' = 1..(Len(claims) + 1)
      /\ \A j \in DOMAIN claims : claims'[j] = claims[j]
      /\ claims'[Len(claims) + 1] = c
      /\ \A j \in DOMAIN claims' : j \in DOMAIN claims \/ j = Len(claims) + 1
  BY Solver, <1>1, <1>3, AppendFacts
<1>5. ClaimsRemembered'
  BY <1>2, <1>4 DEF ClaimsRemembered, MemoryGrows
<1>6. NoDoubleClaim'
  BY Solver, <1>2, <1>4 DEF ClaimsRemembered, NoDoubleClaim
<1> QED
  BY <1>5, <1>6

\* A step keeps the claims remembered, typed and without repetition: convert and
\* confirm ask HasItem first.
LEMMA ClaimsStep ==
  ASSUME TypeOK, MemoryGrows, BridgeStep, BridgeInv
  PROVE  ClaimsRemembered' /\ NoDoubleClaim' /\ ConfirmsTyped'
<1> USE DEF BridgeInv
<1>1. ASSUME claims' = claims PROVE ClaimsRemembered' /\ NoDoubleClaim' /\ ConfirmsTyped'
  BY <1>1 DEF ClaimsRemembered, NoDoubleClaim, ConfirmsTyped, MemoryGrows
<1>2. ASSUME NEW t \in Uint8, NEW h \in TxHash, NEW kind \in {"convert", "confirm"},
             claims' = Append(claims, [kind |-> kind, item |-> <<t, h>>]),
             kind = "confirm" => t = receiptMap[h].mint.mid.conv
      PROVE  ConfirmsTyped'
  <2> DEFINE c == [kind |-> kind, item |-> <<t, h>>]
             C == [kind : {"convert", "confirm"}, item : UsedItem]
  <2>1. c \in C /\ claims \in Seq(C)
    BY DEF TypeOK, UsedItem
  <2>2. c.item[1] = t /\ c.item[2] = h /\ c.kind = kind
    OBVIOUS
  <2> HIDE DEF c, C
  <2>3. claims' = Append(claims, c)
    BY <1>2 DEF c
  <2>4. /\ \A j \in DOMAIN claims : claims'[j] = claims[j]
        /\ claims'[Len(claims) + 1] = c
        /\ \A j \in DOMAIN claims' : j \in DOMAIN claims \/ j = Len(claims) + 1
    BY Solver, <2>1, <2>3, AppendFacts
  <2> QED BY Solver, <1>2, <2>2, <2>4 DEF ConfirmsTyped, MemoryGrows
<1>3. CASE NoClaim
  BY <1>1, <1>3 DEF NoClaim
<1>4. ASSUME NEW t \in Uint8, NEW h \in TxHash, Converts(t, h)
      PROVE  ClaimsRemembered' /\ NoDoubleClaim' /\ ConfirmsTyped'
  <2>1. ClaimsRemembered' /\ NoDoubleClaim'
    BY <1>4, NewClaim DEF Converts
  <2>2. ConfirmsTyped'
    BY <1>2, <1>4 DEF Converts
  <2> QED BY <2>1, <2>2
<1>5. ASSUME NEW i \in DOMAIN items, NEW t \in Uint8, NEW h \in TxHash, Confirms(i, t, h)
      PROVE  ClaimsRemembered' /\ NoDoubleClaim' /\ ConfirmsTyped'
  <2>1. ClaimsRemembered' /\ NoDoubleClaim'
    BY <1>5, NewClaim DEF Confirms
  <2>2. t = receiptMap[h].mint.mid.conv
    BY <1>5 DEF Confirms, ItemsTraced
  <2>3. ConfirmsTyped'
    BY <1>2, <1>5, <2>2 DEF Confirms
  <2> QED BY <2>1, <2>3
<1>6. ASSUME NEW item \in Item, Casts(item)
      PROVE  ClaimsRemembered' /\ NoDoubleClaim' /\ ConfirmsTyped'
  BY <1>1, <1>6 DEF Casts
<1> QED
  BY <1>3, <1>4, <1>5, <1>6 DEF BridgeStep

\* An item traced before a step is traced after it.
LEMMA StillTraced ==
  ASSUME TypeOK, TypeOK', MemoryGrows, ItemsTraced, NEW i \in DOMAIN items
  PROVE  /\ items[i].id.conv = items[i].convertType
         /\ items[i].id.hash # Nil => <<items[i].id.asset, items[i].id.hash>> \in Remembered'
         /\ items[i].id.hash = Nil /\ items[i].id.nonce # 0 =>
              /\ items[i].id.extra \in Users \cup Contracts
              /\ items[i].id.nonce <= nonce'[items[i].id.extra]
<1>1. items[i].id.conv = items[i].convertType
  BY DEF ItemsTraced
<1>2. items[i].id.hash # Nil => <<items[i].id.asset, items[i].id.hash>> \in Remembered'
  BY DEF ItemsTraced, MemoryGrows
<1>3. ASSUME items[i].id.hash = Nil, items[i].id.nonce # 0
      PROVE  /\ items[i].id.extra \in Users \cup Contracts
             /\ items[i].id.nonce <= nonce'[items[i].id.extra]
  <2> DEFINE a == items[i].id.extra
             n == items[i].id.nonce
  <2>1. a \in Users \cup Contracts /\ n <= nonce[a]
    BY <1>3 DEF ItemsTraced
  <2>2. n \in Nat
    <3>1. items[i] \in Item
      BY Solver DEF TypeOK
    <3> QED BY <3>1 DEF Item, ID
  <2> HIDE DEF a, n
  <2>3. nonce[a] \in Nat /\ nonce'[a] \in Nat /\ nonce'[a] >= nonce[a]
    BY <2>1 DEF TypeOK, MemoryGrows
  <2>4. a \in Users \cup Contracts /\ n <= nonce'[a]
    BY Solver, <2>1, <2>2, <2>3
  <2> QED BY <2>4 DEF a, n
<1> QED
  BY <1>1, <1>2, <1>3

\* An appended item keeps the list traced if it is traced itself, and the IDs
\* apart if its own is new or one of those that may repeat.
LEMMA AppendItem ==
  ASSUME TypeOK, TypeOK', MemoryGrows, ItemsTraced, IDsDistinctSinceCIP3,
         NEW item \in Item, items' = Append(items, item),
         item.id.conv = item.convertType,
         item.id.hash # Nil => <<item.id.asset, item.id.hash>> \in Remembered',
         item.id.hash = Nil /\ item.id.nonce # 0 =>
           /\ item.id.extra \in Users \cup Contracts
           /\ item.id.nonce <= nonce'[item.id.extra],
         \A j \in DOMAIN items :
           items[j].id = item.id =>
             /\ item.id.hash = Nil
             /\ item.id.nonce = 0 \/ item.id.extra \in Contracts
  PROVE  ItemsTraced' /\ IDsDistinctSinceCIP3'
<1>1. /\ DOMAIN items = 1..Len(items) /\ Len(items) \in Nat
      /\ \A j \in DOMAIN items : items'[j] = items[j]
      /\ items'[Len(items) + 1] = item
      /\ \A j \in DOMAIN items' : j \in DOMAIN items \/ j = Len(items) + 1
  BY Solver, AppendFacts DEF TypeOK
<1>2. ItemsTraced'
  <2> SUFFICES ASSUME NEW i \in DOMAIN items'
               PROVE  /\ items'[i].id.conv = items'[i].convertType
                      /\ items'[i].id.hash # Nil =>
                           <<items'[i].id.asset, items'[i].id.hash>> \in Remembered'
                      /\ items'[i].id.hash = Nil /\ items'[i].id.nonce # 0 =>
                           /\ items'[i].id.extra \in Users \cup Contracts
                           /\ items'[i].id.nonce <= nonce'[items'[i].id.extra]
    BY DEF ItemsTraced
  <2>1. CASE i \in DOMAIN items
    <3>1. items'[i] = items[i]
      BY <1>1, <2>1
    <3> QED BY <2>1, <3>1, StillTraced
  <2>2. CASE i = Len(items) + 1
    <3>1. items'[i] = item
      BY <1>1, <2>2
    <3> QED BY <3>1
  <2> QED BY <1>1, <2>1, <2>2
<1>3. IDsDistinctSinceCIP3'
  BY Solver, <1>1 DEF IDsDistinctSinceCIP3
<1> QED
  BY <1>2, <1>3

\* A step keeps every outstanding item traceable: to the conversion it came from,
\* or to a nonce that its owner has used up.
LEMMA ItemsStep ==
  ASSUME TypeOK, TypeOK', MemoryGrows, BridgeStep, BridgeInv
  PROVE  ItemsTraced' /\ IDsDistinctSinceCIP3'
<1> USE DEF BridgeInv
<1>1. ASSUME items' = items PROVE ItemsTraced' /\ IDsDistinctSinceCIP3'
  <2>1. ItemsTraced'
    BY <1>1, StillTraced DEF ItemsTraced
  <2>2. IDsDistinctSinceCIP3'
    BY <1>1 DEF IDsDistinctSinceCIP3
  <2> QED BY <2>1, <2>2
<1>2. ASSUME NEW t \in Uint8, NEW h \in TxHash, Converts(t, h)
      PROVE  ItemsTraced' /\ IDsDistinctSinceCIP3'
  <2>1. CASE items' = items
    BY <1>1, <2>1
  <2>2. ASSUME NEW item \in Item, items' = Append(items, item), item.id.asset = t,
               item.id.hash = h, item.id.conv = item.convertType
        PROVE  ItemsTraced' /\ IDsDistinctSinceCIP3'
    <3>1. /\ <<t, h>> \notin Remembered /\ <<t, h>> \in Remembered' /\ h # Nil
      BY <1>2, InputAssumption DEF Converts
    <3>2. \A j \in DOMAIN items : items[j].id # item.id
      BY <2>2, <3>1 DEF ItemsTraced
    <3> QED BY <2>2, <3>1, <3>2, AppendItem
  <2> QED BY <1>2, <2>1, <2>2 DEF Converts
<1>3. ASSUME NEW i \in DOMAIN items, NEW t \in Uint8, NEW h \in TxHash, Confirms(i, t, h)
      PROVE  ItemsTraced' /\ IDsDistinctSinceCIP3'
  <2> DEFINE old(j) == IF j < i THEN j ELSE j + 1
  <2>1. \A j \in DOMAIN items' : old(j) \in DOMAIN items /\ items'[j] = items[old(j)]
    BY Solver, <1>3, RemoveFacts DEF Confirms, TypeOK
  <2>2. \A j, k \in DOMAIN items' : j # k => old(j) # old(k)
    <3>1. DOMAIN items' \subseteq Int /\ i \in Int
      BY Solver DEF TypeOK
    <3> QED BY Solver, <3>1
  <2> HIDE DEF old
  <2>3. ItemsTraced'
    BY Solver, <2>1, StillTraced DEF ItemsTraced
  <2>4. IDsDistinctSinceCIP3'
    BY Solver, <2>1, <2>2 DEF IDsDistinctSinceCIP3
  <2> QED BY <2>3, <2>4
<1>4. ASSUME NEW item \in Item, Casts(item)
      PROVE  ItemsTraced' /\ IDsDistinctSinceCIP3'
  <2>1. ASSUME NEW j \in DOMAIN items, items[j].id = item.id, item.id.nonce # 0,
               item.id.extra \notin Contracts
        PROVE  FALSE
    <3> DEFINE a == item.id.extra
               n == item.id.nonce
    <3>1. a \in Users /\ n > nonce[a]
      BY <1>4, <2>1 DEF Casts
    <3>2. n <= nonce[a]
      BY <1>4, <2>1 DEF Casts, ItemsTraced
    <3>3. nonce[a] \in Nat /\ n \in Nat
      <4>1. n \in Nat
        BY DEF Item, ID
      <4> HIDE DEF a, n
      <4> QED BY <3>1, <4>1 DEF TypeOK
    <3> HIDE DEF a, n
    <3> QED BY Solver, <3>1, <3>2, <3>3
  <2> QED BY <1>4, <2>1, AppendItem DEF Casts
<1> QED
  BY <1>1, <1>2, <1>3, <1>4 DEF BridgeStep, NoClaim

-----------------------------------------------------------------------------

\* The inductive invariant behind the three theorems below.
THEOREM BridgeInvariant == Spec => []BridgeInv
<1>1. Init => BridgeInv
  BY Solver DEF Init, BridgeInv, ClaimsRemembered, NoDoubleClaim, ConfirmsTyped, ItemsTraced,
         IDsDistinctSinceCIP3
<1>2. TypeOK /\ TypeOK' /\ [Next]_vars /\ BridgeInv => BridgeInv'
  <2> SUFFICES ASSUME TypeOK, TypeOK', [Next]_vars, BridgeInv PROVE BridgeInv'
    OBVIOUS
  <2>1. MemoryGrows /\ BridgeStep
    BY MemoryNext, BridgeNext
  <2>2. ClaimsRemembered' /\ NoDoubleClaim' /\ ConfirmsTyped'
    BY <2>1, ClaimsStep
  <2>3. ItemsTraced' /\ IDsDistinctSinceCIP3'
    BY <2>1, ItemsStep
  <2> QED BY <2>2, <2>3 DEF BridgeInv
<1> QED
  BY <1>1, <1>2, TypeCorrect, Temporal DEF Spec

\* convert and confirm take a side chain transaction once under a type, for any
\* number of users, blocks and dumps to the database.
THEOREM ClaimedOnce == Spec => []NoDoubleClaim
<1>1. BridgeInv => NoDoubleClaim
  BY DEF BridgeInv
<1> QED
  BY <1>1, BridgeInvariant, Temporal

\* A mint settles one item: the ID it carries fixes the type that confirm must
\* be called with, and under one type it is taken once.
THEOREM MintSettlesOneItem == Spec => []MintSettlesOnce
<1>1. TypeOK /\ BridgeInv => MintSettlesOnce
  <2> SUFFICES ASSUME TypeOK, BridgeInv, NEW i \in DOMAIN claims, NEW j \in DOMAIN claims,
                      claims[i].kind = "confirm", claims[j].kind = "confirm",
                      claims[i].item[2] = claims[j].item[2]
               PROVE  i = j
    BY DEF MintSettlesOnce
  <2>1. claims[i].item \in UsedItem /\ claims[j].item \in UsedItem
    <3> DEFINE C == [kind : {"convert", "confirm"}, item : UsedItem]
    <3>1. claims \in Seq(C)
      BY DEF TypeOK
    <3> HIDE DEF C
    <3>2. claims[i] \in C /\ claims[j] \in C
      BY Solver, <3>1
    <3> QED BY <3>2 DEF C
  <2>2. claims[i].item[1] = claims[j].item[1]
    BY Solver DEF BridgeInv, ConfirmsTyped
  <2>3. claims[i].item = claims[j].item
    BY Solver, <2>1, <2>2 DEF UsedItem
  <2> QED BY <2>3 DEF BridgeInv, NoDoubleClaim
<1> QED
  BY <1>1, BridgeInvariant, TypeCorrect, Temporal

\* Items of burns, and items cast by users since CIP_3, have an ID of their own
\* as long as they are outstanding.
THEOREM IDsDistinct == Spec => []IDsDistinctSinceCIP3
<1>1. BridgeInv => IDsDistinctSinceCIP3
  BY DEF BridgeInv
<1> QED
  BY <1>1, BridgeInvariant, Temporal

=============================================================================
