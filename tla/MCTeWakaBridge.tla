--------------------------- MODULE MCTeWakaBridge ---------------------------
(***************************************************************************)
(* The bridge half of TeWaka on a small instance: two users and a contract *)
(* cast, convert and confirm across the CIP_2, CIP_3, CIP_4 and CIP_5      *)
(* blocks and two dumps of the used items.                                 *)
(***************************************************************************)
EXTENDS TeWakaSupply

MCUsers == {1000, 1001}
MCContracts == {2000}
MCLocks == {257}
MCTypeArgs == {2, 257}          \* 257 is type 1 to uint8
MCPubKeys == {1001, NoKey, BadKey}
MCCommittee == << >>
MCAlloc == [a \in Address |-> CASE a = 101 -> 14
                                 [] a = 102 -> 3
                                 [] a \in MCUsers \cup MCContracts -> 8
                                 [] OTHER -> 0]

Burn(in, out, ct) == [status |-> 1, mint |-> Nil,
                      burn |-> [amountIn |-> in, amountOut |-> out, convertType |-> ct]]
Mint(id, to, in) == [status |-> 1, burn |-> Nil,
                     mint |-> [mid |-> id, to |-> to, amountIn |-> in]]

\* b1 burns for coins of this chain, b2 for type 2, m1 mints what b2 asks for,
\* m2 and m3 what a casting asks for, before and since CIP_3.
MCReceipts ==
    [h \in TxHash |->
       CASE h = "b1" -> Burn(2, 0, 0)
         [] h = "b2" -> Burn(9, 3, 258)
         [] h = "m1" -> Mint([asset |-> 1, conv |-> 2, hash |-> "b2", amount |-> 3,
                              extra |-> Address0, nonce |-> 0], 1001, 2)
         [] h = "m2" -> Mint([asset |-> 0, conv |-> 2, hash |-> Nil, amount |-> 5,
                              extra |-> Address0, nonce |-> 0], 1001, 1)
         [] h = "m3" -> Mint([asset |-> 0, conv |-> 1, hash |-> Nil, amount |-> 5,
                              extra |-> 1000, nonce |-> 2], 1000, 1)]
MCTransactions ==
    [h \in TxHash |-> [to |-> IF h \in {"b1", "b2", "m3"} THEN "eth" ELSE "heco2",
                       sender |-> 1001]]
MCReceiptTables == {MCReceipts}
MCTransactionTables == {MCTransactions}

=============================================================================
