---------------------------- MODULE MCTeWakaStake ----------------------------
(***************************************************************************)
(* The staking half of TeWaka on a small instance: two users and a         *)
(* contract mortgage, update and send coins around, over the end of        *)
(* several blocks.  One pledge comes from the genesis committee.           *)
(***************************************************************************)
EXTENDS TeWakaSupply

MCUsers == {1000, 1001}
MCContracts == {2000}
MCLocks == {257, 258}
MCToAddresses == {101, 257, 258, 1001}
MCCoinBaseLists == {<< >>, <<1001>>, <<1000, 1001>>}
MCCommittee == << [addr |-> 1000, to |-> 257, amount |-> 3, cba |-> <<1000>>] >>
MCAlloc == [a \in Address |-> IF a \in MCUsers \cup MCContracts THEN 7 ELSE 0]
MCReceiptTables == {[h \in TxHash |-> Nil]}

=============================================================================
