----------------------------- MODULE MCEVMFrames -----------------------------
EXTENDS EVMFrames

CONSTANTS user, prog, fund, waka

acct(nonce, balance, code, slot, te) ==
  [nonce |-> nonce, balance |-> balance, code |-> code, slot |-> slot, te |-> te]

MCGenesis ==
  [a \in Addr |->
     CASE a = user -> acct(0, 2, FALSE, 0, NoBlob)
       [] a = prog -> acct(1, 0, TRUE, 1, NoBlob)
       [] a = waka -> acct(1, 0, TRUE, 0, 1)
       [] a = fund -> acct(0, 1, FALSE, 0, NoBlob)]

MCPayments == {<<fund, user, 0>>, <<fund, user, 1>>}
=============================================================================
