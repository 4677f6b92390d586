CONSTANTS
  user = user
  prog = prog
  fund = fund
  waka = waka
  Addr = {user, prog, fund, waka}
  TeWaKa = waka
  Coinbase = user
  Pool = fund
  Sink = user
  Key = {1}
  Word = {0, 1}
  Blob = {0, 1, 2}
  NoBlob = 0
  None = None
  Unset = Unset
  Genesis <- MCGenesis
  Payments <- MCPayments
  ClearRefund = 1
  SetRefund = 1
  ResetRefund = 1
  Senders = {user}
  Fees = {1}
  MaxDepth = 4
  MaxOps = 5
  MaxBlocks = 1
SPECIFICATION Spec
INVARIANTS RefundNotNegative SelfInAccessList RevisionFound  
PROPERTIES CallsRestore
CHECK_DEADLOCK FALSE
