CONSTANTS
  c1 = c1
  ClaimIds = {c1}
  u = u
  Users = {u}
  System = System
  btc = btc
  Assets = {btc}
  Denominations = {1, 2}
  ExpiryMinutes = {1}
  None = None
  Minute = 1
  MaxMerge = 1
  Horizon = 1
  onchain = onchain
  Chains = {onchain}
  Rails <- MCRails
  RequiredConfs <- MCRequiredConfs
  ConfirmationArgs = {2}
  MaxBatches = 1
  NoReceipt = NoReceipt
  MaxDirect = 0
  r1 = r1
  r2 = r2
  ReceiptIds = {r1, r2}
  k1 = k1
  k2 = k2
  Keys = {k1, k2}
  o1 = o1
  o2 = o2
  Operators = {o1, o2}
  LargeTx = 2
  RateLimit = 2
  Window = 1
  RequiredArgs = {2}
  Plans = {"receipts"}
SPECIFICATION MCSpec
INVARIANT ClaimSettledOnce
CHECK_DEADLOCK FALSE
