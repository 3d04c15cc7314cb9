CONSTANTS
  c1 = c1
  c2 = c2
  c3 = c3
  ClaimIds = {c1, c2, c3}
  u = u
  v = v
  Users = {u, v}
  System = System
  btc = btc
  sol = sol
  Assets = {btc, sol}
  Denominations <- MCDenominations
  ExpiryMinutes = {0, 1}
  None = None
  Minute = 1
  MaxMerge = 2
  Horizon = 2
  onchain = onchain
  Chains = {onchain}
  Rails <- MCRails
  RequiredConfs <- MCRequiredConfs
  ConfirmationArgs = {2}
  MaxBatches = 2
  NoReceipt = NoReceipt
  MaxDirect = 2
  r1 = r1
  r2 = r2
  ReceiptIds = {r1, r2}
  k1 = k1
  k2 = k2
  Keys = {k1, k2}
  o1 = o1
  o2 = o2
  Operators = {o1, o2}
  LargeTx = 2
  RateLimit = 1
  Window = 2
  RequiredArgs = {1, 2}
  Plans = {"claims", "receipts", "batches"}
SPECIFICATION MCSpec
SYMMETRY Symmetric
INVARIANTS
  TypeOK
  ValueConserved
  SettledIffBurned
  SmallClaimsPaidOnce
  ApprovalsReached
  OneReceiptPerKey
  RateLimitHolds
  OneBatchPerRequest
PROPERTIES
  HandedOverOnce
  ImplementsPayouts
CHECK_DEADLOCK FALSE
