CONSTANTS
  user = user
  house = house
  k1 = k1
  k2 = k2
  w1 = w1
  w2 = w2
  Alice = Alice
  alice = alice
  bob = bob
  t1 = t1
  t2 = t2
  r1 = r1
  q1 = q1
  q2 = q2
  u1 = u1
  ca = ca
  cb = cb
  ta = ta
  tb = tb
  a1 = a1
  route1 = route1
  p1 = p1
  v1 = v1
  v2 = v2
  v3 = v3
  f1 = f1
  f2 = f2
  c1 = c1
  c2 = c2
  tx1 = tx1
  tx2 = tx2
  x = x
  y = y
  Accounts = {user, house, alice, bob, t1}
  Direct = {user, house}
  LedgerAssets = {"btc"}
  Amounts <- MCAmounts
  EntryKeys = {k1, k2}
  Wired <- MCWired
  WalletIds = {w1, w2}
  WalletBalances <- MCWalletBalances
  FullRatio = 10000
  MaxAttestations = 1
  Spelled = {Alice, alice, bob, t1, t2}
  Canonical <- MCCanonical
  Usernames = {alice, bob, t1}
  Tags = {t1, t2}
  AccountOf <- MCAccountOf
  DevicesPerName = 1
  NonceLimit = 1
  CreditUsers = {u1}
  Relayers = {r1}
  RequestIds = {q1, q2}
  Lamport = 2
  Transfers = {1, 4}
  CreditAmounts <- MCCreditAmounts
  ReimbursementAmounts <- MCReimbursementAmounts
  MaxCreditsPerUser = 2
  MaxPerBatch = 2
  MaxTotal = 6
  Chains = {ca, cb}
  Tokens = {ta, tb}
  ChainOf <- MCChainOf
  Adapters = {a1}
  Routes = {route1}
  AmountLimits <- MCAmountLimits
  RouteAmounts = {0, 1, 2, 3}
  MaxProofs = 1
  Prices = {10, 11, 20}
  MaxSamples = 2
  MaxOracleAge = 1
  HighSquared <- MCHigh
  LowSquared <- MCLow
  MaxPovProofs = 1
  PovHorizon = 2
  ProofIds = {p1}
  Voters = {v1, v2, v3}
  CommunityRequired = 2
  Emissions <- MCEmissions
  EmissionCap = 1
  MaxScans = 2
  Callers = {u1, r1, w1, w2}
  FailureThreshold = 3
  RecoveryTimeout = 2
  HalfOpenMaxCalls = 2
  Replicas = {w1, w2}
  MaxNonces = 2
  MaxSessions = 3
  Contents = {f1, f2}
  Commits <- MCCommits
  Txs = {tx1, tx2}
  None = None
  Worths = {TRUE}
  Budgets <- MCBudgets
  Trees <- MCTrees
  Values = {1, 3}
  LastSecond = 2
  MaxRuns = 3
SPECIFICATION Spec
INVARIANTS
  TypeOK
  BooksAndReservesAgree
  ResolvesToShownTag
  VaultBooksAgree
  OfferedRoutesAreSound
  OpenGatesRestOnSignals
  ExecutedWasReviewed
  NonceOpensOneSession
  ShownLiensAreReal
  RecordsBackSku
  SnapshotsHoldTogether
PROPERTIES
  BreakerRecovers
CHECK_DEADLOCK FALSE
