CONSTANTS
  a = a
  b = b
  NoKey = NoKey
  Keys = {a, b}
  Horizon = 2
  secret = secret
  Preimages = {secret}
  Hashes = {secret}
  ClaimHashArgs = {secret}
  HashOf <- MCHashOf
  DenominationArgs = {1}
  ExpiryArgs = {2}
  RatioArgs = {10000}
  MaxExpirySeconds = 2
  MaxNoteCounter = 1
  MaxNonce = 2
  LamportArgs = {1}
  MembraArgs = {1}
  SupplyCaps = {1}
  IndexArgs = {10000}
  Rent = 2
  MaxLamports = 2
SPECIFICATION MCSpec
SYMMETRY KeySymmetry
PROPERTY PauseStopsAll
CHECK_DEADLOCK FALSE
