CONSTANTS
  a = a
  b = b
  NoKey = NoKey
  Keys = {a, b}
  Horizon = 3
  secret = secret
  other = other
  Preimages = {secret, other}
  Hashes = {secret, other}
  ClaimHashArgs = {secret}
  HashOf <- MCHashOf
  DenominationArgs = {0, 1}
  ExpiryArgs = {0, 1, 2, 3}
  RatioArgs = {10000, 10001}
  MaxExpirySeconds = 2
  MaxNoteCounter = 2
  MaxNonce = 2
  LamportArgs = {0, 1, 2}
  MembraArgs = {0, 1, 2}
  SupplyCaps = {1}
  IndexArgs = {9999}
  Rent = 2
  MaxLamports = 2
SPECIFICATION MCSpec
SYMMETRY KeySymmetry
INVARIANTS
  TypeOK
  NoteIdsDense
  AttestationOrder
  NonceCountsHandovers
  VaultSolvent
  SupplyCapped
PROPERTIES
  NonceVersionsHolder
  ExpiredNoteOnlyRevoked
  PausedFreezes
  ImplementsLifecycle
CHECK_DEADLOCK FALSE
