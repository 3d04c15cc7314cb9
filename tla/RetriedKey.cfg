CONSTANTS
  r1 = r1
  r2 = r2
  Replicas = {r1, r2}
  alice = alice
  paddedAlice = paddedAlice
  Wallets = {alice, paddedAlice}
  Strip <- MCStrip
  c1 = c1
  c2 = c2
  ClaimIds = {c1, c2}
  k1 = k1
  Keys = {k1}
  NoKey = NoKey
  p1 = p1
  p2 = p2
  Pins = {p1, p2}
  Minutes = {1, 2}
  MaxAttempts = 2
  Window = 2
  Horizon = 2
  MaxEvents = 4
SPECIFICATION Spec
SYMMETRY Symmetric
INVARIANTS
  KeyMakesOneClaim
CHECK_DEADLOCK FALSE
