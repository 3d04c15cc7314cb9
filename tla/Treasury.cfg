CONSTANTS
  b1 = b1
  b2 = b2
  BatchIds = {b1, b2}
  o1 = o1
  o2 = o2
  o3 = o3
  Operators = {o1, o2, o3}
  btc = btc
  Assets = {btc}
  Required = 2
  SigningWindow = 1
  RequiredConfs <- MCRequiredConfs
  ConfirmationArgs = {1, 2}
  Horizon = 3
SPECIFICATION Spec
SYMMETRY Symmetric
INVARIANTS
  TypeOK
  QuorumBeforeBroadcast
PROPERTIES
  DecisionFrozen
  ImplementsMultisig
CHECK_DEADLOCK FALSE
