CONSTANTS
  p1 = p1
  s1 = s1
  s2 = s2
  alice = alice
  bob = bob
  k1 = k1
  k2 = k2
  l1 = l1
  l2 = l2
  l3 = l3
  Signers = {alice, bob}
  ZERO_ADDRESS = zero
  GENESIS_ADDRESS = genesis
  CONFIG_ADDRESS = config
  ForeignAddresses = {foreign}
  PubKeys = {}
  Amounts = {0, 1, 2}
  Supplies = {3}
  MaxU64 = 3
  None = None
  SwapIds = {s1}
  SecretKeys = {k1, k2}
  Locks = {l1, l2, l3}
  NoLock = NoLock
  NoKey = NoKey
  Hash <- MCHash
  Timestamps <- MCTimestamps
  UtcOffset <- MCUtcOffset
  Commissions = {0, 1}
  Receivers = {bob, foreign, s1, genesis, config}
  AsSwap <- MCAsSwap
  AsPubKey <- MCNoReading
  Dates = {1}
SPECIFICATION FairSpec
INVARIANTS TypeOK SwapLifecycle NothingBeforeGenesis
PROPERTIES SwapTermsFixed RefundedOnlyAfterTimeLock EverySwapSettles ClientTransactionsAuthorised
