CONSTANTS
  p1 = p1
  s1 = s1
  s2 = s2
  alice = alice
  bob = bob
  k1 = k1
  k2 = k2
  l1 = l1
  l2 = l2
  l3 = l3
  Signers = {alice, bob}
  ZERO_ADDRESS = zero
  GENESIS_ADDRESS = genesis
  CONFIG_ADDRESS = config
  ForeignAddresses = {}
  PubKeys = {p1}
  Amounts = {5}
  Supplies = {20}
  MaxU64 = 20
  None = None
  SwapIds = {}
  SecretKeys = {k1, k2}
  Locks = {l1, l2, l3}
  NoLock = NoLock
  NoKey = NoKey
  Hash <- MCHash
  Timestamps <- MCNoTimestamps
  UtcOffset <- MCNoUtcOffset
  Commissions = {}
  Receivers = {}
  AsSwap <- MCNoReading
  AsPubKey <- MCNoReading
  Dates = {1}
SPECIFICATION Spec
PROPERTIES PayerIsCharged
