CONSTANTS
  p1 = p1
  s1 = s1
  s2 = s2
  alice = alice
  bob = bob
  k1 = k1
  k2 = k2
  l1 = l1
  l2 = l2
  l3 = l3
  Signers = {alice, bob}
  ZERO_ADDRESS = zero
  GENESIS_ADDRESS = genesis
  CONFIG_ADDRESS = config
  ForeignAddresses = {}
  PubKeys = {p1}
  Amounts = {5}
  Supplies = {20}
  MaxU64 = 20
  None = None
  SwapIds = {s1, s2}
  SecretKeys = {k1}
  Locks = {l1}
  NoLock = NoLock
  NoKey = NoKey
  Hash <- MCOneHash
  Timestamps <- MCFewTimestamps
  UtcOffset <- MCFewUtcOffset
  Commissions = {5}
  Receivers = {bob, s1, s2, p1}
  AsSwap <- MCNoReading
  AsPubKey <- MCAsPubKey
  Dates = {1, 367}
SPECIFICATION Spec
INVARIANTS TokensConserved KeyLinkedToOwner OnlyOwnKeysLinked RefundNeverOverflows
PROPERTIES KeyRecordForever ImplementsEscrowLedger
SYMMETRY MCSwapIds
