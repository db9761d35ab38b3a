CONSTANTS
  Requests = {r1}
  Params <- MCParams
  MaxHeight = 4
  Window = 1
  Batches = {b1}
  Malformed = Malformed
  None = None
SPECIFICATION FairSpec
CHECK_DEADLOCK FALSE
INVARIANTS TypeOK SnapshotRead CurrentRead GetBlocks LegalAddresses
PROPERTIES EveryRpcAnswered
