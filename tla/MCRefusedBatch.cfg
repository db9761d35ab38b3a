CONSTANTS
  Requests = {r1}
  Params <- MCSubmitParams
  MaxHeight = 2
  Window = 1
  Batches = {b1}
  Malformed = Malformed
  None = None
SPECIFICATION Spec
CHECK_DEADLOCK FALSE
INVARIANTS BatchIdMeansIncluded
