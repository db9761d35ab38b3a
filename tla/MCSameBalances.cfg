CONSTANTS
  w1 = w1
  w2 = w2
  r1 = r1
  r2 = r2
  r3 = r3
  t1 = t1
  t2 = t2
  b1 = b1
  b2 = b2
  s1 = s1
  x = x
  y = y
  Connections = {w1}
  Requests = {r1}
  Params <- MCTransferParams
  EventTypes = {"batch", "transfer"}
  Filters = {x}
  Batches = {}
  Events = {t1, t2}
  EvtName <- MCTwoTransfers
  Concerns <- MCBothConcern
  EvtHash <- MCSameBalances
  Status <- MCFinalOnly
  MaxQueue = 1
  None = None
SPECIFICATION Spec
CHECK_DEADLOCK FALSE
PROPERTIES EveryUpdateNotified
