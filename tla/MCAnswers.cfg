CONSTANTS
  w1 = w1
  w2 = w2
  r1 = r1
  r2 = r2
  r3 = r3
  t1 = t1
  t2 = t2
  b1 = b1
  b2 = b2
  s1 = s1
  x = x
  y = y
  Connections = {w1, w2}
  Requests = {r1, r2, r3}
  Params <- MCLockParams
  EventTypes = {"batch", "blocks"}
  Filters = {x}
  Batches = {x}
  Events = {}
  EvtName <- MCNoEvents
  Concerns <- MCNoConcerns
  EvtHash <- MCNoEvents
  Status <- MCStatus
  MaxQueue = 1
  None = None
SPECIFICATION FairSpec
CHECK_DEADLOCK FALSE
PROPERTIES EveryRequestAnswered NotifiedAtMostOnce BatchStatusDelivered
