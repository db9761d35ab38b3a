CONSTANTS
  w1 = w1
  w2 = w2
  r1 = r1
  r2 = r2
  r3 = r3
  t1 = t1
  t2 = t2
  b1 = b1
  b2 = b2
  s1 = s1
  x = x
  y = y
  Connections = {w1}
  Requests = {r1, r2, r3}
  Params <- MCMixedParams
  EventTypes = {"batch", "blocks", "atomic_swap"}
  Filters = {x}
  Batches = {x}
  Events = {b1, s1}
  EvtName <- MCMixedNames
  Concerns <- MCMixedConcerns
  EvtHash <- MCMixedHash
  Status <- MCStatus
  MaxQueue = 1
  None = None
SPECIFICATION Spec
CHECK_DEADLOCK FALSE
INVARIANTS TypeOK SubscriptionsUpheld NotifiedAsSubscribed NoneAfterClose
PROPERTIES NeverReplaced EveryUpdateNotified BlockLostOnlyWithConsumer
SYMMETRY MCRequests
