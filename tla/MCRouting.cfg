CONSTANTS
  Calls = {c1, c2}
  Events = {e1}
  None = None
SPECIFICATION FairSpec
CHECK_DEADLOCK FALSE
INVARIANTS TypeOK OwnReply NoStaleFuture CloseFailsAll OnlyLateRepliesQueued
PROPERTIES SettledOnce EveryCallReturns
