SPECIFICATION FairSpec
CONSTANTS
  Clients = {c1, c2}
  c1 = c1
  c2 = c2
  MaxCalls <- MCMaxCalls
  Requests <- MCRequests
  Garbled = 0
  MaxBacklog = 1
  NoData = NoData
  Stop = Stop
  NoConn = NoConn
INVARIANTS
  AnswersInOrder
PROPERTIES
  BtSlotSafety
  AnsweredCancelReturns
  ThreadEnds
  OnlyKnownBtHangs
  NextIsServed
CHECK_DEADLOCK FALSE
