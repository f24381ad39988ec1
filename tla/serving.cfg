SPECIFICATION FairSpec
CONSTANTS
  Clients = {c1, c2}
  Requests = {cmd, long}
  NoData = NoData
  Descriptors <- MCDescriptors2
  Closer = Closer
  NoPeer = NoPeer
  End = End
  Ports = {p1}
  NoPort = NoPort
  MaxUnread = 2
  Blank = {}
  Long = {long}
INVARIANT
  OneClientOwnAnswer
PROPERTIES
  OneClientClosed
  OneClientAnswered
  EveryRequestReceived
  SlotSpec
CHECK_DEADLOCK FALSE
