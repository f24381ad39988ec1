SPECIFICATION Spec
CONSTANTS
  Clients = {c1, c2}
  Requests = {cmd}
  NoData = NoData
  Descriptors <- MCDescriptors2
  Closer = Closer
  NoPeer = NoPeer
  End = End
  Ports = {p1}
  NoPort = NoPort
  MaxUnread = 2
  Blank = {}
  Long = {}
INVARIANT
  OwnAnswer
CHECK_DEADLOCK FALSE
