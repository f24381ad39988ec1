SPECIFICATION Spec
CONSTANTS
  Clients = {c1, c2, c3}
  Requests = {long, blank}
  NoData = NoData
  Descriptors <- MCDescriptors2
  Closer = Closer
  NoPeer = NoPeer
  End = End
  Ports = {p1}
  NoPort = NoPort
  MaxUnread = 2
  Blank = {blank}
  Long = {long}
SYMMETRY MCSymmetry
INVARIANTS
  ExecutesWhatIsAwaited
  AnswerBelongsToRequest
  OnlyBlankStrands
PROPERTIES
  SlotSafety
CHECK_DEADLOCK FALSE
