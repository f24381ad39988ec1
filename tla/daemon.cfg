SPECIFICATION DaemonFairSpec
CONSTANTS
  Clients = {c1}
  Requests = {cmd, quit, chg_port}
  NoData = NoData
  Descriptors <- MCDescriptors
  Closer = Closer
  NoPeer = NoPeer
  End = End
  Ports = {p1, p2}
  NoPort = NoPort
  MaxUnread = 1
  Blank = {}
  Long = {cmd}
  Quit = quit
  ChgPort = chg_port
  BadPort = BadPort
INVARIANTS
  ReportsBoundPort
  ExitReleasesPort
PROPERTIES
  StopLostOnlyAtStart
  RestartsClean
  OnlyKnownHangs
CHECK_DEADLOCK FALSE
