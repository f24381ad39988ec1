SPECIFICATION QueueFairSpec
CONSTANTS
  Guis = {g1, g2, g3}
  Mortal = {g2, g3}
  Commands = {get_port}
  Server = Server
  None = None
INVARIANTS
  OneMessageWhileWaiting
  ReadsStableText
PROPERTIES
  GuiReturns
  ServerEnds
CHECK_DEADLOCK FALSE
