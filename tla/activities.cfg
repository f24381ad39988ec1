SPECIFICATION Spec
CONSTANTS
  Desktops = {d1, d2}
  d1 = d1
  d2 = d2
  SavedLists <- MCLists
  MaxConnectors = 2
  MaxThreads = 2
  MaxObservers = 3
  NoEdit = NoEdit
  NoDesktop = NoDesktop
INVARIANTS
  ActivitiesTypeOK
  QuietControls
  QuietConnectors
  QuietList
  Observed
CHECK_DEADLOCK FALSE
