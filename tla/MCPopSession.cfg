SPECIFICATION Spec
CONSTANTS
  UserID = {1, 2}
  MaxID = 2
  MaxFaults = 2
  NoRow = NoRow
  PopSessions = {p1, p2}
  MaxItems = 2
  Legacy = {1, 2}
  OldSizes = {0, 2}
SYMMETRY Symmetry
INVARIANTS
  PopTypeOK
  ClosedMeansDeleted
  ListIsOwn
  ListedSizesFollowStore
PROPERTIES
  OnlyMarkedDeleted
