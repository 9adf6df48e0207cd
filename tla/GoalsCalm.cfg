SPECIFICATION CalmSpec
CONSTANTS
  DocIds = {d1, d2, d3}
  NoDoc = NoDoc
  NoCallback = NoCallback
  NoId = NoId
  EmptyTitle = EmptyTitle
  Titles = {EmptyTitle, run}
  MaxClock = 3
  MaxCalls = 2
SYMMETRY IdSymmetry
INVARIANT
  CalmNeverCrashes
PROPERTY
  IsTheBook
