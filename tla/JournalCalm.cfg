SPECIFICATION CalmSpec
CONSTANTS
  DocIds = {d1, d2, d3}
  NoDoc = NoDoc
  NoCallback = NoCallback
  DefaultId = DefaultId
  MaxDate = 2
  MaxSessions = 2
  MaxCalls = 2
SYMMETRY IdSymmetry
INVARIANT
  CalmNeverCrashes
PROPERTY
  IsTheBook
