SPECIFICATION Spec
CONSTANTS
  DocIds = {d1, d2}
  NoDoc = NoDoc
  NoCallback = NoCallback
  NoId = NoId
  EmptyTitle = EmptyTitle
  Titles = {run}
  MaxClock = 2
  MaxCalls = 2
PROPERTY
  SavingWritesDown
