SPECIFICATION Spec
CONSTANTS
  DocIds = {1, 2}
  NoDoc = NoDoc
  NoCallback = NoCallback
  DefaultId = 1234
  EmptyTitle = EmptyTitle
  Titles = {EmptyTitle, run}
  MaxSessions = 2
  MaxCalls = 2
INVARIANT
  TypeOK
  AtMostTwoRowsPerTask
PROPERTY
  DeletesOnlySwiped
