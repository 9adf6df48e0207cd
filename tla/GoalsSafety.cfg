SPECIFICATION LiveSpec
CONSTANTS
  DocIds = {d1, d2}
  NoDoc = NoDoc
  NoCallback = NoCallback
  NoId = NoId
  EmptyTitle = EmptyTitle
  Titles = {EmptyTitle, run}
  MaxClock = 2
  MaxCalls = 2
INVARIANT
  TypeOK
  RowsShowTheirDocuments
  AtMostTwoRowsPerGoal
PROPERTY
  DeletesOnlyConfirmed
  FetchKeepsStoredRows
  DocumentsLiveOnce
  SavedGoalAppears
