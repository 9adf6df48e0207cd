SPECIFICATION OneSession
CONSTANTS
  DocIds = {d1, d2, d3}
  NoDoc = NoDoc
  NoCallback = NoCallback
  NoId = NoId
  EmptyTitle = EmptyTitle
  Titles = {run}
  MaxClock = 3
  MaxCalls = 2
CHECK_DEADLOCK FALSE
PROPERTY
  DeletesTheGoalAskedAbout
