SPECIFICATION Spec
CONSTANTS
  DocIds = {d1, d2}
  NoDoc = NoDoc
  NoCallback = NoCallback
  DefaultId = DefaultId
  MaxDate = 1
  MaxSessions = 1
  MaxCalls = 2
PROPERTY
  DeletedJournalIsGone
