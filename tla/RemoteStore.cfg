SPECIFICATION LiveSpec
CONSTANTS
  u1 = u1
  u2 = u2
  d1 = d1
  d2 = d2
  Users = {u1, u2}
  NoUser = NoUser
  DocIds = {d1, d2}
  Author <- MCAuthor
  MaxPending = 2
  Queries = {goals, todo}
  Loads <- MCLoads
  Owner = u1
  NoDoc = NoDoc
  NoCallback = NoCallback
  MaxWrites = 3
CHECK_DEADLOCK FALSE
INVARIANT
  TypeOK
  AnswersMatchTheirWrites
  NothingIsForgotten
  IdleStreamsAreNotNeeded
  WritesCarryTheirUsersToken
  TimerOnlyWhileUnknown
PROPERTY
  KeepsFirestorePromises
  QueuedWritesSettle
  ReadsTimeOut
