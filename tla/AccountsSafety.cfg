SPECIFICATION LiveSpec
CONSTANTS
  Emails = {ann, bob}
  NoUser = NoUser
  NoAccount = NoAccount
  Cores = {good, weak}
  ValidCores = {good}
  MaxForms = 2
  MaxCalls = 2
INVARIANT
  TypeOK
  ProfilesMatchAccounts
  HomeHasUser
  PatientUserIsCurrent
  AcceptsItsPassword
PROPERTY
  LoadingEnds
  NamesAppear
