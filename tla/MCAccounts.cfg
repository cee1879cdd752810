CONSTANTS
  alice = alice
  bob = bob
  NoAddress = NoAddress
  Addresses <- Owners
  AccountsCount = 2
  AppsMaxCount = 2
  AppsKvMaxCount = 2
  VariableNames <- Names
  IntRange = 16
  Answers <- AllAnswers
  MaxFetches = 3

SPECIFICATION Spec

INVARIANTS
  AccountsTypeOK
  HandleKeepsAccount
  AppsAreItsOwn
  FirstAnswerIsRead
