CONSTANTS
  Hash <- SomeHash
  IntMax = 15
  Absent = Absent
  PublicKeys <- SomeKeys
  Typos <- SomeTypos
  AsTyped <- TypeText
  Datas <- SomeDatas
  Names <- SomeNames
  StateAnswers <- SomeAnswers
  Transactions <- SomeTransactions
  Headers <- SomeHeaders

SPECIFICATION Spec

INVARIANTS
  AddressSurvives
  AddressIsUnderstood
  SizesSuffice
  DecodedFits
  MapsAreComplete
  FieldsAreSorted
  PayloadIsUsable
  StatesAreRead
  HeadersArrive
