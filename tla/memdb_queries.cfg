\* A reader that pages through a query while transactions and time pass between pages.
SPECIFICATION SQLSpec
CONSTANTS
  Rows <- SomeRows
  Queries <- SomeQueries
  NoLimit = NoLimit
  Deletes <- SomeDeletes
  HintOrder = "bySubject"
  MaxTime = 2
  MaxEdits = 2
INVARIANTS TypeOK PagesInOrder NoneSkipped DirectionsAgree StoresAgree
PROPERTIES OnlyAnswers BatchesComplete
CHECK_DEADLOCK FALSE
