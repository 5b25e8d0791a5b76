CONSTANTS
  Names      <- MCNames
  LinkLimit  = 2
  Probes     <- Finder
  ObjectsOf  <- MCObjectsOf
  SystemsOf  <- MCSystemsOf
  AnswersOf  <- MCAnswersOf
  SearchesOf <- MCSearchesOf
SPECIFICATION ProbingSpec
INVARIANTS
  FoundPathsAreUnique
CHECK_DEADLOCK FALSE
