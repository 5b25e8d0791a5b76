CONSTANTS
  Names      <- MCNames
  LinkLimit  = 2
  Probes     <- MCProbes
  ObjectsOf  <- MCObjectsOf
  SystemsOf  <- MCSystemsOf
  AnswersOf  <- MCAnswersOf
  SearchesOf <- MCSearchesOf
SPECIFICATION ProbingSpec
INVARIANTS
  FindsTheMeaning
  FailureIsSeen
  AbsenceIsReal
  AnswersForgetTheOthers
  FailureIsTold
  FindersAreExact
  AlgorithmsAreExact
CHECK_DEADLOCK FALSE
