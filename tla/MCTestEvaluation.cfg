CONSTANTS
  StateIds <- MCStateIds
  Answers  <- MCAnswers
  Tests    <- MCTests
  Items    <- MCItems
  MaxItems = 2
SPECIFICATION Spec
INVARIANTS
  MatchesCharts
  VerdictsAreFounded
CHECK_DEADLOCK FALSE
