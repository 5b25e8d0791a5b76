CONSTANTS
  MaxChildren = 4
SPECIFICATION NodeSpec
INVARIANTS
  MatchesTables
  VerdictIsStable
CHECK_DEADLOCK FALSE
