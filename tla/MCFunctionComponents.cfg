CONSTANTS
  Precision = 1000000
  RegexChars = {0, 92}
  Backslash = 92
  Now = 5
  Inputs <- MCInputs
SPECIFICATION FunctionSpec
INVARIANTS
  FunctionFlagFollowsChart
  ValuesAreRight
  OtherValuesAreRight
CHECK_DEADLOCK FALSE
