CONSTANTS
  Objects   <- MCObjects
  Variables <- MCVariables
  ItemIds   <- MCItemIds
  Inputs    <- DocumentInputs
SPECIFICATION Spec
INVARIANTS
  TypeOK
  NoVariableInsideItself
  AnswersAreSettled
  WritesTheMeaning
PROPERTIES
  CompleteVariableIsFinal
  Terminates
CHECK_DEADLOCK FALSE
