CONSTANTS
  Definitions <- MCDefinitions
  Nodes       <- MCNodes
  Tests       <- MCTests
  UnknownIds  <- MCUnknownIds
  Inputs      <- DocumentInputs
SPECIFICATION Spec
INVARIANTS
  TypeOK
  ReportsTheMeaning
PROPERTIES
  WrittenIsFinal
  Terminates
CHECK_DEADLOCK FALSE
