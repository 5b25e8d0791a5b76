CONSTANTS
  Objects  <- MCObjects
  Contents <- MCContents
  Inputs   <- MCInputs
SPECIFICATION Spec
INVARIANTS
  TypeOK
  ItemsAreOrdered
  ReferencesResolve
PROPERTIES
  StoresItems
CHECK_DEADLOCK FALSE
