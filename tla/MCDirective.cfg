CONSTANTS
  Ids <- MCIds
  Classes <- MCClasses
  Documents <- MCDocuments
SPECIFICATION Spec
INVARIANTS
  TypeOK
  FullIsClosed
  FullIsNeeded
  ReportFollowsDirectives
PROPERTIES
  Terminates
CHECK_DEADLOCK FALSE
