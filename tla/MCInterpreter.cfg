CONSTANTS
  CommandLines <- MCCommandLines
  Disks <- MCDisks
  GivenHash <- MCHash
  Directory <- Home
  SchemaPath <- Schema
SPECIFICATION Spec
INVARIANTS
  CommandLineMeans
  ExitMeansDone
PROPERTIES
  InputsSurvive
