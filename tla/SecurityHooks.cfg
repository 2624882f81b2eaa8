SPECIFICATION Spec
CONSTANTS
  Ids = {"a", "b"}
  Files <- MCFiles
  Sources <- MCSources
  LastDay = 3
  MaxEdits = 2
INVARIANTS TypeOK GreenHasReasons GreenIsCurrent RefusedForCause
