SPECIFICATION DatabaseSpec
CONSTANTS
  MaxCrashes = 2
  MaxDown = 2
  Origins <- MCOrigins
CHECK_DEADLOCK FALSE
INVARIANTS DatabaseTypes EmptyIsServed CopyIsWhole
PROPERTIES RevisionsHold
