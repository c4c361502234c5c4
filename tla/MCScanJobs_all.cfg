SPECIFICATION Spec
CONSTANTS
  Scans <- MCScans
  Kind <- MCKind
  Interactive <- MCInteractive
  MaxScans = 1
  MaxCrashes = 1
INVARIANTS
  TypeOK
  SuccessIsEarned
PROPERTIES
  RowsAreKept
  JobEndsRow
CHECK_DEADLOCK FALSE
