SPECIFICATION VerdictSpec
CONSTANTS
  Collects = {c1}
  Kinds = {"linux", "windows", "opnsense", "fortigate", "switch"}
  MaxPoor = 2
CHECK_DEADLOCK FALSE
INVARIANTS NothingFoundIsCleared
