SPECIFICATION LibrarySpec
CONSTANTS
  Versions = {"v1", "v2"}
  Contents = {"a", "b"}
  Shipped = "shipped"
  Order <- MCOrder
  MaxWrites = 4
INVARIANTS
  LibraryTypes
PROPERTIES
  AssessedIsKept
  BootIsStable
