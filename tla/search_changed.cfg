\* A message is replaced by another one under its id.
SPECIFICATION Spec
CONSTANTS
  Ids = {"a", "b", "c"}
  Terms = {"x", "y"}
  Contents <- AnyContent
  MaxRowid = 3
INVARIANTS
  SearchFindsOnly
