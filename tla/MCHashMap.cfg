CONSTANTS
  Keys = {"a", "b", "c", "d", "e"}
  Values = {1, 2}
  NULL = NULL
  Hash <- SomeHash
  DEFAULT_MAP_SIZE = 2
  ListSize = 2
SPECIFICATION Spec
INVARIANTS TypeOK SizeExact LoadBounded
PROPERTIES ImplementsMap
