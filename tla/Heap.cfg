SPECIFICATION Spec
CONSTANTS
  PageSize = 4
  Sizes = {1, 4, 5}
  Limit = 16
INVARIANTS TypeOK BytesAccounted
PROPERTIES HeapSpec
CHECK_DEADLOCK FALSE
