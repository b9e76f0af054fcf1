SPECIFICATION Spec
CONSTANTS
  PageSize = 4
  Sizes = {1, 4, 5}
  Limit = 16
PROPERTIES FreeSucceeds
CHECK_DEADLOCK FALSE
