SPECIFICATION Spec
CONSTANTS
  PageSize = 2
  Sizes = {1, 3, 4}
  Limit = 12
  Blocks = {b1, b2, b3, b4}
  Nil = Nil
SYMMETRY Symmetry
INVARIANTS LinksAgree
PROPERTIES ListImplements
CHECK_DEADLOCK FALSE
