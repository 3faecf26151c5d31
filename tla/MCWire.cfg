SPECIFICATION Spec
CONSTANTS
  Text <- Texts
  Total = {0, 1, 5000}
  Offset = {0, 1}
  Limit = {0, 2, 65535}
  Torn = Torn
  Unset = Unset
  None = None
INVARIANTS Delivered
