SPECIFICATION Spec
CONSTANTS
  Signatures <- MCSignatures
  LocalKinds = {"scalar", "struct"}
  MaxLocals = 1
  MaxIDs = 4
  MaxNumbers = 4
  Globals = {1}
  Admitted = {}
INVARIANTS
  OperandsHoldTheirValues
  NumbersAreFresh
VIEW View
CHECK_DEADLOCK FALSE
