SPECIFICATION Spec
CONSTANTS
  Signatures <- MCSignatures
  LocalKinds = {"scalar", "struct"}
  MaxLocals = 1
  MaxIDs = 4
  MaxNumbers = 5
  Globals = {1}
  Admitted = {"results"}
INVARIANTS
  OperandsHoldTheirValues
VIEW View
CHECK_DEADLOCK FALSE
