\* Operations beyond those of the run: OperandsHoldTheirValues fails with Admitted
\* = {"addresses"} and = {"globals"}; NumbersAreFresh with Admitted = {} and
\* Signatures <- ScalarBeforeStruct.
SPECIFICATION Spec
CONSTANTS
  Signatures <- MCSignatures
  LocalKinds = {"scalar", "struct"}
  MaxLocals = 1
  MaxIDs = 4
  MaxNumbers = 5
  Globals = {1}
  Admitted = {"globals"}
INVARIANTS
  OperandsHoldTheirValues
VIEW View
CHECK_DEADLOCK FALSE
