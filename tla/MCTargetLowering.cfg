\* With one of Kinds in Admitted a property fails: OperandSizesAgree with "truncation",
\* MeaningKept with any other.
CONSTANTS
  Bits <- MCBits
  SizeOf <- MCSizeOf
  TypeOf <- MCTypeOf
  Global = "g"
  Statements <- MCStatements
  Admitted = {}
  MaxVReg = 16
SPECIFICATION Spec
INVARIANTS TypeOK MeaningKept PassedIsLegal OperandSizesAgree
PROPERTIES Termination
CHECK_DEADLOCK FALSE
