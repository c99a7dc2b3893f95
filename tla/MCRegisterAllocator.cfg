SPECIFICATION Spec
CONSTANTS
  x0 = x0
  x1 = x1
  x9 = x9
  x19 = x19
  x20 = x20
  Unit <- MCUnit
  ArgumentRegisters <- MCArgumentRegisters
  CallerSaved <- MCCallerSaved
  CalleeSaved <- MCCalleeSaved
  ReturnRegister = x0
  Widths <- MCWidths
  Unkilled = 1000
  MachineFunctions <- LeafFunctions
  MaxParams = 3
  MaxBody = 4
  MaxUses = 2
INVARIANTS
  TypeOK
  RegistersConserved
  NoInterference
  CalleeSavedRecorded
  EveryOperandGetsARegister
  RunsOutOnlyUnderPressure
  OperandsReadTheirDefinition
PROPERTIES
  Termination
  ColoringSpec
