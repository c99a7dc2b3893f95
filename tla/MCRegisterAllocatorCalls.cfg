SPECIFICATION Spec
CONSTANTS
  x0 = x0
  x1 = x1
  x9 = x9
  x19 = x19
  x20 = x20
  Unit <- MCUnit
  ArgumentRegisters <- MCArgumentRegisters
  CallerSaved <- MCThreeCallerSaved
  CalleeSaved <- MCCalleeSaved
  ReturnRegister = x0
  Widths <- MCWidths
  Unkilled = 1000
  MachineFunctions <- CallFunctions
  MaxParams = 3
  MaxBody = 4
  MaxUses = 2
INVARIANT
  FixedWritesRespected
