SPECIFICATION Spec
CONSTANTS
  WordModulus = 1024
  FirstSlot = 100
  StackAlignment = 16
  MaxImmediate = 47
  LinkRegister = 62
  CalleeSaved = {51}
  Functions <- SmallFunctions
  MaxObjects = 1
  Sizes = {1, 4, 8, 12}
INVARIANT
  ReturnAddressIsKept
