\* Outside of these properties' domain: CalleeSavedCanBeSpilled fails with
\* Functions <- Spilling, PositionsInPushOrder with MaxObjects = 2, Sizes = {0, 4}.
SPECIFICATION Spec
CONSTANTS
  WordModulus = 1024
  FirstSlot = 100
  StackAlignment = 16
  MaxImmediate = 47
  LinkRegister = 62
  CalleeSaved = {51}
  Functions <- SmallFunctions
  MaxObjects = 3
  Sizes = {1, 4, 8, 12}
INVARIANTS
  ObjectsDisjoint
  FrameCoversObjects
  LoweredOffsetsStayValid
  LocalsKeepTheirValues
  ReturnsToItsCaller
  CallsWithAlignedStack
