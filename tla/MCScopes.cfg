CONSTANTS
  Objects <- ThreeObjects
  Enumerators <- OneEnumerator
  Functions <- OneFunction
  Shadowing = FALSE
  MaxDeclarations = 5
  MaxDepth = 4
SPECIFICATION Spec
INVARIANTS
  TypeOK
  ResolvesAsC
