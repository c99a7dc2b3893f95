\* Declarations beyond those of the run: one that hides another (as it stands), or a
\* name of two types (Objects <- TwoTypes, Shadowing = FALSE, MaxDeclarations = 6).
CONSTANTS
  Objects <- ThreeObjects
  Enumerators <- OneEnumerator
  Functions <- OneFunction
  Shadowing = TRUE
  MaxDeclarations = 5
  MaxDepth = 4
SPECIFICATION Spec
INVARIANTS
  ResolvesAsC
