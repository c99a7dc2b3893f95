CONSTANTS
  Programs <- UpToFour
  Files <- Included
  Ids <- Names
  Letters <- UsedLetters
SPECIFICATION Spec
INVARIANTS
  FinishedLinesAreExpanded
PROPERTIES
  Terminates
