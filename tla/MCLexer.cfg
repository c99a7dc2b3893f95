CONSTANTS
  Sources <- Texts
  Keywords <- If
  Letters <- TwoLetters
  Digits <- OneDigit
SPECIFICATION Spec
INVARIANTS
  DeliversTheTokens
PROPERTIES
  FillsTheBuffer
