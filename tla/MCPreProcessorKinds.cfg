\* One of the families at the end of MCPreProcessor: ThreeParameters,
\* NestedParentheses, CalledTwice, LongerName, ParameterInName, EarlierMacro;
\* SelfMention, with PROPERTY Terminates in place of the invariant.
CONSTANTS
  Programs <- ThreeParameters
  Files <- Included
  Ids <- Names
  Letters <- UsedLetters
SPECIFICATION Spec
INVARIANT
  FinishedLinesAreExpanded
