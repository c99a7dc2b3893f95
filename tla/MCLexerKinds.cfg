\* Texts beyond those of the run: FillsTheBuffer fails with CommentAhead, the
\* invariant DeliversTheTokens with BareComment.
CONSTANTS
  Sources <- CommentAhead
  Keywords <- If
  Letters <- TwoLetters
  Digits <- OneDigit
SPECIFICATION Spec
PROPERTY
  FillsTheBuffer
