\* One of the families at the end of MCControlFlow, with the property that is
\* named there: ContinueInWhile, TrailingEmptyCase, DefaultFirst, EmptyStatement,
\* AssignedComparison, NegatedComparison, EqualityOfComparison,
\* TwoCompoundAssignments; ConditionalOperation, with ConditionLevel = 3.
CONSTANTS
  Families <- AssignedComparison
  Values <- Three
  ConditionLevel = 10
SPECIFICATION Spec
INVARIANT BranchesFollowTheirCompare
