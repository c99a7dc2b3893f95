CONSTANTS
  Families <- AllFunctions
  Values <- Three
  ConditionLevel = 10
SPECIFICATION Spec
INVARIANTS
  TypeOK
  GroupsAsC
  FollowsTheSource
  TargetsInserted
  BranchesFollowTheirCompare
  TablesAreLeftEmpty
  ReturnComesLast
PROPERTIES
  KeepsObserving
