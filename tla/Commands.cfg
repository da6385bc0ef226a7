CONSTANTS
  Families = {"image", "support", "elsewhere", "cgroups"}
  Scenarios <- MCScenarios
SPECIFICATION Spec
INVARIANTS
  TypeOK
  ListsExactly
  RowsBacked
  RootsBelong
  EachServed
  MountPointsApart
  FoundIfKnown
