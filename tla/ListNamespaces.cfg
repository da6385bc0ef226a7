CONSTANTS
  Families = {"doubles"}
  Scenarios <- MCScenarios
SPECIFICATION Spec
INVARIANT AllNamespacesListed
