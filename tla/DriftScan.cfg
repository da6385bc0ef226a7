SPECIFICATION Spec
CONSTANTS
  Node <- Nodes
  DiffDir = "root"
  FileSystems <- AllSystems
INVARIANTS
  TypeOK
  ReportedExactlyOnce
  WellClassified
PROPERTY ScanReturns
