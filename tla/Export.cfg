SPECIFICATION FairSpec
CONSTANTS
  c1 = c1
  c2 = c2
  x1 = x1
  x2 = x2
  web = web
  none = none
  None = None
  ID = {c1, c2}
  Mountpoint = {m1, m2, m3}
  MaxStuck = 1
  Setups <- ExportSetups
INVARIANTS
  TypeOK
  FilesHoldOwn
  MountsAccounted
  NilMeansExported
  SelectionIsExported
PROPERTY CommandReturns
