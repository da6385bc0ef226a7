SPECIFICATION FairSpec
CONSTANT Container = {c1, c2}
INVARIANTS
  TypeOK
  NeverRemoveThroughMount
  ResultIsTrue
  ResidueExplained
PROPERTIES
  UnlinkComesLast
  EveryCallReturns
  ImplementsPromise
