SPECIFICATION Spec
CONSTANTS
  Evidence <- Roots
  Commands <- AllCommands
INVARIANTS
  TypeOK
  LayersAreOwn
  EachIsServed
  IntactIsFound
PROPERTY CommandReturns
