SPECIFICATION Spec
CONSTANTS
  Evidence <- MixedEvidence
  Commands <- MixedCommands
  MaxChain = 4
INVARIANT LayersAreOwn
