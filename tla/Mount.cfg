SPECIFICATION Spec
CONSTANTS
  Evidence <- SoundEvidence
  Commands <- SoundCommands
  MaxChain = 4
INVARIANTS
  TypeOK
  LayersAreOwnUnmixed
  OkAccounts
  ResolutionFinds
PROPERTY CommandReturns
