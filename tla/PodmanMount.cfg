SPECIFICATION Spec
CONSTANTS
  Evidence <- Images
  Commands <- AllCommands
INVARIANTS
  TypeOK
  KeyIsMounted
  EachGetsItsTurn
  OwnUnderUniqueNames
