SPECIFICATION Spec
CONSTANTS
  Evidence <- SameName
  Commands <- MountAll
INVARIANT OwnLayersMounted
