SPECIFICATION Spec
CONSTANTS
  Characters <- Letters
  Space <- Whites
  Boundaries <- SmallBoundaries
  Inputs <- SmallInputs
  Configurations <- SmallConfigurations
INVARIANTS
  NothingLost
  ChunksFit
PROPERTIES
  EverySliceAdvances
  SlicesReachFurther
