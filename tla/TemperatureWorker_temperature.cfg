SPECIFICATION Spec
CONSTANTS
  Retry = 2
  SlowStart = TRUE
INVARIANTS
  TypeOK
  ReadingsConfigured
  OneDevice
PROPERTY
  ReadingsReturn
