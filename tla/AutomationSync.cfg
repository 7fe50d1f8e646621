CHECK_DEADLOCK FALSE
SPECIFICATION Spec
CONSTANTS
  Jobs <- Declared
  None = None
  MaxNative = 2
  MaxMishaps = 2
INVARIANTS
  TypeOK
  OneEnabled
  RunsOncePerTrigger
PROPERTIES
  AdmitsCurrent
  Converges
