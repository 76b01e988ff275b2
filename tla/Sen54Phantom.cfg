SPECIFICATION Spec
CONSTANTS
  Command <- EnableOnly
  Interval <- MCInterval
  FactoryInterval = 604800
  Fault <- NoFault
  Measured <- MCMeasured
  ResetKeepsInterval = TRUE
  LateErrors = FALSE
  MaxWrites = 1
  MaxFails = 0
  MaxFaults = 0
  MaxReboots = 0
INVARIANT NoPhantomError
