SPECIFICATION Spec
CONSTANTS
  Command <- EnableOnly
  Interval <- NoInterval
  FactoryInterval = 604800
  Fault <- MCFault
  Measured <- MCMeasured
  ResetKeepsInterval = FALSE
  LateErrors = TRUE
  MaxWrites = 2
  MaxFails = 6
  MaxFaults = 1
  MaxReboots = 1
INVARIANTS TypeOK NoPhantomError
PROPERTIES MeasurementResumes StatusShown
