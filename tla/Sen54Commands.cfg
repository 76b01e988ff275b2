SPECIFICATION Spec
CONSTANTS
  Command <- AllCommands
  Interval <- MCInterval
  FactoryInterval = 604800
  Fault <- NoFault
  Measured <- MCMeasured
  ResetKeepsInterval = FALSE
  LateErrors = FALSE
  MaxWrites = 2
  MaxFails = 1
  MaxFaults = 0
  MaxReboots = 0
INVARIANT FlagCoversSensor
PROPERTIES ResetOnlyWhenAsked AcceptedIntervalSet CommandsAcknowledged MeasurementStops
