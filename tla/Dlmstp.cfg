CONSTANTS
  DLMSTP_MAX_INFO_FRAMES = 2
  Nmax_info_frames = 1
  Unsigned = 4
  Request <- SameID
  DefaultLink = "bip"
SPECIFICATION Spec
INVARIANTS TypeOK LinkOfCaller PacketsApart
PROPERTIES ImplementsQueue QueueDrains
