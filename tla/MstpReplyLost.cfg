CONSTANTS
  DLMSTP_MAX_INFO_FRAMES = 1
  Nmax_info_frames = 2
  Unsigned = 4
  Request <- OneRequest
  DefaultLink = "bip"
SPECIFICATION Spec
PROPERTY PostponedReplyComes
