CONSTANTS
  ip1 = ip1
  ip2 = ip2
  mac1 = mac1
  octets0 = octets0
  obj1 = obj1
  obj2 = obj2
  ai0 = ai0
  v0 = v0
  v1 = v1
  none = none
  Nothing = octets0
  AnalogInput0 = ai0
  IpPort <- MCIpPort
  MstpMac <- MCMstpMac
  Network <- MCNetwork
  Object <- OneObject
  Request <- MstpClient
  Lifetime <- MCLifetime
  MaxLifetime = 2
  MAX_COV_SUBCRIPTIONS = 1
  MAX_COV_ADDRESSES = 1
  MAX_TSM_TRANSACTIONS = 1
  MaxInvokeID = 3
  ApduRetries = 1
  DefaultLink = "bip"
  TsmTimerRuns = FALSE
  Value <- MCValue
  InitialValue = v0
  NoValue = none
  AnswersLost = FALSE
  AnswersPrompt = TRUE
  SendMayFail = FALSE
SPECIFICATION NSpec
PROPERTY EventuallyTold
CHECK_DEADLOCK FALSE
