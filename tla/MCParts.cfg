SPECIFICATION PartsSpec
CONSTANTS
  LastAddress = 2
  MasterSeqMax = 1
  SlaveSeqMax = 3
  EnumSlaves = {}
  Receivers = {1}
  Senders = {2}
  MaxDown = 2
  MaxUp = 1
  MaxBurst = 1
  FrSize = 9
  FrMin = 4
  FrMax = 5
  FrUpLength = 5
  FrDownLength = 4
  FrTimeout = 2
  FrLooks <- FrPlainLooks
  FrSteady = TRUE
  FrMaxUp = 2
  FrMaxDown = 1
  FrMaxDamage = 1
  Size = 4
  Byte = {b1, b2}
  MaxOverflows = 2
  LgSlaves = 2
  LgMaxSent = 2
  LgMaxDamage = 2
  LgAckDamage = FALSE
  TwMaxBytes = 3
  TwMaxCalls = 4
  TwUnresponsive = TRUE
  XcMaxStrap = 1
  XcMaxLoad = 2
  XcChunks = {0, 1, 2}
  BkPortCount = 2
  BkSelectable = {1}
  BkHasCoMcu = TRUE
  BkReadFails = TRUE
  BkMaxRequests = 2
  BkMaxResets = 1
CHECK_DEADLOCK FALSE
INVARIANTS
  PartsTypeOK
  LegacyExactlyOnce
  HandlerHasTransfer
  FlashedAsSent
  DrivenAlone
  AnnouncedToAsker
PROPERTIES
  DownLink
  DownDelivered
  UpDelivered
  IsFifo
  
  EveryBrickletAnnounced
