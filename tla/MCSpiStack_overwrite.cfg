SPECIFICATION Spec
CONSTANTS
  LastAddress = 1
  MasterSeqMax = 7
  SlaveSeqMax = 3
  EnumSlaves = {1}
  Receivers = {1}
  Senders = {1}
  MaxDown = 3
  MaxUp = 1
  MaxBurst = 1
PROPERTIES
  NothingSkippedDown
