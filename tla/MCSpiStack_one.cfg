SPECIFICATION Spec
CONSTANTS
  LastAddress = 1
  MasterSeqMax = 3
  SlaveSeqMax = 7
  EnumSlaves = {1}
  Receivers = {1}
  Senders = {1}
  MaxDown = 2
  MaxUp = 2
  MaxBurst = 5
INVARIANTS
  TypeOK
  UnreadMessageIsSafe
  DownInv
PROPERTIES
  NothingStoredTwice
  UpLink
