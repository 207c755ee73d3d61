SPECIFICATION FairSpec
CONSTANTS
  MaxMessages = 2
  Large = {}
  MaxResets = 0
  MaxSuspends = 1
  ResumeResets = FALSE
  MaxReconfigs = 0
  MidMessage = FALSE
PROPERTIES
  AcceptedIsSent
