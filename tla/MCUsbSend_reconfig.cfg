SPECIFICATION Spec
CONSTANTS
  MaxMessages = 2
  Large = {1}
  MaxResets = 0
  MaxSuspends = 0
  ResumeResets = TRUE
  MaxReconfigs = 1
  MidMessage = TRUE
PROPERTIES
  FreedWhenSent
