SPECIFICATION UsbSpec
CONSTANTS
  MaxMessages = 3
  Large = {2, 3}
  MaxResets = 2
  MaxSuspends = 1
  ResumeResets = TRUE
  MaxReconfigs = 1
  MidMessage = FALSE
  MaxSent = 3
  Long = {2}
  Requests = {"DESCRIPTOR", "UNKNOWN", "HALT"}
  MaxEvents = 2
  WakeAt = 2
  Interrupted = FALSE
INVARIANTS
  UsbTypeOK
  BufferKept
  BankInStep
PROPERTIES
  FreedWhenSent
  ReceivedInOrder
  AcceptedIsSent
  RoutedInOrder
  RequestAnswered
  AcknowledgedIsRouted
  FirstConnectionAnnounced
  WakesThePC
