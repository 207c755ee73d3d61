SPECIFICATION FairSpec
CONSTANTS
  SeqMax = 3
  AckTimeout = 1
  MaxTries = 1
  TriesMod = 2
  Loops = {l1}
  Resets = {1}
  MaxDown = 2
  MaxUp = 2
  MaxLost = 2
  Wire = 1
INVARIANTS
  FirstMessageForwarded
PROPERTIES
  DownDelivered
  UpForwarded
