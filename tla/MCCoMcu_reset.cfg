SPECIFICATION Spec
CONSTANTS
  SeqMax = 3
  AckTimeout = 1
  MaxTries = 2
  TriesMod = 4
  Loops = {l1}
  Resets = {1}
  MaxDown = 2
  MaxUp = 2
  MaxLost = 2
  Wire = 1
PROPERTIES
  NoMessageThrownAway
