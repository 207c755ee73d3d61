SPECIFICATION Spec
CONSTANTS
  SeqMax = 4
  AckTimeout = 1
  MaxTries = 2
  TriesMod = 4
  Loops = {l1}
  Resets = {}
  MaxDown = 5
  MaxUp = 3
  MaxLost = 1
  Wire = 1
INVARIANTS
  TypeOK
PROPERTIES
  DownLink
  UpLink
