SPECIFICATION FrSpec
CONSTANTS
  FrSize = 140
  FrMin = 11
  FrMax = 83
  FrUpLength = 11
  FrDownLength = 83
  FrTimeout = 2
  FrLooks <- FrOneLook
  FrSteady = FALSE
  FrMaxUp = 1
  FrMaxDown = 2
  FrMaxDamage = 0
INVARIANTS
  NoOverflow
