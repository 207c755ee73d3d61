SPECIFICATION FrSpec
CONSTANTS
  FrSize = 9
  FrMin = 4
  FrMax = 5
  FrUpLength = 5
  FrDownLength = 4
  FrTimeout = 2
  FrLooks <- FrSomeLooks
  FrSteady = TRUE
  FrMaxUp = 2
  FrMaxDown = 1
  FrMaxDamage = 1
PROPERTIES
  MessageGetsThrough
