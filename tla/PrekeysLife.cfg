SPECIFICATION BoundedSpec
CONSTANTS
  alice = alice
  bob = bob
  Peer = {alice, bob}
  Batch = 1
  Threshold = 1
  MaxAvailable = 2
  Restorable = {alice}
  Evictable = {alice}
  Redeletable = {alice}
  MaxPairs = 5
  PairsWanted <- PairsOfScenes
  MaxWire = 1
  MaxInitials = 2
  Writers = {alice}
  MaxFaults <- FaultsOfScenes
  MaxMishaps = 1
INVARIANTS
  VendedOnce
  ServedIsHeld
  SureInitialsOpen
CHECK_DEADLOCK FALSE
