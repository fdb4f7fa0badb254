SPECIFICATION AccountsSpec
CONSTANTS
  a = a
  b = b
  k1 = k1
  k2 = k2
  i1 = i1
  i2 = i2
  Admin = Admin
  Id = {a, k1, k2}
  Code = {i1}
  MaxOutstanding = 1
  MaxChain = 2
  MaxDevices = 3
  Device = {a}
  Key = {k1, k2}
  Fallible = {"listing", "rotating", "relisting", "joining"}
  Version = {1}
  MaxVersion = 1
  MaxWire = 1
  Breakable = {"listing", "rotating", "relisting"}
  None = None
  p1 = p1
  p2 = p2
  p3 = p3
  Layers = {"accounts"}
  Person = {p1, p2, p3}
  Inviter = p1
  Joiner = {p2}
  Rotation <- TheJoinerRotates
  Ttl = 1
  PurgeDelay = 0
  MaxDismissals = 1
  MaxParked = 1
  MaxClock = 3
  MaxMishaps = 1
INVARIANT
  RunAgainIsSafe
CHECK_DEADLOCK FALSE
