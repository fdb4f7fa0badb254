SPECIFICATION BoundedSpec
CONSTANTS
  a = a
  b = b
  c = c
  i1 = i1
  i2 = i2
  Admin = Admin
  Id = {a, b, c}
  Code = {i1, i2}
  MaxOutstanding = 1
  MaxChain = 2
  MaxDevices = 2
  Version = {1, 2}
  MaxVersions = 2
  None = None
SYMMETRY Interchangeable
INVARIANTS
  AccountsArePaidFor
  RotationsArrive
PROPERTIES
  RetiredByItsOwn
CHECK_DEADLOCK FALSE
