SPECIFICATION OneTextSpec
CONSTANTS
  a = a
  b = b
  m1 = m1
  m2 = m2
  c1 = c1
  Device = {a, b}
  Text = {m1, m2}
  Control = {}
  From <- AllFromA
  To <- AllToB
  Via <- EachItsOwn
  Target <- DeletesM1
  Ephemeral = {}
  Malformed = {m2}
  MaxQueued = 1
  PoisonMax = 2
INVARIANTS
  StatusIsEarned
PROPERTIES
  NothingGoesBack
  PathSettles
  ImplementsCourier
CHECK_DEADLOCK FALSE
