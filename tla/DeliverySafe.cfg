SPECIFICATION BoundedSpec
CONSTANTS
  a = a
  b = b
  m1 = m1
  m2 = m2
  c1 = c1
  Device = {a, b}
  Text = {m1, m2}
  Control = {c1}
  From <- AllFromA
  To <- AllToB
  Via <- ControlOpensItsOwn
  Target <- DeletesM1
  Ephemeral = {m2}
  Malformed = {}
  MaxQueued = 2
  PoisonMax = 2
  MaxBreaks = 1
  MaxFrames = 3
  MayAge = {}
INVARIANTS
  Custody
  ExactlyOnce
  DeleteWins
PROPERTIES
  DecidedRightly
CHECK_DEADLOCK FALSE
