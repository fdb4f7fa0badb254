SPECIFICATION ConversationSpec
CONSTANTS
  alice = alice
  bob = bob
  hello = hello
  a1 = a1
  a2 = a2
  b1 = b1
  b2 = b2
  Own = {a1, a2}
  Theirs = {b1, b2}
  Writer = a1
  MaxCuts = 1
  Horizon = 1
  SeenIdTtl = 2
  QueueTtl = 3
  Interval = 1
  LastDay = 7
  Layers = {"copies"}
  Device = {alice, bob}
  Text = {hello}
  Author <- FromAlice
  MaxBook = 2
  AskAfter = 2
  Poison = 3
  MaxAsks = 2
  MaxResend = 1
  MaxLosses <- OneEach
  MaxDeletes = 1
  MaxSessions = 9
  MaxCrashes = 1
  MaxFaults = 2
  MaxSkip = 1
  KeyExpiry = 0
  MaxDay = 1
  SentByInitiator = 4
  SentByResponder = 2
  MaxSent <- Ends
INVARIANTS
  CancelledInTime
CHECK_DEADLOCK FALSE
