SPECIFICATION DeviceSpec
CONSTANTS
  t1 = t1
  t2 = t2
  ask = ask
  partner = partner
  e1 = e1
  e2 = e2
  l1 = l1
  l2 = l2
  mail = mail
  m1 = m1
  m2 = m2
  Layers = {"vault", "connection", "wakeup", "linking", "history"}
  Tab = {t1, t2}
  MaxLdks = 2
  MaxIdentities = 2
  MaxUpheavals = 2
  Asked = {ask}
  Linked = {partner}
  MaxSockets = 3
  MaxStray = 1
  Endpoint = {e1, e2}
  Line = {l1, l2}
  Name = {mail}
  MaxSubs = 1
  Fresh = 2
  EnvelopeTtl = 1
  SeenTtl = 1
  SubTtl = 2
  MaxTime = 3
  MaxToggles = 1
  Blocks = 3
  MaxSeq = 5
  MaxPending = 1
  MaxCodes = 2
  MaxRelay = 2
  MaxSeals = 2
  FreshIds = TRUE
  Msg = {m1, m2}
  Batch = 1
INVARIANTS
  DeviceTypeOK
  RestoreRepublishes
  LinkArrives
  FileIsNotTorn
PROPERTIES
  KeepsItsIdentity
  PageIsAnswered
  MailIsAnnounced
  ImportLosesNothing
CHECK_DEADLOCK FALSE
