SPECIFICATION MCContactsSpec
CONSTANTS
  hello = hello
  w1 = w1
  w2 = w2
  n1 = n1
  n2 = n2
  Layers = {"contacts", "screens", "bubbles"}
  Words = {hello}
  MaxNow = 2
  MaxCuts = 1
  MaxEdits = 1
  MaxEvents = 3
  Window = {w1, w2}
  Page = {w1, w2}
  MaxClosings = 1
  Note = {n1, n2}
  MaxClears = 2
  MaxLeaves = 1
INVARIANTS
  ContactsAndScreensTypeOK
  ChangesFinish
  WindowsAgree
PROPERTIES
  NothingComesBack
  MarkersClear
CHECK_DEADLOCK FALSE
