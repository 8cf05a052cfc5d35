\* One level, three updates, up to three of them held back.
SPECIFICATION Spec
CONSTANTS
  l1 = l1
  Level = {l1}
  Qty = {0, 1}
  NoId = NoId
  MaxId = 3
  MaxBuffer = 3
INVARIANTS
  TypeOK
  LiveBookIsExact
  UnsyncedShowsNothing
  InOrderBufferReplays
  ReplayIsTheLoop
PROPERTIES
  ColdStartOnlyOnce
  ImplementsMirror
CHECK_DEADLOCK FALSE
