SPECIFICATION Spec
CONSTANTS
  d1 = d1 d2 = d2 text = text image = image s1 = s1 s2 = s2
  None = None Dead = Dead
  Devices <- Two
  Contents <- Copied
  Large <- Images
  Sessions <- TwoSessions
  Ends <- Between
  Marking <- Two
  MaxTime = 2
  MaxInbox = 1
  MaxAnnounced = 2
  MaxEvents = 1
INVARIANTS
  TypeOK Agreement
PROPERTIES
  LastWriterWins
SYMMETRY Alike
CHECK_DEADLOCK FALSE
