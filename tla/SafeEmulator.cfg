SPECIFICATION FairSpec
CONSTANTS
  a = a
  b = b
  c = c
  Callers = {a, b, c}
  Nobody = Nobody
  Methods <- OneOfEach
  MaxEffects = 2
  Readers = {"away", "absent"}
INVARIANTS TypeOK RaceFree PasteIsWhole
PROPERTIES CallsReturn CloseReleases
CHECK_DEADLOCK FALSE
