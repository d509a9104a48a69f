SPECIFICATION TermSpec
CONSTANTS
  copier = copier
  test1 = test1
  test2 = test2
  Callers = {copier, test1, test2}
  Nobody = Nobody
  Methods <- ProgramPrints
  MaxEffects = 2
  Readers = {"away"}
  Output = copier
  Requests = {"Snapshot", "Resize", "SendText", "SendKey", "Paste", "Close"}
  Cells = 2
INVARIANTS TermTypeOK OnlyCallbacksBlock
CHECK_DEADLOCK FALSE
