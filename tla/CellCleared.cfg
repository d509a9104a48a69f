SPECIFICATION Spec
CONSTANTS
  Programs <- ClearedProgram
  MaxAbove = 4
INVARIANT KeepsWhatIsAbove
CHECK_DEADLOCK FALSE
