SPECIFICATION Spec
CONSTANTS
  Programs <- AllPrograms
  MaxAbove = 4
INVARIANTS
  FramesAreShown
  KeepsWhatIsAbove
  LeavesTheTerminal
CHECK_DEADLOCK FALSE
