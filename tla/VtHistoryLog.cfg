CONSTANTS
  Sizes <- Tall
  Counts = {1, 2}
  TopMargins = {0}
  Past = 1
  Limits = {1, 2}
  DefaultScrollbackSize = 2
  MaxWrites = 3
  LogOnly = TRUE
  Groups = {"resize", "alt"}
SPECIFICATION Spec
INVARIANTS
  ReadInOrder
PROPERTIES
  AlternateLeavesMain
  IsScrollLog
