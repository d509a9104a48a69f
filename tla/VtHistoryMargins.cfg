CONSTANTS
  Sizes <- Square
  Counts = {1, 2}
  TopMargins = {0, 1}
  Past = 1
  Limits = {1}
  DefaultScrollbackSize = 2
  MaxWrites = 3
  LogOnly = FALSE
  Groups = {"lr"}
SPECIFICATION Spec
INVARIANTS
  TypeOK
  WrittenOnce
PROPERTIES
  ScrollingConserves
