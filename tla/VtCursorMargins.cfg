CONSTANTS
  Sizes <- WideAndTall
  Params = {0, 1, 2, 3, 9}
  Margins = {0, 1, 2, 3}
  CellWidths = {0, 1}
  Groups = {"lr"}
SPECIFICATION Spec
INVARIANTS
  TypeOK
  CursorOnScreen
  NoSelfOverwrite
PROPERTIES
  RelativeStaysInRows
