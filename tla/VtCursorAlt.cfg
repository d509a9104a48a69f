CONSTANTS
  Sizes <- Narrow
  Params = {0, 1, 9}
  Margins = {0, 1, 2}
  CellWidths = {1}
  Groups = {"alt", "save", "tabs"}
SPECIFICATION Spec
PROPERTIES
  ScreenIsolation
