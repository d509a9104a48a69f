SPECIFICATION Spec
CONSTANTS
  MaxParamsSize = 6
  DataSize = 8
  Flags = {}
  ColorSpecs <- MCSpecs
  Topics <- MCTopics
  MaxActs = 3
  Buttons = {"FROM_LEFT_1ST", "RIGHTMOST"}
  Strokes <- MCStrokes
  Strings <- MCStrings
  WindowSizes <- MCSizes
  MaxDoings = 5
  KittyKeys <- MCKittyKeys
  Alphabets <- MCAlphabets
  MaxTyped = 5
  MaxShifts = 4
  Pages <- AllPages
  WindowsOf <- AllWindows
INVARIANTS ProgramIsTold ConsoleIsRead MeaningsAgree ClicksFindElements ElementsAreWhole
CHECK_DEADLOCK FALSE
