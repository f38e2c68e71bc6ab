\* Cursor, window and layout under keys, new data and resizing.
SPECIFICATION Spec
CONSTANTS
  Heights <- MCHeights
  Headers <- MCHeaders
  MaxRows = 6
  MaxGroups = 5
INVARIANTS
  TypeOK
  HighlightOnScreen
  WindowFull
  BoxesFit
PROPERTIES
  PagingSkipsNothing
