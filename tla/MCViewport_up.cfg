\* After data with fewer rows the up key may leave the highlight where it is.
SPECIFICATION Spec
CONSTANTS
  Heights <- MCHeights
  Headers <- MCHeaders
  MaxRows = 6
  MaxGroups = 5
INVARIANT
  UpMoves
