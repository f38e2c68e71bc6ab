\* backspace takes half a character.
SPECIFICATION Spec
CONSTANTS
  Spelling <- MCSpelling
  Wide <- MCWide
  Items <- MCItems
  Statuses <- MCStatuses
  Chars <- MCChars
  MaxRows = 3
  MaxFilter = 2
  Page = 2
PROPERTY
  BackspaceWidens
