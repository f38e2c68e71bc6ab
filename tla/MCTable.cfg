\* Contexts, namespaces and pods under keys, probes and data in any order.
SPECIFICATION Spec
CONSTANTS
  Spelling <- MCSpelling
  Wide <- MCWide
  Items <- MCItems
  Statuses <- MCStatuses
  Chars <- MCChars
  MaxRows = 3
  MaxFilter = 1
  Page = 2
INVARIANTS
  TypeOK
  OrderIsRight
PROPERTIES
  OnlyChangedRowsMove
  ProbesKeepHighlight
