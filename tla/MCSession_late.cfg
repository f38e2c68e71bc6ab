\* The answer of a context left behind replaces the one on display.
SPECIFICATION FairSpec
CONSTANTS
  a = a
  b = b
  ns = ns
  Nothing = Nothing
  Names <- MCNames
  Namespaces <- MCNamespaces
  Keys <- Moves
  MaxLoads = 2
  MaxLists = 1
  MaxProbes = 1
  MaxTicks = 2
PROPERTY
  OnlyEnterChangesContext
CHECK_DEADLOCK FALSE
