\* The answer of an earlier load replaces what a later load has brought.
SPECIFICATION FairSpec
CONSTANTS
  a = a
  b = b
  ns = ns
  Nothing = Nothing
  Names <- MCNames
  Namespaces <- MCNamespaces
  Keys <- Moves
  MaxLoads = 2
  MaxLists = 1
  MaxProbes = 1
  MaxTicks = 2
PROPERTY
  NeverOlder
CHECK_DEADLOCK FALSE
