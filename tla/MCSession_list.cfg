\* The error of the context list outlives a refresh that succeeds.
SPECIFICATION FairSpec
CONSTANTS
  a = a
  b = b
  ns = ns
  Nothing = Nothing
  Names <- MCNames
  Namespaces <- MCNamespaces
  Keys <- Moves
  MaxLoads = 2
  MaxLists = 1
  MaxProbes = 1
  MaxTicks = 2
PROPERTY
  RefreshShowsList
CHECK_DEADLOCK FALSE
