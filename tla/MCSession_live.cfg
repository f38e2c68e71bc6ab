\* Every command comes back: nothing waits, loads or spins for ever.
SPECIFICATION FairSpec
CONSTANTS
  a = a
  b = b
  ns = ns
  Nothing = Nothing
  Names <- MCNames
  Namespaces <- MCNamespaces
  Keys <- Moves
  MaxLoads = 1
  MaxLists = 1
  MaxProbes = 1
  MaxTicks = 2
PROPERTIES
  WaitingEnds
  LoadingEnds
  ProbesEnd
  SpinnerStops
\* Quitting stops the program.
CHECK_DEADLOCK FALSE
