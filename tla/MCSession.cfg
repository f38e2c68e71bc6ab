\* Every key, every screen: the safety of the session.
SPECIFICATION Spec
CONSTANTS
  a = a
  b = b
  ns = ns
  Nothing = Nothing
  Names <- MCNames
  Namespaces <- MCNamespaces
  Keys <- AllKeys
  MaxLoads = 2
  MaxLists = 1
  MaxProbes = 1
  MaxTicks = 2
SYMMETRY Symmetry
INVARIANTS
  TypeOK
  HeaderMatchesSnapshot
  PodsHaveSnapshot
  WaitingHasLoad
  LoadingIsReal
  PinnedStays
  ListedIsProbed
PROPERTIES
  FailureKeepsSnapshot
  EnterStartsClean
  EscCloses
\* Quitting stops the program.
CHECK_DEADLOCK FALSE
