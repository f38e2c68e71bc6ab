\* One collection, all interleavings, failures and the deadline.
SPECIFICATION FairSpec
CONSTANTS
  Pages <- MCPages
INVARIANTS
  TypeOK
  QuietAfterReturn
  WholeLists
  NoFailureLost
PROPERTIES
  PromiseKept
  Returns
