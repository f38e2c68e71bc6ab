\* All pods of up to four containers, in every order.
SPECIFICATION Spec
CONSTANTS
  Kinds <- MCKinds
  Amounts <- MCAmounts
  MaxContainers = 4
INVARIANT PeakReserved
\* The computation ends.
CHECK_DEADLOCK FALSE
