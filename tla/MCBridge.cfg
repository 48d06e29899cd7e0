SPECIFICATION Spec
CONSTANTS
  r1 = r1
  r2 = r2
  u = u
  Request <- MCRequest
  Receiver <- MCReceiver
  Actions <- MCActions
  AmountWord = 2
SYMMETRY AnyRequest
INVARIANTS
  MintsAreBacked
  PaymentsAreRecorded
  RemovalsAreFinal
PROPERTIES
  RemovedIsNeverPaid
  Implements
