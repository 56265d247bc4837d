\* One node and three clients for one deposit, one of them without a recipient; the
\* pool holds less than the two deliveries; two restarts.
SPECIFICATION S2ESpec
CONSTANTS
  r1 = r1
  n1 = n1
  b1 = b1
  q1 = q1
  q2 = q2
  RequestId = {r1}
  Node = {n1}
  Poster = {q1, q2}
  Unaddressed = {b1}
  Amount <- MCAmount
  EvmDecimals = 6
  SolDecimals = 7
  Pool = 2
  MaxCrashes = 2
INVARIANTS
  S2ETypeOK
  DeliveriesArePosted
  
  RowsOfAnsweredCalls
PROPERTIES
  RowsFail
CHECK_DEADLOCK FALSE
