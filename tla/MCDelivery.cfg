SPECIFICATION FairSpec
CONSTANTS
  Runs = {r1, r2}
  RootRuns = {r1}
  RootWaiters = {w1}
  MemberWaiters = {w2}
  Statuses = {completed, cancelled}
  NoResult = NoResult
  Cancelled = cancelled
  NoRun = NoRun
CHECK_DEADLOCK FALSE
INVARIANTS
  DeliveredOnce
  ClaimsHeld
PROPERTIES
  WaiterReturns
  DeliveredUnlessGivenUp
