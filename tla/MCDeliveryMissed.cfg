SPECIFICATION Spec
CONSTANTS
  Runs = {r1}
  RootRuns = {r1}
  RootWaiters = {w1}
  MemberWaiters = {}
  Statuses = {completed, cancelled}
  NoResult = NoResult
  Cancelled = cancelled
  NoRun = NoRun
CHECK_DEADLOCK FALSE
INVARIANTS
  WaitObtainsResult
