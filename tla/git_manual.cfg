CONSTANTS
  alice = alice
  bob = bob
  Devs = {alice, bob}
  HasKeys = {alice}
  Reconciling = {}
  MaxClock = 2
  MaxRuns = 3
SPECIFICATION Spec
CHECK_DEADLOCK FALSE
INVARIANT PullNeedsNobody
