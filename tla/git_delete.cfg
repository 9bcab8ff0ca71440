CONSTANTS
  alice = alice
  bob = bob
  Devs = {alice, bob}
  HasKeys = {alice}
  Reconciling = {}
  MaxClock = 2
  MaxRuns = 2
SPECIFICATION Spec
CHECK_DEADLOCK FALSE
PROPERTY DeletedAfterMerging
