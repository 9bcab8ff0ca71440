CONSTANTS
  alice = alice
  bob = bob
  Devs = {alice, bob}
  HasKeys = {alice}
  Reconciling = {bob}
  MaxClock = 2
  MaxRuns = 4
SPECIFICATION Spec
INVARIANT TypeOK
INVARIANT NoCommitLost
INVARIANT RunDelivers
PROPERTY MainOnlyGrows
PROPERTY DivergenceIsPermanent
CHECK_DEADLOCK FALSE
