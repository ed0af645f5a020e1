\* Two processes that claim, renew and take over, with commits that stay in the
\* database after their call has failed.  No symmetry: a temporal property.
CONSTANTS
  h1 = h1
  h2 = h2
  Holders = {h1, h2}
  Ids = {1, 2, 3, 4}
  LeaseDuration = 2
  RenewBefore = 1
  ClaimAttempts = 2
  MaxRevision = 2
  MaxTime = 2
  MaxInFlight = 2
SPECIFICATION FairSpec
INVARIANTS EpochsDisjoint LeaseIdsOnce FencedIsCurrent OneServer
PROPERTIES WritesFollowEpochs ImplementsRegister ImplementsOwnership CallReturns
\* Every process may crash, and the bounds stop the clock.
CHECK_DEADLOCK FALSE
