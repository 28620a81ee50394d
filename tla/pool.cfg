\* One acquire awaits, another request releases, a third is queued behind.
SPECIFICATION FairSpec
CONSTANTS
  Requests = {r1, r2, r3}
  Ttl = 1
  MaxSessions = 2
  MaxTime = 2
INVARIANTS ExclusiveLease NoLeakedEntry NoForgottenSession
PROPERTY AcquireAnswered
