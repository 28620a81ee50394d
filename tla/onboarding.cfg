SPECIFICATION FairSpec
CONSTANTS
  Links = {1, 2}
  Lifetime = 1
  MaxPending = 1
  Identities = {"x", "y"}
  NoIdentity = "none"
  FirstIdentities = {"x"}
  BundleSize = 2
  MaxCalls = 2
  MaxTime = 1
  MaxEvents = 3
INVARIANTS IdentitiesUnique OneAccountPerLink
PROPERTY LinkSettles
CHECK_DEADLOCK FALSE
