SPECIFICATION AccessSpec
CONSTANTS
  Environment = env
  ClientKeys = {k1, k2}
  Secrets = {s1, s2}
  Minute = 2
  Day = 2
  Rates = {0, 2}
  Quotas = {2}
  Grace = {1}
  Lifetimes = {2}
  Policies <- MCPolicies
  Addresses <- MCAddresses
  Models <- MCModels
  UsageWindows = {1, 2}
  DailyLimit = 2
  BootRate = 1
  BootQuota = 1
  MaxTime = 2
  MaxRequests = 2
  MaxChanges = 2
VIEW AllButAnswer
SYMMETRY Symmetry
PROPERTIES LimitsFollowHistory UsageWindowKept EntryFollowsPolicy
CHECK_DEADLOCK FALSE
