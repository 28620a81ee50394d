SPECIFICATION FairSpec
CONSTANTS
  Accounts = {a1, a2}
  NoAccount = none
  Requests = {r1, r2}
  AccountConcurrency = 2
  QueueMaxDepth = 1
  AccountReserve = 1
  UsageReserve = 0
  DailyLimit = 1
  Kinds = {"provider_unavailable"}
  MaxInterventions = 0
PROPERTIES ReserveKept EveryRequestAnswered
