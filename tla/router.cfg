SPECIFICATION Spec
CONSTANTS
  Accounts = {a1, a2}
  NoAccount = none
  Requests = {r1, r2}
  AccountConcurrency = 1
  QueueMaxDepth = 1
  AccountReserve = 0
  UsageReserve = 0
  DailyLimit = 0
  Kinds = {"invalid_media_input", "provider_expert_busy", "provider_rate_limited", "provider_account_suspended", "provider_authentication_failed", "provider_unavailable", "provider_rejected_request"}
  MaxInterventions = 1
SYMMETRY Symmetry
INVARIANTS PermitsFollowRequests
PROPERTIES SentToEligibleAccount EveryGateIsAPool
