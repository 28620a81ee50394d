SPECIFICATION FairSpec
CONSTANTS
  Accounts = {1}
  Interval = 2
  Fallback = 1
  TimerLimit = 2
  Mutes = {1, 2}
  MaxTime = 2
  MaxRuns = 2
  MaxEvents = 3
  FirstRows = {"active", "inactive", "error"}
  FirstAnswers = {"ok", "muted", "dead"}
INVARIANT HoldFollowedUp
PROPERTIES StopIsFinal HoldsEnd
\* The process may have stopped.
CHECK_DEADLOCK FALSE
