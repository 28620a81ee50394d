SPECIFICATION FairSpec
CONSTANTS
  Links = {1}
  Lifetime = 1
  MaxPending = 1
  MaxChecks = 2
  MaxPolls = 2
  MaxTime = 1
  MaxEvents = 4
INVARIANT ToldOnceAndTruly
PROPERTY ConsoleLearns
\* The users may do nothing more.
CHECK_DEADLOCK FALSE
