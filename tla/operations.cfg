SPECIFICATION Spec
CONSTANTS
  Retention = 1
  MaxAge = 1
  MaxTime = 2
  MaxWrites = 1
  MaxBackups = 1
  MaxChecks = 3
  MaxReleases = 1
  MaxReboots = 1
INVARIANTS BackupsStand AlertsFollowStatus
PROPERTY DeployedAfterBackup
\* The bounds end the run.
CHECK_DEADLOCK FALSE
