SPECIFICATION FairSpec
CONSTANT MaxAttempts = 3
INVARIANTS PermitsSpanRequest LogTellsTheTruth HealthNeedsContent
PROPERTIES NoFailoverOnceCommitted EveryRequestEnds EveryLeaseReturned
\* An answered request stops, and so does a process that died.
CHECK_DEADLOCK FALSE
