\* 5 callers, 2 permits, 2 places: two hold, two wait, one is turned away.
SPECIFICATION Spec
CONSTANTS
  Callers = {c1, c2, c3, c4, c5}
  Limit = 2
  MaxQueue = 2
INVARIANTS PermitsAccounted NoIdlePermit QueuesExact
PROPERTIES NoOvertaking ImplementsPermitPool ForegroundServed EveryWaiterSettles
