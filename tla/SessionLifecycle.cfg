\* Starts, stops and clients of one session, with a queue of two tasks.
SPECIFICATION FairSpec
CONSTANTS
  b1 = b1
  QueueLimit = 2
  Callers = {b1}
  MaxClient = 2
  MaxEnd = 4
  Budgets <- Bounds
CHECK_DEADLOCK FALSE
INVARIANTS TypeOK NoStall InOrder ConnectedIsCurrent ForegroundIsActive TerminatingIsOwed
PROPERTIES TasksEnd
