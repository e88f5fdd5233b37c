\* The processes end, or wait for a connection that never comes.
CHECK_DEADLOCK FALSE
SPECIFICATION ServersSpec
INVARIANTS
  ReadyMeansListening
  NothingLeftOver
PROPERTY
  BothEnd
