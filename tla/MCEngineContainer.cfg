SPECIFICATION Spec
CONSTANTS
  delay = delay
  raise = raise
  loop = loop
  hand = hand
  odds = odds
  ini = ini
  turn = turn
  memory = memory
  round = round
  after = after
  none = none
  Functions <- MCFunctions
  Engines = {1, 2, 3, 4, 5, 6}
  Calls <- MCCalls
  Reads <- MCReads
  DummyFunction = none
  MaxDepth = 4
  NumEngines = 6
  Collection = 2
  Roots <- MCRoots
  Decision <- MCDecision
  AfterAction = after
  MaxAborts = 2
INVARIANTS
  TypeOK
  StaleOnlyBelowEarlyRoots
  NeverOlderThanLastPass
  EventFunctionsRanOnce
PROPERTIES
  NoRefusalInHeartbeat
  PassEnds
CHECK_DEADLOCK FALSE
