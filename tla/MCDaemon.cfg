SPECIFICATION GoodNetSpec
CONSTANTS
  Seats = {1, 2}
  NoSeat = 99
  HasToken = TRUE
  TurnClock = TRUE
  MaxTurns = 2
  MaxLate = 1
  MaxKills = 1
INVARIANTS
  TypeOK
  DecisionMeetsItsTurn
  StoppedHasLeft
  DryRunOnlyWatches
PROPERTIES
  SignalStops
  TurnsArePlayed
