CONSTANTS
  OtherMethods = {other}
  CardUndefined = none
  CardBack = back
  Card = {x, y}
  Chairs = {0, 1}
  Boards = {0, 5}
  Delays = {0, 4}
  MaxHands = 3
SPECIFICATION Spec
SYMMETRY Symmetry
INVARIANTS HeroFollowsTheCards ResetsKeepDistance HistoryIsOfThisHand HandIsResetOnce
