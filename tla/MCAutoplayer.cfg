SPECIFICATION FairSpec
CONSTANTS
  turnA = turnA
  turnB = turnB
  other = other
  Views <- MCViews
  MyTurnViews <- MCMyTurnViews
  Screens <- MCScreens
  Popups = 3
  FrameDelay = 2
  ScrapeDelay = 750
INVARIANTS
  ActsOnStableView
PROPERTIES
  PrimaryNotStarved
  PopupsTakeTurns
