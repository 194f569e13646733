SPECIFICATION FairSpec
CONSTANTS
  turnA = turnA
  turnB = turnB
  other = other
  Views <- MCViews
  MyTurnViews <- MCMyTurnViews
  Screens <- MCScreens
  Popups = 3
  FrameDelay = 2
  ScrapeDelay = 1000
PROPERTY
  PrimaryNotStarved
