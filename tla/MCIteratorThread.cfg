SPECIFICATION FairThreadSpec
CONSTANTS
  ace = ace
  king = king
  nothing = nothing
  Views <- MCViews
  MyTurnViews <- MCMyTurnViews
  Screens <- MCScreens
  Popups = 1
  FrameDelay = 1
  ScrapeDelay = 3000
  Cards = {ace, king, nothing}
  NoCards = nothing
  CardsIn <- MCCardsIn
  ButtonsIn <- MCButtonsIn
  Iterations = 2
  EnhancedCards = {ace, king}
  Collisions = {king}
INVARIANT
  DecidesOnResults
PROPERTIES
  RecalcReturns
  TurnIsAnswered
