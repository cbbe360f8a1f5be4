SPECIFICATION Spec
CONSTANTS
  Missing = Missing
  Family <- MCAllFamily
  Shapes <- MCAllShapes
  Longest <- MCAllLongest
  Line <- MCLine
  InteractionRules <- MCInteractionRules
  WindowRules <- MCWindowRules
  RespectRules <- MCRespectRules
  Channels <- MCChannels
  Confluences <- MCConfluences
  Axis <- MCAxis
  LongLsma = 3
  ShortLsma = 2
  Smoothing = 1
  HullRoot = 1
  EmaWarmup = 1
  EmaMostHistory = 500
  Span = 2
  Asks <- MCAsks
CHECK_DEADLOCK FALSE
INVARIANTS RespectsDistinct StreakExact
PROPERTIES ConfluenceFresh StopTrails EventsAge ReportedOnce SidesAlike NothingRepainted HistorySuffices StickerTrue
