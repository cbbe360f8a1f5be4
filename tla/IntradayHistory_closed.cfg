SPECIFICATION Spec
CONSTANTS
  Trading <- MCTrading
  Wanted = {1, 2, 5}
  Ratio = 2
  DayBars = 4
  Open = 1
  SessionBars = 3
  Bar = 2
  Buffer = 1
  MaxCandles = 5
  SourceCap = 7
  MinPadding = 1
  MinPage = 2
  MaxPage = 4
  Stretch = 2
  StretchMin = 1
  MaxPages = 2
  Attempts = 2
  MaxTime = 19
  Asked <- MCAsked
  Nothing = Nothing
INVARIANT ClosedIsFinal
