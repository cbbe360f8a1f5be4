SPECIFICATION Spec
CONSTANTS
  a = a
  b = b
  Symbol = {a, b}
  Timeframe <- Timeframes
  Wanted = {1, 3, 12}
  Clock <- Clocks
  Listing <- Listings
  MaxCandles = 12
  Chunk = 2
  Week = 3
  Rest = 1
  Month = 4
  MonthFactor <- ByMarket
  Padding <- Padded
  PaddingShare = 4
  MaxSource = 15
  EndOfDayOnly = FALSE
  MaxFailures = 1
  Nothing = Nothing
INVARIANTS BucketsExact PayloadIsRecent AnswersSettled HistoryWhole
CHECK_DEADLOCK FALSE
