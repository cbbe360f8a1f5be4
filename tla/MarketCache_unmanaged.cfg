SPECIFICATION Spec
CONSTANTS
  Key = {m, u}
  Managed = {m}
  Scan = {a}
  Worker = {w}
  NoRow = NoRow
  Deep = 2
  Close <- Bars
  Buffer = 0
  Backoff = 1
  Retention = 1
  BatchSize = 1
  History <- FullHistory
  Settling <- DailyStocks
  Refit = {0, 1}
  AllowStale = TRUE
  MaxStale = 2
  MaxTime = 2

INVARIANTS ManagedRowsPrunable CacheAnswersFit

CHECK_DEADLOCK FALSE
