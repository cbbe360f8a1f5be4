SPECIFICATION Spec
CONSTANTS
  Key = {m}
  Managed = {m}
  Scan = {a, b}
  Worker = {w}
  NoRow = NoRow
  Deep = 2
  Close <- Bars
  Buffer = 0
  Backoff = 1
  Retention = 1
  BatchSize = 1
  History <- FullHistory
  Settling <- Settled
  Refit = {2}
  AllowStale = FALSE
  MaxStale = 2
  MaxTime = 2
SYMMETRY ScanSymmetry
INVARIANTS FreshIsCurrent NeverParked
PROPERTY PruneSparesAsked
CHECK_DEADLOCK FALSE
