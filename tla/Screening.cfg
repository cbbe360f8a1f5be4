SPECIFICATION Spec
CONSTANTS
  p = p
  q = q
  Symbol = {p, q}
  Request <- Requests
  Market <- Markets
  Price = {1, 2, 3}
  Verdict <- Example
  Need <- Needs
  Floated = {p}
  MaxCandles = 4
  DetailFloor = 3
  MinDead = 2
  Spacing <- Spacings
  Start <- Begin
  MaxNow = 6
INVARIANTS ScanExact DetailAgrees
CHECK_DEADLOCK FALSE
