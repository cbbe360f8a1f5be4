SPECIFICATION FairSpec
CONSTANTS
  Scan = {a, b}
  ScanId = {i}
  IdOf <- OneId
  NoScan = NoScan
  Socket = {v}
  TopicOf <- OneTopic
  Pipeline <- TwoPipelines
  Symbols = 2
  Concurrency = 1
INVARIANT RequestsKept
PROPERTIES  EverythingEnds GoneIsForgotten
CHECK_DEADLOCK FALSE
