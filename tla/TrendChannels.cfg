SPECIFICATION Spec
CONSTANTS
  Missing = Missing
  Shapes <- MCShapes
  Span = 2
  MaxBars = 9
  AreaRules <- MCAreaRules
  Axis <- MCAxis
CONSTRAINT OneSided
CHECK_DEADLOCK FALSE
INVARIANTS ShownIsTrue NoSignalAfterBreak AreasMirrored
PROPERTY ShownStays
