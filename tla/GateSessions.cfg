SPECIFICATION Spec
CONSTANTS
  Session = {s1}
  Entry = {e1, e2, e3}
  Symbol = {a}
  Scope = {x, y}
  Client = {c1, c2}
  NoClient = NoClient
  NoRow = NoRow
  TTL = 1
  MaxTime = 2
SYMMETRY EntrySymmetry
INVARIANTS AnsweredOnce FaithfulHandover SessionAccountedFor
PROPERTY OneTimeSpec
CHECK_DEADLOCK FALSE
