CONSTANTS
  c1 = c1
  c2 = c2
  u1 = u1
  u2 = u2
  l1 = l1
  s1 = s1
  s2 = s2
  NoFile = NoFile
  Scrap = Scrap
  Sessions <- MCSessions
  SessionOf <- MCSessionOf
  Creates = {c1, c2}
  Touches = {u1}
  Notes = {u2}
  Lists = {l1}
  Callings <- MCCallings
  MaxCrashes = 1

SPECIFICATION SessionSpec

INVARIANTS
  ReportsAreTrue
  ListIsComplete
  TimestampsMatchEdits

PROPERTY ImplementsRecords
