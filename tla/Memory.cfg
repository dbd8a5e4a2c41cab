CONSTANTS
  w1 = w1
  w2 = w2
  w3 = w3
  s1 = s1
  root = root
  day1 = day1
  day2 = day2
  memory = memory
  Volatile = memory
  Writes <- MCWrites
  Searches <- MCSearches
  Foreign = {w2}
  Quoting = {w2}
  Scenarios <- MCScenarios
  Days <- MCDays
  Limit = 2
  MaxTears = 1
  MaxFaults = 1

SPECIFICATION MemorySpec

INVARIANTS
  SearchIsComplete
  OnlyDamageFailsSearch

PROPERTY WritesAreApproved
