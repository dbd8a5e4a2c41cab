CONSTANTS
  a1 = a1
  a2 = a2
  a3 = a3
  r1 = r1
  s1 = s1
  NoAppend = NoAppend
  Unread = Unread
  Appends <- MCAppends
  Reads <- MCReads
  Sessions <- MCSessions
  SessionOf <- OneSession
  MaxTears = 1
  MaxCrashes = 1

SPECIFICATION StoreSpec

INVARIANTS
  OneLossPerTear
  ReadsFollowCalls

PROPERTY ImplementsLog
