CONSTANTS
  t1 = t1
  t2 = t2
  k1 = k1
  s1 = s1
  NoTurn = NoTurn
  Turns <- MCTurns
  Keys <- MCKeys
  KeyOf <- OneKey
  Sessions <- MCSessions
  SessionOf <- OneSession
  HasTimeout <- MCTurns
  HasSignal <- MCFirst
  MaxFaults = 1

SPECIFICATION RunnerSpec

INVARIANT CancelledAuditsNoSuccess
