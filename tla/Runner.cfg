CONSTANTS
  t1 = t1
  t2 = t2
  k1 = k1
  s1 = s1
  NoTurn = NoTurn
  Turns <- MCTurns
  Keys <- MCKeys
  KeyOf <- OneKey
  Sessions <- MCSessions
  SessionOf <- OneSession
  HasTimeout <- MCFirst
  HasSignal <- MCFirst
  MaxFaults = 2

SPECIFICATION FairRunnerSpec

INVARIANTS
  CancelledLeavesNoSuccess
  EnvelopeAgrees
  OkIsDurable
  ContextComplete
  CallIsAuditedOnce

PROPERTIES
  LateAnswerIsDropped
  TimeoutFreesTheQueue
