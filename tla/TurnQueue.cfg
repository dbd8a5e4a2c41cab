CONSTANTS
  t1 = t1
  t2 = t2
  t3 = t3
  t4 = t4
  n1 = n1
  n2 = n2
  NoTurn = NoTurn
  Blank = Blank
  Turns <- MCTurns
  Names <- MCNames
  Spellings <- MCSpellings
  InputOf <- MCInputOf
  KeyOf <- MCKeyOf
  Keys <- MCKeys

SPECIFICATION MicrotaskSpec

INVARIANTS
  QueueTypeOK
  FifoOrder
  EntryIsLastPending
  ConversationsApart

PROPERTIES
  ImplementsFifo
  HeadOfLineStarts
