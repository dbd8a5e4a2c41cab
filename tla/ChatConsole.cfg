CONSTANTS
  Closed = Closed
  MaxLines = 5

SPECIFICATION ConsoleSpec

INVARIANTS
  LinesInOrder
  HistoryIsApproved

PROPERTY CloseEndsTheLoop
