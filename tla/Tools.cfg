CONSTANTS
  c1 = c1
  o1 = o1
  o2 = o2
  o3 = o3
  r1 = r1
  w1 = w1
  n1 = n1
  n2 = n2
  NoFile = NoFile
  Original = Original
  Calls <- MCCalls
  Creates <- MCCreates
  Overwrites <- MCOverwrites
  Reads <- MCReads
  WebCalls <- MCWebCalls
  Together <- MCTogether
  Names <- MCNames
  MaxFaults = 1

SPECIFICATION ToolsSpec

INVARIANTS
  ClosedOnce
  PublishedAsRecorded
  FileIsWhole

PROPERTY EffectsArePermitted
