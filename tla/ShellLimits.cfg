CONSTANTS
  sh = sh
  p1 = p1
  p2 = p2
  p3 = p3
  p4 = p4
  r1 = r1
  e1 = e1
  e2 = e2
  e3 = e3
  e4 = e4
  e5 = e5
  w1 = w1
  f1 = f1
  f2 = f2
  f3 = f3
  Unset = Unset
  Redacted = Redacted
  Old = Old
  NoConfig = NoConfig
  Calls <- MCCalls
  Together <- MCShellOnly
  Shell = sh
  ChatCalls <- MCChatCalls
  Direct <- MCDirect
  Mocked <- MCMocked
  Resolutions <- MCResolutions
  ActiveOf <- MCActiveOf
  Edits <- MCEdits
  Overwrites <- MCOverwrites
  Fields <- MCFields
  PatchOf <- MCPatchOf
  Overridden <- MCOverridden
  MaxBytes = 3
  MaxOutput = 5
  MaxFaults = 1

SPECIFICATION ServicesSpec

INVARIANT OutputIsWithinLimits
