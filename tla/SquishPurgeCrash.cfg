SPECIFICATION MCCrashSpec
CONSTANTS
  Frames <- MCFrames
  Dword = 8
  XMsgs <- MCXMsgs
  Areas <- MCAreas
  LastReads <- MCLastReads
  LastDay = 2
  MaxCrashes = 2
INVARIANT CrashRecovers
PROPERTY UnsentKept
CHECK_DEADLOCK FALSE
