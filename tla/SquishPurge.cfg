SPECIFICATION MCSpec
CONSTANTS
  Frames <- MCFrames
  Dword = 8
  XMsgs <- MCXMsgs
  Areas <- MCAreas
  LastReads <- MCLastReads
  LastDay = 2
  MaxCrashes = 0
INVARIANTS TypeOK ListSound Enforced
PROPERTY ImplementsPurge
