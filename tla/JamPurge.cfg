SPECIFICATION MCSpec
CONSTANTS
  Headers <- MCHeaders
  NoHeader = NoHeader
  Dword = 8
  Msgs <- MCMsgs
  Areas <- MCAreas
  LastReads <- MCLastReads
  FirstMsg = 5
  LastDay = 2
  MaxCrashes = 2
INVARIANTS TypeOK ActiveMsgsDrift MarkedBeforeCleared Enforced
PROPERTY ImplementsPurge
