SPECIFICATION Spec
CONSTANTS
  Areas <- MCAreas
  Lists <- MCLists
  None = None
  Configs <- MCConfigs
  CommandLines <- MCCommandLines
  MaxLines = 2
INVARIANTS TypeOK FreshListed
PROPERTY RemovedWhenRead
