CONSTANTS
  N = 3
  Listed <- MCListed
  Actual <- MCActual
  Configs <- MCConfigs
SPECIFICATION Spec
INVARIANTS
  TypeOK
  StatusTrue
  NoStagingLeft
  RecordedArePlaced
  ReturnHonest
  StopsInTime
PROPERTY ImplementsCycle
