CONSTANTS
  Remotes = {"r1", "r2"}
  Paths <- MCPaths
  Home <- MCHome
  Dated <- MCDated
  Candidates <- MCCandidates
  Data <- MCData
  Bytes <- MCBytes
  Brought <- MCBrought
  Cases <- MCCases
  MaxVersion = 2
SPECIFICATION Spec
INVARIANTS
  TypeOK
  OverwritesExplained
  ManifestTruthful
  OnePathEach
PROPERTIES
  NeverRegresses
  Converges
