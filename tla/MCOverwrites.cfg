CONSTANTS
  Remotes = {"r1", "r2"}
  Paths <- MCPaths
  Home <- MCHome
  Dated <- MCDated
  Candidates <- MCCandidates
  Data <- MCData
  Bytes <- MCBytes
  Brought <- MCBrought
  Cases <- MCHashCases
  MaxVersion = 2
SPECIFICATION Safe
INVARIANT NoUnrelatedOverwritten
