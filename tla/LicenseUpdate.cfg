\* Runs over two overlapping directories, stopped and started again.
SPECIFICATION Spec
CONSTANTS
  Tree <- MCTree
  Roots <- MCRoots
  Texts <- MCTexts
  Patterns <- MCPatterns
  Paths <- MCPaths
  MaxSaves = 1
  MaxStops = 1
INVARIANTS
  TypeOK
  BodiesKept
  DoneMeansLicensed
  AntConvention
PROPERTY OnlySourcesChange
