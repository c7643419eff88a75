SPECIFICATION Spec
CONSTANTS
  Wide = 512
  SectorBytes = 2
  LinkBytes = 1
  EntryBytes = 1
  Disks <- MCDisks
  Count <- MCCount
  Sectors <- MCSectors
  Boot <- MCBoot
  Link <- MCLink
  Raw <- MCRaw
  Byte <- MCByte
  Dot = "."
  TooLong = "long"
  None = "none"
  Names <- MCNames
  Paths <- MCPaths
  CatBuffer = 5
INVARIANTS
  TypeOK
  InsideVolume
  FileContents
  ListingExact
  ErrorsDeserved
  
  ErrorExplained
PROPERTIES
  CallReturns
