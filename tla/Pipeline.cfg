SPECIFICATION Spec
CONSTANTS
    Archives <- MCArchives
    Drives <- MCDrives
    NoName <- MCNoName
    MaxExtracted = 4
    MaxFile = 2
    MaxFiles = 3
    MaxRatio = 2
    MaxDepth = 2
    SkipDirectories <- MCSkipDirectories
    AlwaysRead <- MCAlwaysRead
    SkippedNames <- MCSkippedNames
    SourceNames <- MCSourceNames
    BinaryNames <- MCBinaryNames
    MaxRead = 1
    Registry <- MCRegistry
    Catalogue <- MCCatalogue
    NoFile = "no file"
    MaxFindings = 2
    MaxChurnFiles = 1
    MaxChanges = 1
INVARIANTS
    DiskWithinLimits
    EveryEntryAccounted
    WorstSurvivesTheCut
    CapIsExplained
    AcceptingNeverLowersScore
    FilesAtTheLimitAreTaken
    HistoryIsOfTheWorst
CHECK_DEADLOCK FALSE
