SPECIFICATION Spec
INVARIANTS
    HeapIsDispatchQueue
    UnzipReadsBack
    PipedOrNamedAlike
    AverageOfBatch
    ConfigInAnyOrder
    StartedAsGiven
    TypedAndBatchAgree
    OnlyEmptyCommandsAbort
    RedirectionsAsWritten
    CdAndDirFollowThePath
CHECK_DEADLOCK FALSE
CONSTANTS
    a = a
    b = b
    nul = nul
    usage = usage
    cannot_open = cannot_open
    UsageEntries <- MCUsageEntries
    CannotOpenEntries <- MCCannotOpenEntries
    Usage <- MCUsage
    CannotOpen <- MCCannotOpen
    NotANumber = NotANumber
    Zero = nul
    Names = {"a", "b"}
    Missing = Missing
    Directories <- MCDirectories
    Home <- MCHome
    NoFile = NoFile
    NextFile = NextFile
    Newline = Newline
    ByteSize = 4
    MAX_INT = 100000
    Skipped <- MCSkipped
    Stoi <- MCStoi
    ConfigVars <- MCConfigVars
    Inputs <- MCInputs
    Longest <- MCLongest
    Terms <- MCTerms
    Dictionaries <- MCDictionaries
    Failures <- MCFailures
