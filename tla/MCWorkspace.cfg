CONSTANTS
    docA = docA
    docB = docB
    docC = docC
    Keys <- MCKeys
    Files <- MCFiles
    Texts <- MCTexts
    Names <- MCNames
    Writes <- MCWrites
    Elsewhere = Elsewhere
    NoKey = NoKey
    NoTable = NoTable
    BadFragment = "bad"
    Fragments = {"h"}
    DocumentLists <- MCDocumentLists
    RootLists <- MCRootLists
    ManagedLists <- MCManagedLists
    Metadata <- MCMetadata
    Words <- MCWords
    BadText = "bad"
    MaxWrites = 1
    Registrations <- MCRegistrations
    ExtensionLimits <- MCExtensionLimits
    Matches <- MCMatches
    SourceLength = 2
SPECIFICATION SessionSpec
INVARIANTS GraphExact ReportExact RepairsConverge TraversalsExact KnowledgeExact WithinLimits
