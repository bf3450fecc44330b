CONSTANTS
    Docs <- MCDocs
    Contents <- MCContents
    Parent <- MCParent
    Markdown <- MCMarkdown
    LimitChoices <- MCLimits
    Other = Other
    Elsewhere = Other
    Root = 0
    MaxEdits = 1
SPECIFICATION Spec
INVARIANTS WalkOrder NeverMissed StaticAnswer
PROPERTIES ImplementsCrawl
CHECK_DEADLOCK FALSE
