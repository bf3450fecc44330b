CONSTANTS
    Nul = "nul"
    ReplacementCharacter <- MCReplacementCharacter
    InitialTexts <- EscapedTexts
    ItemFragments <- MCItemFragments
    ItemContents <- MCItemContents
    RowFragments <- MCRowFragments
    NewColumns <- MCNewColumns
    CellContents <- MCCellContents
    Paragraphs <- MCParagraphs
    QuotedLines <- MCQuotedLines
    FenceContents <- MCFenceContents
    Infos <- MCInfos
    KeyBytes <- MCKeyBytes
    Keys <- MCKeys
    Values <- MCValues
    MaxEdits = 1
SPECIFICATION Spec

PROPERTIES  EditsOneTable
CHECK_DEADLOCK FALSE
