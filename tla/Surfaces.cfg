SPECIFICATION Spec
CONSTANTS
    Rank <- MCRank
    Hex <- MCHex
    Schema <- MCSchema
    MaxNumber = 20
    MANY = 20
    DefaultLimit <- MCDefaultLimit
    ToolLimit <- MCToolLimit
    BATCH_SIZE = 2
    PreviewLen = 2
    NameStart = {"x", "y", "z", "w", "_"}
    NameRest = {"x", "y", "z", "w", "_", "1", "2", "DELETE", "SELECT"}
    IntegerTexts <- MCIntegerTexts
    RealTexts <- MCIntegerTexts
    Feed <- MCFeed
    Commands <- MCCommands
    Statements <- MCStatements
    Canned <- MCCanned
    GivenValues <- MCGivenValues
    Chb <- MCChb
INVARIANTS
    ModesAgree
    ToolsAgree
    TotalsAgree
    ViewsAgree
    PagesTile
    HistoryReplays
    StoredTextIsFound
    BindsAsNamed
CHECK_DEADLOCK FALSE
