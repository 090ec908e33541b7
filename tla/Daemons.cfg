SPECIFICATION FairSpec
CONSTANTS
    old = old
    new = new
    command = command
    Proc <- MCProc
    Server = {old, new}
    Client = {command}
    NoServer = NoServer
    Port <- MCPort
    Requests = {0, 3}
    LAST = 2
    DROPS = 1
    Messages = {1, 2}
    Stored = {2}
    BATCH_SIZE = 1
    MaxKills = 1
INVARIANTS
    SchemaInOrder
    SocketLeadsToDaemon
    CommandsAnswer
    ExportMissesNothing
PROPERTIES
    EverythingEnds
CHECK_DEADLOCK FALSE
