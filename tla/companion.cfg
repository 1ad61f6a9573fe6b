SPECIFICATION FairSpec
ACTION_CONSTRAINT OneOrOther
CONSTANTS
    MaxDenials = 2
    MaxRetries = 1
    MaxQuestions = 2
    MaxCalls = 2
    MaxSessions = 2
INVARIANTS
    TypeOK
    AnswersFollow
    LogKeepsHistory
    ToolsConfirmed
    GrantsWarned
PROPERTIES
    TurnsEnd
CHECK_DEADLOCK FALSE
