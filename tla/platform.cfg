SPECIFICATION MeetingSpec
ACTION_CONSTRAINT StaysMeeting
CONSTANTS
    Commands = {"c1", "c2"}
    CommandLines <- EveryLine
    Catalogs = {0, 1, 3}
    MaxToken = 3
    MaxListPages = 2
    MaxVersion = 1
INVARIANTS
    TypeOK
    VerdictsTrue
    ClusterBacked
    ListComplete
PROPERTIES
    NoReversal
    CommandsEnd
CHECK_DEADLOCK FALSE
