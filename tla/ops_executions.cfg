SPECIFICATION FairSpec
ACTION_CONSTRAINT StaysMeeting
CONSTANTS
    Commands = {"c1", "c2", "c3"}
    Grants = {"g1"}
    CommandLines <- AllLines
    ReasonFlag = FALSE
    MaxCallbacks = 2
INVARIANTS
    ResumesTakeEffectOnce
PROPERTIES
    CommandsEnd
CHECK_DEADLOCK FALSE
