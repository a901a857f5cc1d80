CONSTANTS
    Ids = {1, 2}
    MaxLen = 2
SPECIFICATION IntakeSpec
INVARIANT AcceptedReportsRepeatNothing
CHECK_DEADLOCK FALSE
