SPECIFICATION FairSpec
CONSTANTS
    Attempts = {a1, a2}
    Calls = {c1}
    Limit = 2
    MaxFailures = 2
    None = None
INVARIANTS TypeOK OneReader OffIsOff JoiningIsUnderWay
PROPERTIES LiveComesBack
CHECK_DEADLOCK FALSE
