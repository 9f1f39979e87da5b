CONSTANTS
    Rates <- SomeRates
    Delays = {10, 70}
    Jumps <- SomeJumps
    MaxDrift = 44000
    MaxEvents = 2
    None = None
SPECIFICATION FairSpec
PROPERTIES
    PagesCatchUp
    FailureClears
