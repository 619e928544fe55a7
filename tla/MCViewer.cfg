\* Two scenarios, one of them streamed; three loads in one or more visits.
SPECIFICATION Spec
CONSTANTS
    Scenarios = {optics, circuits}
    Streamed = {circuits}
    Queries <- MCQueries
    MaxLoads = 3
    NoScenario = NoScenario
INVARIANTS
    RunningIsWhatTheAddressSays
    HudSpeaksOfThisRun
    
PROPERTIES
    EveryLoadEnds
CHECK_DEADLOCK FALSE
