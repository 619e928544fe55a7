SPECIFICATION Spec
CONSTANTS
    Scenarios = {s1, s2}
    Titles = {t1, t2}
    MaxChanges = 1
    MaxRequests = 1
    None = None
SYMMETRY Interchangeable
INVARIANTS
    PanelsSpeakOfTheirScenario
PROPERTIES
    NewestAnswersWin
    
