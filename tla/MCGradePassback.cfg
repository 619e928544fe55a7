\* Two tabs, two requests at a time, graded 0 or 1.
SPECIFICATION FairSpec
CONSTANTS
    Pages = {p1, p2}
    Calls = {r1, r2}
    Full = 1
    NoGrade = NoGrade
    NoCall = NoCall
    NoScore = NoScore
    Nothing = Nothing
INVARIANTS
    TypeOK
    OnceUnlessUnanswered
    GuardHasOneOwner
    CacheKnowsConfirmed
PROPERTY EveryPageIsAnswered
