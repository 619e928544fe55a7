\* One scenario with a history of four uploads, two authors, two uploads in flight,
\* a moderator with a card.
SPECIFICATION DeskSpec
CONSTANTS
    Scenarios = {s1}
    Archives = {a, b}
    GradedArchives = {b}
    HandUrls = {a}
    Authors = {alice, bob}
    Moderators = {mia}
    Requests = {r1, r2}
    MaxVersions = 2
    MaxVersionId = 4
    NoArchive = NoArchive
    NoOne = NoOne
SYMMETRY Symmetry
INVARIANTS
    TypeOK
    OneCurrentOnePending
    
    
    VersionsComeFromOwners
    
PROPERTIES NothingEntersUnderReview ProposalDecisionIsOnTheCard 
