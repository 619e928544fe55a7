\* One moderator looking at a card while the author goes on.
SPECIFICATION DeskSpec
CONSTANTS
    Scenarios = {s1}
    Archives = {a, b}
    GradedArchives = {b}
    HandUrls = {}
    Authors = {alice}
    Moderators = {mia}
    Requests = {r1}
    MaxVersions = 3
    MaxVersionId = 2
    NoArchive = NoArchive
    NoOne = NoOne

PROPERTY PublishesWhatWasReviewed
