SPECIFICATION PagesSpec
CONSTANTS
    CatalogIds = {1, 2, 3}
    mech = mech
    optics = optics
    laser = laser
    TitleRank <- MCTitleRank
    Categories = {optics}
    CategoryOf <- MCCategoryOf
    OnShelf = {1, 2}
    Texts = {laser}
    Mentions <- MCMentions
    PageSize = 1
    All = All
    NoText = NoText
    MaxRequests = 3
    MaxLookups = 2
    MaxEdits = 1
INVARIANTS
    ListIsOfItsFilter
    DetailIsOfItsAddress
PROPERTIES
    EveryRequestEnds
CHECK_DEADLOCK FALSE
