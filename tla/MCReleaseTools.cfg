SPECIFICATION Spec
CONSTANTS
    old = old
    new = new
    lab = lab
    bench = bench
    legacy = legacy
    o1 = o1
    o2 = o2
    Instances = {old, new}
    Files <- MCFiles
    None = None
    Scenarios = {lab, bench, legacy}
    InRelease = {lab, bench}
    Metadata <- MCMetadata
    Objects <- MCObjects
    MaxOthers = 1
CONSTRAINT OneAtATime
INVARIANTS
    SchemaIsReady
    OneToolKey
    OkMeansPublished
    RegisteredManifestsResolve
PROPERTIES
    OnlyReplacedRowsAreDeleted
