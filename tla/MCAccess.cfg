\* One key beside the bootstrap code, two requests of the tab at once.
SPECIFICATION Spec
CONSTANTS
    Keys = {key}
    Bootstrap = Bootstrap
    Wrong = Wrong
    NoCode = NoCode
    Address = Address
    Calls = {r1, r2}
    Limit <- MCLimit
    Window = 2
    MaxTime = 2
CONSTRAINT QuietWhileTimePasses
SYMMETRY Interchangeable
INVARIANTS
    GuessesAreBounded
    IdentityIsTheCodes
PROPERTIES
    SessionsEndForAReason
