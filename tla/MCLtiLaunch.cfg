SPECIFICATION Spec
CONSTANTS
    Clients = {moodle}
    Deployments = {d1, d2}
    Jars = {window, frame}
    Scenarios = {optics}
    Logins = {l1, l2}
    StateTtl = 1
    SessionTtl = 1
    MaxTime = 2
    MaxHandshakes = 2
    NoOne = NoOne
INVARIANTS
    OneSessionPerLogin
    SessionFollowsItsLogin
PROPERTIES
    LoginsDoNotClobber
