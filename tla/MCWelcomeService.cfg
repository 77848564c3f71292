SPECIFICATION ServiceSpec
CONSTANTS
    a1 = a1
    a2 = a2
    Addresses = {a1, a2}
    Requests = {r1, r2}
    Tasks = {r1, r2}
    Malformed = {}
    MaxRetry = 0
    Concurrency = 1
    Bodies <- MCBodies
    DriftedUsers = {}
    NotJSON = NotJSON
    NoRow = NoRow
    NoResponse = NoResponse
SYMMETRY MCSymmetry
INVARIANTS
    ServiceTypeOK
    TaskOfCommittedUser
    ClosedIsUnused
    ServedWithWorker
PROPERTIES KeepsPromise
