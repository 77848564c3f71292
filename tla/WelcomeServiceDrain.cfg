SPECIFICATION ServiceSpec
CONSTANTS
    a1 = a1
    a2 = a2
    Addresses = {a1, a2}
    Requests = {r1}
    Tasks = {r1}
    Malformed = {}
    MaxRetry = 2
    Concurrency = 1
    Bodies <- MCBodies
    DriftedUsers <- MCDrifted
    NotJSON = NotJSON
    NoRow = NoRow
    NoResponse = NoResponse
PROPERTIES NoTaskDuringWorkerDrain
