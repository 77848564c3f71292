SPECIFICATION DeploymentSpec
CONSTANTS
    a1 = a1
    Addresses = {a1}
    Runs = {c1, c2}
    Requests = {r1, r2}
    Releases <- MCReleases
    CreateUsers = 1
    Bodies <- MCBodies
    DriftedUsers = {}
    NotJSON = NotJSON
    NoRow = NoRow
    NoResponse = NoResponse
SYMMETRY MCSymmetry
INVARIANTS
    DeploymentTypeOK
    TrackedIsApplied
    DoneIsMigrated
    StatusIsTrue
    RacesAreRepeatable
    RecordedIsUnique
CHECK_DEADLOCK FALSE
