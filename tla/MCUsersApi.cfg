SPECIFICATION ApiSpec
CONSTANTS
    a1 = a1
    a2 = a2
    Addresses = {a1, a2}
    Requests = {r1, r2, r3}
    Bodies <- MCBodies
    DriftedUsers <- MCDrifted
    NotJSON = NotJSON
    NoRow = NoRow
    NoResponse = NoResponse
SYMMETRY MCSymmetry
INVARIANTS
    ApiTypeOK
    UniqueEmail
    AnswerMatchesStore
    ConflictIsReal
    StoredUserLoads
CHECK_DEADLOCK FALSE
