SPECIFICATION Spec
CONSTANTS
    Runs = {r1, r2}
    Releases <- MCReleases
SYMMETRY MCSymmetry
INVARIANTS SafeToReRun
CHECK_DEADLOCK FALSE
