SPECIFICATION CliSpec
CONSTANTS
    alice = alice
    bob = bob
    carol = carol
    demoUsers <- MCDemoUsers
    Seeds = {s1, s2}
    Client = Client
    NoRow = NoRow
    Required = {"DB_NAME"}
    Unset = Unset
    Invocations <- MCInvocations
    NoInvocation = NoInvocation
SYMMETRY MCSymmetry
INVARIANTS
    CliTypeOK
    DoneIsSeeded
    CountIsInserted
    DestructionIsDevOnly
    WipesAreMeant
CHECK_DEADLOCK FALSE
