SPECIFICATION Spec
SYMMETRY Interchangeable
CONSTANTS
    Requests = {r1, r2}
    Emails = {"ana", "leo"}
    Known = "ana"
    Invited = "leo"
    MaxAttempts = 2
    MaxUsers = 3
    MaxCalls = 3
    MaxOverlaps = 1
    MaxFaults = 1
    MaxLapses = 1
INVARIANTS
    TypeOK
    RotatedOnce
    CodesHoldOut
    InvitationsAreSingle
    ErasedIsGone
    NoStrandedAccount
CHECK_DEADLOCK FALSE
