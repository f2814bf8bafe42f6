SPECIFICATION MCSpec
CONSTANTS
    Auths = {"ukrbv", "trivial"}
    Nested = FALSE
    MaxConns = 2
    MaxCalls = 4
INVARIANTS  ChecksumsAgree RunsAsLoggedIn CancelNoticed
    Intact InStep WindowsNext
PROPERTIES Returns Answered
