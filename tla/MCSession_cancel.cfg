SPECIFICATION Spec
CONSTANTS
    Auths = {"ukrbv", "trivial"}
    Nested = TRUE
    MaxConns = 2
    MaxCalls = 4
INVARIANTS CancelNoticed
