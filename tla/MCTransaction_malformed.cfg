SPECIFICATION Spec
CONSTANTS
    d1 = d1
    d2 = d2
    s1 = s1
    Item <- OneData
    SchemaItem = {}
    Content = {0}
    Retargeted = {"data"}
    Limit = 0
    MaxDepth = 1
    MaxMinor = 1
    MaxMicro = 1
    Logging = TRUE
    Malformed = TRUE
INVARIANT IdleClean

