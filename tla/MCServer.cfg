SPECIFICATION MCSpec
CONSTANTS
    c1 = c1
    null = null
    absent = absent
    d1 = d1
    d2 = d2
    s1 = s1
    Item <- TwoAndSchema
    SchemaItem <- OneSchema
    Content = {0}
    Retargeted = {}
    Limit = 0
    MaxDepth = 2
    MaxMinor = 0
    MaxMicro = 1
    Logging = TRUE
    Malformed = FALSE
INVARIANTS NoPartialCall IdleClean  
  ItemsCurrent SchemaCurrent
PROPERTIES AtomicCalls  
