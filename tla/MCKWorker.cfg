CONSTANTS
    W = W
    I1 = I1
    I2 = I2
    I3 = I3
    WL <- W
    Nodes <- MCNodes
    Items <- MCItems
    Prio <- MCPrio
    RemoveAtomic = TRUE
SPECIFICATION Spec
INVARIANT TypeOK
INVARIANT ItemLifecycle
PROPERTY Refines
