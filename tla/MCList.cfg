CONSTANTS
    L1 = L1
    L2 = L2
    D1 = D1
    D2 = D2
    Lists <- MCLists
    Nodes <- MCNodes
    Data <- MCData
SYMMETRY MCSymmetry
SPECIFICATION Spec
INVARIANT TypeOK
INVARIANT Validate
INVARIANT NoLeak
INVARIANT FindsAgree
PROPERTY Refines
