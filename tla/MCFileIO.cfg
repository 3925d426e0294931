CONSTANTS
    A = A
    B = B
    F = F
    NULL = NULL
    MaxOpenFiles = 3
    NFiles = 2
    PathLen = 2
    Tokens <- MCTokens
    Dirs <- MCDirs
    Regs <- MCRegs
    InitrdMount <- MCInitrdMount
    FileName <- MCFileName
    FileLen <- MCFileLen
    NameLen <- MCNameLen
SPECIFICATION Spec
CHECK_DEADLOCK FALSE
INVARIANT TypeOK
INVARIANT HeldFdsLive
INVARIANT DirectoryListing
INVARIANT PwdIsDirectory
INVARIANT DirentLayoutFits
