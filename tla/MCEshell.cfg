CONSTANTS
    Words <- MCWords
    Width <- MCWidth
    Lines <- MCLines
    Dirs <- MCDirs
    BUF_SIZE = 24
    MaxLines = 3
    NULL = NULL
    STDOUT = STDOUT

SPECIFICATION Spec

INVARIANT TypeOK
INVARIANT ArgvFits
INVARIANT ParseMatchesReference
INVARIANT ChildSetup

\* The shell ends on "exit", at end of input, and on a failed assert.
CHECK_DEADLOCK FALSE
