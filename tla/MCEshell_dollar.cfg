\* A line with a '$' that is followed by a space, a newline or nothing.
CONSTANTS
    Words <- MCWords
    Width <- MCWidth
    Lines <- MCDollarLines
    Dirs <- MCDirs
    BUF_SIZE = 24
    MaxLines = 2
    NULL = NULL
    STDOUT = STDOUT

SPECIFICATION Spec

PROPERTY EveryLineAnswered

\* The shell ends on "exit", at end of input, and on a failed assert.
CHECK_DEADLOCK FALSE
