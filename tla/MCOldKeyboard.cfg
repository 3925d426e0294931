CONSTANTS
    W = 3
    H = 2
    Printable = {"a", "A", "4", "N", "T"}
    BLANK = BLANK
    BIOS = BIOS
    Seconds = {0, 1}
    TimeText <- MCTimeText
    TimeClear = 2
    MaxLog = 4
    Kbdus <- MCKbdus
    KbdseShift <- MCKbdseShift
    NotImpl <- MCNotImpl
SPECIFICATION KSpec
INVARIANT TypeOK
INVARIANT ScreenShowsLog
INVARIANT ModsHeld
