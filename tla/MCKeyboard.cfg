CONSTANTS
    d = d
    D = D
    one = one
    bang = bang
    EOT = EOT
    KEYBUFFER_SIZE = 2
    NUM_VIRTUAL_CONSOLES = 2
    MaxScancodes = 6
    Keys <- MCKeys
    Chars <- MCChars
    KbdMix <- MCKbdMix
    KbdShift <- MCKbdShift
    KbdAlt <- MCKbdAlt
SPECIFICATION Spec
INVARIANT TypeOK
INVARIANT KeysInOrder
INVARIANT ModsHeld
INVARIANT NoKeyBeforeKeybuffer
CHECK_DEADLOCK FALSE
