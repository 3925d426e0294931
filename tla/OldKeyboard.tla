---------------------------- MODULE OldKeyboard ----------------------------
(***************************************************************************)
(* The first keyboard driver, src/kernel/keyboard.c, echoing through the   *)
(* console of src/lib/monitor.c.  keyboard_callback runs in the IRQ1       *)
(* handler behind an interrupt gate (flags 0x8e, idt.c), so each call is   *)
(* one step; between calls the console may be cleared or the clock drawn  *)
(* (their callers are not in the tree and are taken to run with            *)
(* interrupts off).  The keyboard is the environment: it sends the make    *)
(* code of any modelled key, the break code of a key that is down, and     *)
(* the 0xe0 prefix.  held is a history of the modifier keys that are down *)
(* (a break code of any other key may come at any time).                   *)
(***************************************************************************)
EXTENDS Monitor, Bitwise

CONSTANTS
    Kbdus,        \* kbdus[], restricted to the modelled make codes
    KbdseShift,   \* kbdse_shift[], the same keys
    NotImpl       \* printk's text for "Not implemented (scancode = %02x)\n"

LSHIFT == \h2a
RSHIFT == \h36
CTRL == \h1d
ALT == \h38
ModKeys == {LSHIFT, RSHIFT, CTRL, ALT}
Keys == DOMAIN Kbdus \cup ModKeys
Break(k) == k + \h80
Scancodes == Keys \cup {Break(k) : k \in Keys} \cup {\he0}

NUL == "NUL"   \* a zero entry of a keymap

ASSUME /\ DOMAIN KbdseShift = DOMAIN Kbdus
       /\ \A k \in DOMAIN Kbdus : {Kbdus[k], KbdseShift[k]} \subseteq Printable \cup {NUL, NL, BS, TAB}
       /\ NotImpl \in Seq(Printable \cup {NL})

VARIABLES
    mod_keys,   \* the static keyboard_mod_state: shift, ctrl, alt
    held        \* (history) the modifier keys that are down

kvars == <<mod_keys, held>>
allvars == <<vars, kvars>>

(* The switch at 128-160: the modifier make and break codes set or clear *)
(* their byte and return; any other code leaves them alone.              *)
ModifierUpdateLeftOnly(m, sc) ==
    CASE sc \in {LSHIFT, RSHIFT} -> [m EXCEPT !.shift = 1]
      [] sc = Break(LSHIFT)      -> [m EXCEPT !.shift = 0]
      [] sc = CTRL               -> [m EXCEPT !.ctrl = 1]
      [] sc = Break(CTRL)        -> [m EXCEPT !.ctrl = 0]
      [] sc = ALT                -> [m EXCEPT !.alt = 1]
      [] sc = Break(ALT)         -> [m EXCEPT !.alt = 0]
      [] OTHER                   -> m

ModCodes == ModKeys \cup {Break(k) : k \in ModKeys}

ModifierUpdate(m, sc) ==
    CASE sc \in {LSHIFT, RSHIFT}               -> [m EXCEPT !.shift = 1]
      [] sc \in {Break(LSHIFT), Break(RSHIFT)} -> [m EXCEPT !.shift = 0]
      [] sc = CTRL                             -> [m EXCEPT !.ctrl = 1]
      [] sc = Break(CTRL)                      -> [m EXCEPT !.ctrl = 0]
      [] sc = ALT                              -> [m EXCEPT !.alt = 1]
      [] sc = Break(ALT)                       -> [m EXCEPT !.alt = 0]
      [] OTHER                                 -> m

(* 162-189 for a code that is not a modifier: a make code with no        *)
(* modifier echoes kbdus[], with shift alone kbdse_shift[], with ctrl or  *)
(* alt "Not implemented"; a break code and a zero entry echo nothing.     *)
Echo(m, sc) ==
    LET make == (sc & \h80) = 0
        c == IF m.shift = 0 THEN Kbdus[sc] ELSE KbdseShift[sc]
    IN  CASE ~make -> <<>>
          [] m.alt = 1 \/ m.ctrl = 1 -> NotImpl
          [] c = NUL -> <<>>
          [] OTHER -> <<c>>

(* keyboard_callback (111-190): the 0xe0 prefix is ignored, a modifier   *)
(* code updates mod_keys, any other code is echoed with printk.          *)
KeyboardCallback(sc) ==
    CASE sc = \he0 -> UNCHANGED <<vars, mod_keys>>
      [] sc \in ModCodes ->
            /\ mod_keys' = ModifierUpdate(mod_keys, sc)
            /\ UNCHANGED vars
      [] Echo(mod_keys, sc) = <<>> -> UNCHANGED <<vars, mod_keys>>
      [] OTHER ->
            /\ Printk(Echo(mod_keys, sc))
            /\ UNCHANGED mod_keys

(* The keyboard sends a make code (also again while the key is down, as  *)
(* typematic repeat does) or the break code of a key that is down, each  *)
(* raising IRQ1.                                                          *)
Press(k) ==
    /\ Len(log) < MaxLog
    /\ held' = IF k \in ModKeys THEN held \cup {k} ELSE held
    /\ KeyboardCallback(k)

Release(k) ==
    /\ k \in held \cup DOMAIN Kbdus /\ Len(log) < MaxLog
    /\ held' = held \ {k}
    /\ KeyboardCallback(Break(k))

Prefix ==
    /\ Len(log) < MaxLog
    /\ KeyboardCallback(\he0)
    /\ UNCHANGED held

KInit ==
    /\ Init
    /\ mod_keys = [shift |-> 0, ctrl |-> 0, alt |-> 0]
    /\ held = {}

KNext ==
    \/ \E k \in Keys : Press(k) \/ Release(k)
    \/ Prefix
    \/ Clrscr /\ UNCHANGED kvars
    \/ \E t \in Seconds : PrintTime(t) /\ UNCHANGED kvars

(* No fairness: nobody has to type, clear the screen or draw the clock. *)
KSpec == KInit /\ [][KNext]_allvars

(* A modifier byte that is set has one of its keys down: every break     *)
(* code of a modifier key clears the byte its make code set.              *)
ModsHeld ==
    /\ mod_keys.shift = 1 => held \cap {LSHIFT, RSHIFT} # {}
    /\ mod_keys.ctrl = 1 => CTRL \in held
    /\ mod_keys.alt = 1 => ALT \in held

=============================================================================
