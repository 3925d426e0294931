------------------------------ MODULE Keyboard ------------------------------
(***************************************************************************)
(* The keyboard IRQ handler of src/src/kernel/keyboard.c (keyboard_callback) *)
(* together with the part of kmain (src/src/kernel/kmain.c) that prepares   *)
(* what the handler touches: the kernel console's key ring buffer, the IRQ1 *)
(* registration and the virtual consoles reached by Alt+F1..F4.             *)
(*                                                                         *)
(* The handler runs as one atomic step (an ISR on a single CPU).  The       *)
(* physical keyboard is the environment: a key press or release delivers   *)
(* its make or break scancode; a byte that arrives before IRQ1 has a       *)
(* handler is dropped.  The consumer of each console's ring buffer (the    *)
(* console's getchar) is not in the tree and is modelled as an environment  *)
(* action that takes the oldest character.                                 *)
(***************************************************************************)
EXTENDS Integers, Sequences, FiniteSets

CONSTANTS
    KEYBUFFER_SIZE,        \* slots of a console's struct ringbuffer
    NUM_VIRTUAL_CONSOLES,  \* consoles reachable with Alt+F1 ...
    Keys,                  \* make codes the modelled keyboard has
    Chars,                 \* characters the keymaps produce (model values)
    KbdMix, KbdShift, KbdAlt, \* the three keymaps restricted to Keys
    EOT,                   \* the character Ctrl+D produces (ASCII 4)
    MaxScancodes           \* bound on the bytes the keyboard sends

ASSUME /\ KEYBUFFER_SIZE \in Nat \ {0}
       /\ NUM_VIRTUAL_CONSOLES \in 1..4
       /\ Keys \subseteq 1..127
       /\ \A m \in {KbdMix, KbdShift, KbdAlt} : m \in [Keys -> Chars \cup {0}]

Consoles == 0..NUM_VIRTUAL_CONSOLES - 1
Slots == 0..KEYBUFFER_SIZE - 1
\* MOD_CTRL, MOD_SHIFT, MOD_ALT: the bits of mod_keys, kept as a set.
Mods == {"CTRL", "SHIFT", "ALT"}
\* The make codes that drive each modifier bit (left and right shift share one).
ModKeys == [m \in Mods |-> CASE m = "CTRL"  -> {\h1d}
                             [] m = "SHIFT" -> {\h2a, \h36}
                             [] m = "ALT"   -> {\h38}]
FKey(i) == \h3b + i                  \* F1 .. F4
Break(sc) == sc + \h80               \* release code of a key

VARIABLES
    boot,       \* number of kmain's keyboard-related steps done
    handler,    \* IRQ1 has keyboard_callback registered
    virt,       \* indices i with virtual_consoles[i] # NULL
    current,    \* current_console, as an index
    mod_keys,   \* the modifier keys the handler believes are held
    buf,        \* each console's struct ringbuffer
    last_call,  \* the scrollback_* routine the last hotkey called
    panic,      \* NULL, or why the handler stopped the machine
    down,       \* (environment) keys physically held
    sent,       \* (environment) scancodes sent so far
    typed,      \* (history) characters the handler stored, per console
    consumed    \* (history) characters the reader took, per console

kvars == <<boot, handler, virt, current, mod_keys, buf, last_call, panic,
           typed, consumed>>
vars == <<kvars, down, sent>>

NULL == "NULL"

\* A console's ringbuffer before anything set it: static storage is zero,
\* so write_ptr is NULL (init = FALSE).
ZeroBuf == [init |-> FALSE, rd |-> 0, wr |-> 0, counter |-> 0,
            data |-> [s \in Slots |-> 0]]
\* read_ptr = write_ptr = data, counter = 0.
FreshBuf == [ZeroBuf EXCEPT !.init = TRUE]

KmainOrderLate == <<"keyboard", "keybuffer", "vc0", "vcs">>
\* The keyboard-related steps of kmain, in the order kmain takes them.
KmainOrder == <<"keybuffer", "keyboard", "vc0", "vcs">>

BootInit ==
    /\ boot = 0
    /\ handler = FALSE
    /\ virt = {}
    /\ current = 0
    /\ mod_keys = {}
    /\ buf = [i \in Consoles |-> ZeroBuf]
    /\ last_call = NULL
    /\ panic = NULL
    /\ typed = [i \in Consoles |-> <<>>]
    /\ consumed = [i \in Consoles |-> <<>>]

Init == BootInit /\ down = {} /\ sent = 0

(***************************************************************************)
(* kmain: one keyboard-related step.  "keybuffer" is the keybuffer set-up  *)
(* of the kernel console, "keyboard" is init_keyboard (IRQ1 registration), *)
(* "vc0" makes virtual_consoles[0] the kernel console and "vcs" is the loop *)
(* creating consoles 1 .. NUM_VIRTUAL_CONSOLES-1 with console_create,       *)
(* whose ring buffer starts empty.                                          *)
(***************************************************************************)
KmainStep ==
    /\ boot < Len(KmainOrder)
    /\ panic = NULL
    /\ boot' = boot + 1
    /\ LET step == KmainOrder[boot + 1] IN
       /\ buf' = CASE step = "keybuffer" -> [buf EXCEPT ![0] = FreshBuf]
                   [] step = "vcs" -> [i \in Consoles |->
                                          IF i = 0 THEN buf[0] ELSE FreshBuf]
                   [] OTHER -> buf
       /\ handler' = (handler \/ step = "keyboard")
       /\ virt' = CASE step = "vc0" -> virt \cup {0}
                   [] step = "vcs" -> Consoles
                   [] OTHER -> virt
    /\ UNCHANGED <<current, mod_keys, last_call, panic, typed, down, sent,
                   consumed>>

(***************************************************************************)
(* reset(): the machine reboots, so everything the kernel set up is gone;  *)
(* the keys held stay held (the keyboard is the environment's).           *)
(***************************************************************************)
Reset ==
    /\ boot' = 0 /\ handler' = FALSE /\ virt' = {} /\ current' = 0
    /\ mod_keys' = {} /\ buf' = [i \in Consoles |-> ZeroBuf]
    /\ last_call' = NULL /\ panic' = NULL
    /\ typed' = [i \in Consoles |-> <<>>]
    /\ consumed' = [i \in Consoles |-> <<>>]

IsPress(sc) == sc < \h80
IsModCode(sc) == \E m \in Mods : sc \in ModKeys[m] \cup {Break(k) : k \in ModKeys[m]}

ModifierUpdateLeftOnly(sc) ==
    {m \in Mods : \/ m \in mod_keys
                     /\ sc \notin {Break(k) : k \in ModKeys[m] \ {\h36}}
                  \/ sc \in ModKeys[m]}
\* The switch on modifier scancodes: a make code sets the bit, a break code
\* of either key of the class clears it.
ModifierUpdate(sc) ==
    {m \in Mods : \/ m \in mod_keys /\ sc \notin {Break(k) : k \in ModKeys[m]}
                  \/ sc \in ModKeys[m]}

\* The scrollback hotkeys: Shift (+Alt) with arrow up (0x48) or down (0x50).
ScrollCall(sc) ==
    CASE mod_keys = {"SHIFT"} /\ sc = \h48 -> "scrollback_up"
      [] mod_keys = {"SHIFT"} /\ sc = \h50 -> "scrollback_down"
      [] mod_keys = {"SHIFT", "ALT"} /\ sc = \h48 -> "scrollback_pgup"
      [] mod_keys = {"SHIFT", "ALT"} /\ sc = \h50 -> "scrollback_pgdown"
      [] OTHER -> NULL

\* The character c the key maps to; 0 for a release, an unsupported
\* modifier combination (the printk "Not implemented") or an empty entry.
CharOf(sc) ==
    CASE mod_keys = {} /\ IsPress(sc) -> KbdMix[sc]
      [] mod_keys = {"SHIFT"} /\ IsPress(sc) -> KbdShift[sc]
      [] mod_keys = {"ALT"} /\ IsPress(sc) -> KbdAlt[sc]
      [] mod_keys = {"CTRL"} /\ sc = \h20 -> EOT
      [] OTHER -> 0

\* keybuffer->counter == KEYBUFFER_SIZE
BufferFullGt(b) == b.counter > KEYBUFFER_SIZE
BufferFull(b) == b.counter = KEYBUFFER_SIZE

WrittenLate(b, c) ==
    [b EXCEPT !.data[b.wr] = c,
              !.counter = @ + 1,
              !.wr = IF b.wr + 1 > KEYBUFFER_SIZE THEN 0 ELSE b.wr + 1]
\* *(write_ptr++) = c; counter++; wrap write_ptr at data + KEYBUFFER_SIZE.
Written(b, c) ==
    [b EXCEPT !.data[b.wr] = c,
              !.counter = @ + 1,
              !.wr = IF b.wr + 1 >= KEYBUFFER_SIZE THEN 0 ELSE b.wr + 1]

\* The tail of keyboard_callback: the asserts, the full check and the write
\* into the current console's ring buffer.
PutKey(c) ==
    LET b == buf[current] IN
    /\ panic' = CASE ~b.init -> "write_ptr"
                  [] BufferFull(b) -> "keybuffer_full"
                  [] OTHER -> NULL
    /\ IF panic' = NULL
          THEN /\ buf' = [buf EXCEPT ![current] = Written(b, c)]
               /\ typed' = [typed EXCEPT ![current] = Append(@, c)]
          ELSE UNCHANGED <<buf, typed>>
    /\ UNCHANGED <<boot, handler, virt, current, mod_keys, last_call,
                   consumed>>

CtrlAltDel(sc) == mod_keys = {"CTRL", "ALT"} /\ sc = \hd3
AltF(sc) == mod_keys = {"ALT"} /\ sc \in FKey(0)..FKey(3)

KeyboardCallback(sc) ==
    \/ sc = \he0 /\ UNCHANGED kvars
    \/ sc # \he0 /\ CtrlAltDel(sc) /\ Reset
    \/ /\ sc # \he0 /\ AltF(sc)
       /\ current' = IF sc - FKey(0) \in virt THEN sc - FKey(0) ELSE current
       /\ UNCHANGED <<boot, handler, virt, mod_keys, buf, last_call, panic,
                      typed, consumed>>
    \/ /\ sc # \he0 /\ ~CtrlAltDel(sc) /\ ~AltF(sc)
       /\ \/ IsModCode(sc)
             /\ mod_keys' = ModifierUpdate(sc)
             /\ UNCHANGED <<boot, handler, virt, current, buf, last_call,
                            panic, typed, consumed>>
          \/ ~IsModCode(sc) /\ ScrollCall(sc) # NULL
             /\ last_call' = ScrollCall(sc)
             /\ UNCHANGED <<boot, handler, virt, current, mod_keys, buf,
                            panic, typed, consumed>>
          \/ ~IsModCode(sc) /\ ScrollCall(sc) = NULL /\ CharOf(sc) = 0
             /\ UNCHANGED kvars
          \/ ~IsModCode(sc) /\ ScrollCall(sc) = NULL /\ CharOf(sc) # 0
             /\ PutKey(CharOf(sc))

\* An IRQ1 byte: dropped while IRQ1 has no handler.
Deliver(sc) ==
    \/ ~handler /\ UNCHANGED kvars
    \/ handler /\ KeyboardCallback(sc)

(* Environment: the keyboard and the consoles' readers.  Nothing runs once *)
(* the machine has panicked.                                               *)
Press(k) ==
    /\ panic = NULL /\ sent < MaxScancodes
    /\ down' = down \cup {k} /\ sent' = sent + 1
    /\ Deliver(k)

Release(k) ==
    /\ panic = NULL /\ sent < MaxScancodes /\ k \in down
    /\ down' = down \ {k} /\ sent' = sent + 1
    /\ Deliver(Break(k))

Prefix ==
    /\ panic = NULL /\ sent < MaxScancodes
    /\ sent' = sent + 1
    /\ Deliver(\he0) /\ UNCHANGED down

Getchar(i) ==
    LET b == buf[i] IN
    /\ panic = NULL /\ b.init /\ b.counter > 0
    /\ consumed' = [consumed EXCEPT ![i] = Append(@, b.data[b.rd])]
    /\ buf' = [buf EXCEPT ![i].rd = (b.rd + 1) % KEYBUFFER_SIZE,
                          ![i].counter = @ - 1]
    /\ UNCHANGED <<boot, handler, virt, current, mod_keys, last_call, panic,
                   typed, down, sent>>

Next ==
    \/ KmainStep
    \/ \E k \in Keys : Press(k) \/ Release(k)
    \/ Prefix
    \/ \E i \in Consoles : Getchar(i)

Spec == Init /\ [][Next]_vars
-----------------------------------------------------------------------------
TypeOK ==
    /\ boot \in 0..Len(KmainOrder)
    /\ handler \in BOOLEAN
    /\ virt \subseteq Consoles /\ current \in Consoles
    /\ mod_keys \subseteq Mods
    /\ \A i \in Consoles :
         /\ buf[i].rd \in Slots /\ buf[i].wr \in Slots
         /\ buf[i].counter \in 0..KEYBUFFER_SIZE
         /\ buf[i].data \in [Slots -> Chars \cup {0, EOT}]
    /\ down \subseteq Keys /\ sent \in 0..MaxScancodes

\* The characters of a ring buffer from read_ptr on, oldest first.
RingContents(b) ==
    [k \in 1..b.counter |-> b.data[(b.rd + k - 1) % KEYBUFFER_SIZE]]

(***************************************************************************)
(* Keys reach their console in order: for every console, what its reader   *)
(* has taken followed by what is still in its ring buffer is exactly the   *)
(* sequence of characters keyboard_callback stored while that console was  *)
(* current.  Breaks if the write pointer wraps at the wrong place, the     *)
(* counter and the pointers disagree, or a write at counter ==             *)
(* KEYBUFFER_SIZE overwrites an unread key.                                *)
(***************************************************************************)
KeysInOrder ==
    \A i \in Consoles : consumed[i] \o RingContents(buf[i]) = typed[i]

(***************************************************************************)
(* A modifier bit is set only while a key of its class is physically held: *)
(* keyboard_callback's set/clear switch on make and break codes never      *)
(* leaves Ctrl, Shift or Alt "stuck" after the last such key is released.  *)
(***************************************************************************)
ModsHeld == \A m \in mod_keys : down \cap ModKeys[m] # {}

(***************************************************************************)
(* kmain sets up the kernel console's keybuffer before keyboard input can  *)
(* reach it, so keyboard_callback's assert(write_ptr != NULL) never fires, *)
(* whatever key arrives during boot or on a console Alt+Fn switches to.    *)
(***************************************************************************)
NoKeyBeforeKeybuffer == panic # "write_ptr"
====
