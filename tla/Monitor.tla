------------------------------ MODULE Monitor ------------------------------
(***************************************************************************)
(* The text console of src/lib/monitor.c: the cursor and the W x H cells   *)
(* of video memory (80 x 25 in the code), written by putchar with its      *)
(* newline, backspace, wrap and scroll, by clrscr and by print_time, which *)
(* draws the clock on the bottom row and puts the cursor back.  A cell is  *)
(* a character or BLANK (a zero byte); the attribute byte 0x07 is left     *)
(* out.  BIOS stands for whatever the boot loader left on the screen.      *)
(*                                                                         *)
(* log is a history: what was drawn since the last clrscr (or boot), one   *)
(* entry per putchar of a caller and one per clock drawn, and base is the  *)
(* screen at that point.  The reference Ref lays the log out on a page     *)
(* that never scrolls; the screen must be the page's last H rows.          *)
(***************************************************************************)
EXTENDS Integers, Sequences, SequencesExt

CONSTANTS
    W, H,          \* screen width and height (80, 25)
    Printable,     \* characters >= 0x20 the callers print
    BLANK, BIOS,   \* model values: a zero cell, a cell left by the loader
    Seconds,       \* values of t->second print_time is called with
    TimeText,      \* TimeText[s]: what sprintf makes of a time with second s
    TimeClear,     \* cells print_time's memset clears (40 bytes: 20 cells)
    MaxLog         \* bound: entries drawn between two clrscr calls

NL == "NL"     \* 0x0a
BS == "BS"     \* 0x08
TAB == "TAB"   \* 0x09
Cells == (0 .. H - 1) \X (0 .. W - 1)
CellValues == Printable \cup {BLANK, BIOS}

ASSUME /\ W \in Nat \ {0, 1} /\ H \in Nat \ {0, 1}
       /\ TimeText \in [Seconds -> Seq(Printable)]
       /\ \A s \in Seconds : Len(TimeText[s]) < W   \* 19 < 80: no wrap
       /\ TimeClear \in 0 .. W /\ 255 \notin Seconds

VARIABLES
    cursor,    \* the static Point cursor
    vram,      \* video memory, cell -> character
    old_sec,   \* print_time's static old_sec
    base,      \* (history) the screen at the last clrscr or at boot
    log        \* (history) what was drawn since then

vars == <<cursor, vram, old_sec, base, log>>

State == [cursor |-> cursor, vram |-> vram]

(* scroll (46-62): at y = 25 rows 1..24 move up one, the last row is     *)
(* blanked and the cursor goes to row 24.                                 *)
ScrollNoBlank(st) ==
    IF st.cursor.y < H THEN st
    ELSE [cursor |-> [st.cursor EXCEPT !.y = H - 1],
          vram |-> [c \in Cells |-> IF c[1] < H - 1 THEN st.vram[<<c[1] + 1, c[2]>>]
                                    ELSE st.vram[c]]]

ScrollLate(st) ==
    IF st.cursor.y <= H THEN st
    ELSE [cursor |-> [st.cursor EXCEPT !.y = H - 1],
          vram |-> [c \in Cells |-> IF c[1] < H - 1 THEN st.vram[<<c[1] + 1, c[2]>>]
                                    ELSE BLANK]]

Scroll(st) ==
    IF st.cursor.y < H THEN st
    ELSE [cursor |-> [st.cursor EXCEPT !.y = H - 1],
          vram |-> [c \in Cells |-> IF c[1] < H - 1 THEN st.vram[<<c[1] + 1, c[2]>>]
                                    ELSE BLANK]]

(* putchar (64-99): newline, backspace (never back across a line), a     *)
(* printable character written at the cursor with the wrap at column 80; *)
(* anything else below 0x20 (a tab) is dropped.  Then scroll().           *)
Putchar(st, c) ==
    LET x == st.cursor.x
        y == st.cursor.y
    IN  Scroll(CASE c = NL -> [st EXCEPT !.cursor = [x |-> 0, y |-> y + 1]]
                 [] c = BS -> [st EXCEPT !.cursor.x = IF x > 0 THEN x - 1 ELSE x]
                 [] c \in Printable ->
                        [cursor |-> IF x + 1 = W THEN [x |-> 0, y |-> y + 1]
                                    ELSE [x |-> x + 1, y |-> y],
                         vram |-> [st.vram EXCEPT ![<<y, x>>] = c]]
                 [] OTHER -> st)

(* print (147-153): putchar for each character of the string. *)
PrintStr(st, s) == FoldLeft(Putchar, st, s)

Puts(s) == [i \in 1 .. Len(s) |-> [op |-> "put", arg |-> s[i]]]

(* printk (119-145): vsprintf into buf, then print(buf) if it is not     *)
(* empty.  s is the formatted text.                                       *)
Printk(s) ==
    /\ Len(log) < MaxLog
    /\ LET st == PrintStr(State, s)
       IN  cursor' = st.cursor /\ vram' = st.vram
    /\ log' = log \o Puts(s)
    /\ UNCHANGED <<old_sec, base>>

(* clrscr (40-44). *)
Clrscr ==
    /\ vram' = [c \in Cells |-> BLANK]
    /\ cursor' = [x |-> 0, y |-> 0]
    /\ base' = [c \in Cells |-> BLANK] /\ log' = <<>>
    /\ UNCHANGED old_sec

(* print_time (11-37): nothing when the second has not changed; else    *)
(* save the cursor, clear the start of row 24, print the time there and  *)
(* restore the cursor.                                                    *)
PrintTime(t) ==
    /\ Len(log) < MaxLog
    /\ old_sec # t
    /\ LET cleared == [cursor |-> [x |-> 0, y |-> H - 1],
                       vram |-> [c \in Cells |-> IF c[1] = H - 1 /\ c[2] < TimeClear
                                                 THEN BLANK ELSE vram[c]]]
       IN  vram' = PrintStr(cleared, TimeText[t]).vram
    /\ cursor' = cursor /\ old_sec' = t
    /\ log' = Append(log, [op |-> "time", arg |-> t])
    /\ UNCHANGED base

(* The static cursor is zero at boot and old_sec is 255; the screen     *)
(* holds what the loader left (every cell of it, BIOS).                   *)
Init ==
    /\ cursor = [x |-> 0, y |-> 0]
    /\ vram = [c \in Cells |-> BIOS]
    /\ old_sec = 255
    /\ base = vram /\ log = <<>>

(***************************************************************************)
(* The reference: the log laid out on a page of rows 0, 1, 2, ... that    *)
(* never scrolls; the screen shows the rows Top(r) .. Top(r) + H - 1.     *)
(***************************************************************************)
Top(r) == IF r < H THEN 0 ELSE r - (H - 1)

RefStep(pg, ev) ==
    IF ev.op = "time"
    THEN LET row == Top(pg.r) + H - 1
             txt == TimeText[ev.arg]
         IN  [pg EXCEPT !.page = [c \in DOMAIN pg.page |->
                 CASE c[1] = row /\ c[2] < Len(txt) -> txt[c[2] + 1]
                   [] c[1] = row /\ c[2] < TimeClear -> BLANK
                   [] OTHER -> pg.page[c]]]
    ELSE CASE ev.arg = NL -> [pg EXCEPT !.r = @ + 1, !.x = 0]
           [] ev.arg = BS -> [pg EXCEPT !.x = IF @ > 0 THEN @ - 1 ELSE 0]
           [] ev.arg \in Printable ->
                [pg EXCEPT !.page[<<pg.r, pg.x>>] = ev.arg,
                           !.r = IF pg.x = W - 1 THEN @ + 1 ELSE @,
                           !.x = (@ + 1) % W]
           [] OTHER -> pg

Ref == FoldLeft(RefStep,
                [page |-> [c \in (0 .. Len(log) + H) \X (0 .. W - 1) |->
                              IF c[1] < H THEN base[c] ELSE BLANK],
                 r |-> 0, x |-> 0],
                log)

(* The cursor is always on the screen: putchar's write at cursor.y*80*2 + *)
(* cursor.x*2 stays inside the 80 x 25 cells of video memory.             *)
TypeOK ==
    /\ cursor \in [x : 0 .. W - 1, y : 0 .. H - 1]
    /\ vram \in [Cells -> CellValues] /\ base \in [Cells -> CellValues]
    /\ old_sec \in Seconds \cup {255}

(* What putchar's wrap and scroll() and print_time's clock leave on the  *)
(* screen is the last H rows of the same output laid out on a page that  *)
(* never scrolls, with the cursor at the end of that output.              *)
ScreenShowsLog ==
    LET pg == Ref
        t == Top(pg.r)
    IN  /\ cursor = [x |-> pg.x, y |-> pg.r - t]
        /\ \A c \in Cells : vram[c] = pg.page[<<t + c[1], c[2]>>]

=============================================================================
