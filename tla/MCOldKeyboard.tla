--------------------------- MODULE MCOldKeyboard ---------------------------
(***************************************************************************)
(* A 3 x 2 screen, so that wrapping and scrolling happen within a few keys, *)
(* and the keys a, 4 (whose shifted entry in kbdse_shift is 0), Enter,     *)
(* and Backspace besides the two shifts, Ctrl and Alt.  The clock text *)
(* is one cell and its memset clears two, as 19 characters and 20 cells   *)
(* do on the real screen.  "Not implemented" is two cells and a newline.   *)
(***************************************************************************)
EXTENDS OldKeyboard

MCKbdus ==
    (\h1e :> "a") @@ (\h05 :> "4") @@ (\h1c :> NL) @@ (\h0e :> BS)
MCKbdseShift ==
    (\h1e :> "A") @@ (\h05 :> NUL) @@ (\h1c :> NL) @@ (\h0e :> BS)
MCTimeText == [s \in {0, 1} |-> <<"T">>]
MCNotImpl == <<"N", "N", NL>>
====
