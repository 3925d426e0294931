----------------------------- MODULE MCKeyboard -----------------------------
(* A keyboard with both shift keys, Ctrl, Alt, F1, F2, arrow up, Delete,   *)
(* "d" and "1", and the entries of kbdmix, kbdse_shift and kbdse_alt of    *)
(* src/src/kernel/keyboard.c for those keys.                               *)
EXTENDS Keyboard

CONSTANTS d, D, one, bang

\* make codes: shift, right shift, ctrl, alt, F1, F2, up, delete, d, 1
MCKeys == {\h2a, \h36, \h1d, \h38, \h3b, \h3c, \h48, \h53, \h20, \h02}
MCChars == {d, D, one, bang}
\* Every modelled key but "d" and "1" has an empty (0) entry in all maps;
\* alt+1 is empty too.
MCKbdMix == [k \in MCKeys |-> CASE k = \h20 -> d [] k = \h02 -> one [] OTHER -> 0]
MCKbdShift == [k \in MCKeys |-> CASE k = \h20 -> D [] k = \h02 -> bang [] OTHER -> 0]
MCKbdAlt == [k \in MCKeys |-> IF k = \h20 THEN d ELSE 0]
====
