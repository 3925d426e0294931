------------------------------- MODULE MCFileIO -------------------------------
(* A namespace with the initrd mounted at /a next to a directory /b and a *)
(* file /f of the root file system.  The image holds two files, f and b   *)
(* (so /a/f and /a/b are files while /b is a directory), of 1 and 3 bytes, *)
(* with names of 63 and 1 bytes (records of 76 and 16 bytes).  /a/a is    *)
(* not in the image.  Three fd slots let opens, failed opens and closes  *)
(* interleave before the table is used up.                               *)
EXTENDS FileIO

CONSTANTS A, B, F

MCTokens == {A, B, F}
MCDirs == {<<>>, <<A>>, <<B>>}
MCRegs == {<<A, F>>, <<A, B>>, <<F>>}
MCInitrdMount == <<A>>
MCFileName == [i \in 0 .. 1 |-> IF i = 0 THEN F ELSE B]
MCFileLen == [i \in 0 .. 1 |-> IF i = 0 THEN 1 ELSE 3]
MCNameLen == [i \in 0 .. 1 |-> IF i = 0 THEN 63 ELSE 1]
=============================================================================
