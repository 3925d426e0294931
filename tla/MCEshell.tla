------------------------------ MODULE MCEshell ------------------------------
(***************************************************************************)
(* Eshell with every line of up to five symbols over a word, a space, a    *)
(* quote and '=' (each ending in "\n"), and a handful of lines that use     *)
(* the built-ins, redirections and variables.  A's value is eight bytes     *)
(* long and BUF_SIZE is 24, so "$A $A $A" runs out of room and             *)
(* "$A $A aaaaa" fills the buffer exactly.                                  *)
(***************************************************************************)
EXTENDS Eshell

MCWords == {"a", "xxxxxxxx", "A", "cd", "pwd", "export", "unset", "exit",
            "-", "/", "/d", "/x", ">", ">>", "<", "2>", "2>>", "&1",
            "HOME", "PATH", "/:/initrd"}

MCWidth ==
    [x \in MCWords \cup {SP, TAB, NL, QUOTE, EQ, DOLLAR, BSL} |->
        CASE x = "xxxxxxxx" -> 8
          [] x \in {"cd", ">>", "2>", "&1", "/d", "/x"} -> 2
          [] x \in {"pwd", "2>>"} -> 3
          [] x \in {"exit", "HOME", "PATH"} -> 4
          [] x = "unset" -> 5
          [] x = "export" -> 6
          [] x = "/:/initrd" -> 9
          [] OTHER -> 1]

\* Every short line over the symbols the parser tells apart.
MCShortLines == {s \o <<NL>> : s \in BoundedSeq({"a", SP, QUOTE, EQ}, 5)}

MCCommands == {
    <<"export", SP, "A", EQ, "xxxxxxxx", NL>>,
    <<"export", NL>>,
    <<DOLLAR, "A", SP, DOLLAR, "A", SP, DOLLAR, "A", NL>>,
    <<DOLLAR, "A", SP, DOLLAR, "A", SP, "a", "a", "a", "a", "a", NL>>,
    <<"unset", SP, "A", NL>>,
    <<"cd", SP, "/d", NL>>, <<"cd", SP, "/x", NL>>, <<"cd", SP, "-", NL>>,
    <<"cd", NL>>, <<"pwd", NL>>, <<"exit", NL>>,
    <<"A", EQ, "a", SP, "a", NL>>,
    <<"a", SP, ">", SP, "a", SP, "2>>", SP, "a", NL>>,
    <<"a", SP, "2>", SP, "&1", SP, "<", SP, "a", NL>>,
    <<"a", SP, ">>", SP, "a", SP, ">", SP, "/d", NL>>,
    <<"a", SP, ">", SP, "a", SP, ">", NL>>,
    <<">", SP, "a", NL>>,
    <<"a", SP, "a">>}

MCLines == MCShortLines \cup MCCommands

MCDirs == {<<"/">>, <<"/d">>}
\* Lines with variables: "echo $", "echo $A" and "echo \$A".
MCDollarLines == {
    <<"a", SP, DOLLAR, NL>>,
    <<"a", SP, DOLLAR, "A", NL>>,
    <<"a", SP, BSL, DOLLAR, "A", NL>>,
    <<"export", SP, "A", EQ, "a", NL>>}
====
