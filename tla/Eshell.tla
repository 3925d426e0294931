------------------------------- MODULE Eshell -------------------------------
(***************************************************************************)
(* The user-space shell of src/src/userspace/eshell/main.c: the read loop  *)
(* of main, replace_variables (with str_replace), parse_command_line, the  *)
(* redirect scan, the built-ins cd, pwd, export and unset, and fork of a   *)
(* child that applies redirects and the "A=b cmd" variables before execvp.  *)
(*                                                                         *)
(* A line is a sequence of symbols.  The separators the code looks at are  *)
(* symbols of their own (space, tab, newline, '"', '=', '$', '\'); every    *)
(* other run of printable characters is one word symbol, e.g. "cd", "A",   *)
(* ">>".  Symbols the code treats alike (all bytes > ' ' that are not '"') *)
(* are treated alike here, so the character loops of the code become loops *)
(* over symbols.  The end of a sequence is the terminating NUL.            *)
(*                                                                         *)
(* replace_variables is one action per iteration of its while loop, so a   *)
(* loop that never ends is a behaviour that never leaves it.  The parse,   *)
(* the redirect scan and the built-in or fork that follows are one step:   *)
(* they are sequential code of one process that calls nothing that waits.  *)
(***************************************************************************)
EXTENDS Integers, Sequences, SequencesExt

CONSTANTS
    Words,      \* word symbols (runs of printable bytes without " = $ \)
    Width,      \* Width[w]: strlen of each symbol
    Lines,      \* the lines fgets may return (with or without "\n")
    Dirs,       \* the paths chdir accepts (each an argument, a Seq(Words))
    BUF_SIZE,   \* the size replace_variables is given (sizeof buf, 1024)
    MaxLines,   \* bound on the lines read
    NULL,       \* a model value: the null pointer
    STDOUT      \* a model value: redir_stderr == (char *)1, the target "&1"

SP == " "
TAB == "\t"
NL == "\n"
QUOTE == "\""
EQ == "="
DOLLAR == "$"
BSL == "\\"
Symbols == Words \cup {SP, TAB, NL, QUOTE, EQ, DOLLAR, BSL}

ASSUME /\ Width \in [Symbols -> Nat \ {0}]
       /\ Lines \subseteq Seq(Symbols)
       /\ BUF_SIZE \in Nat /\ MaxLines \in Nat

NUL == "NUL"
\* The byte at index i of a C string kept as a sequence (1-based here).
At(s, i) == IF i \in 1..Len(s) THEN s[i] ELSE NUL
\* strlen of a sequence of symbols.
StrLen(s) == FoldLeft(LAMBDA acc, x : acc + Width[x], 0, s)
\* The first index >= i holding one of Stops, or Len(s) + 1 (the NUL).
\* (A recursive function: TLC evaluates its argument once per call.)
ScanTo(s, i, Stops) ==
    LET scan[j \in i..Len(s) + 1] == IF j > Len(s) \/ s[j] \in Stops THEN j ELSE scan[j + 1]
    IN  scan[i]

(***************************************************************************)
(* replace_variables (64-93), one iteration of its while loop.  The result *)
(* is the new buffer and the new p; p = 0 means strchr found no '$'.       *)
(***************************************************************************)
\* The operators of str_replace (34-62) when old is at the start of p:
\* nothing happens when the result would not fit in size bytes; when it
\* fits with no room left, strlcat drops the last byte of the line.
StrReplaceNoTrunc(buf, j, old, new, size) ==
    LET res == SubSeq(buf, 1, j - 1) \o new \o SubSeq(buf, j + Len(old), Len(buf))
        tail == StrLen(SubSeq(buf, j, Len(buf))) + StrLen(new) - StrLen(old)
    IN  IF tail > size THEN buf ELSE res

StrReplace(buf, j, old, new, size) ==
    LET res == SubSeq(buf, 1, j - 1) \o new \o SubSeq(buf, j + Len(old), Len(buf))
        tail == StrLen(SubSeq(buf, j, Len(buf))) + StrLen(new) - StrLen(old)
    IN  CASE tail > size -> buf
          [] tail = size -> SubSeq(res, 1, Len(res) - 1)
          [] OTHER       -> res

\* getenv: the value of a name, "" when it is not set.
GetEnv(env, name) == IF name \in DOMAIN env THEN env[name] ELSE <<>>

ReplaceIter(buf, p, env) ==
    LET j == ScanTo(buf, p, {DOLLAR})
        name == SubSeq(buf, j + 1, ScanTo(buf, j + 1, {SP, NL, TAB}) - 1)
        unesc == RemoveAt(buf, j - 1)
    IN  CASE j > Len(buf) ->
                [buf |-> buf, p |-> 0]
          [] j > 1 /\ buf[j - 1] = BSL ->
                \* memmove over the backslash, then skip to the next space
                [buf |-> unesc, p |-> ScanTo(unesc, j, {SP})]
          [] name = <<>> ->
                \* a lone '$': continue without moving p
                [buf |-> buf, p |-> j]
          [] OTHER ->
                [buf |-> StrReplace(buf, j, <<DOLLAR>> \o name, GetEnv(env, name),
                                    BUF_SIZE - StrLen(SubSeq(buf, 1, j - 1))),
                 p |-> j + 1]

(***************************************************************************)
(* parse_command_line (140-245).                                            *)
(***************************************************************************)
\* The worst-case counts of the loop at 145-153, over the unstripped line.
\* The loop at 145-153 adds up what it counts from index i on; the for's
\* i++ after the inner while skips the byte after every run of spaces.
PreCount(s) ==
    LET from[i \in 1..Len(s) + 2] ==
            CASE i > Len(s) -> [max_args |-> 1, max_env |-> 0]
              [] s[i] = SP  -> [from[ScanTo(s, i, Symbols \ {SP}) + 1]
                                    EXCEPT !.max_args = @ + 1]
              [] s[i] = EQ  -> [from[i + 1] EXCEPT !.max_env = @ + 1]
              [] OTHER      -> from[i + 1]
    IN  from[1]

\* 168-169: zero trailing newlines and spaces.
Strip(s) == SubSeq(s, 1, SelectLastInSeq(s, LAMBDA x : x \notin {NL, SP}))

SkipBlank(s, i) == ScanTo(s, i, Symbols \ {SP, TAB})
CopyStopsNoQuote(quote) == {SP, TAB, NL, QUOTE}

\* The bytes that end the copy loop at 189 (it also stops at the NUL).
CopyStops(quote) == IF quote THEN {TAB, NL, QUOTE} ELSE {SP, TAB, NL, QUOTE}

MaxArgsFromZero(s) == PreCount(s).max_args - 1

MaxArgsFrom(s) == PreCount(s).max_args

\* One pass of the loop body 188-236 from state st; err names a failed assert.
ParseBody(s, st, cnt) ==
    LET c1 == ScanTo(s, st.c, CopyStops(st.quote))
        arg == st.arg \o SubSeq(s, st.c, c1 - 1)
        handled == c1 > st.c
        isq == At(s, c1) = QUOTE
        c2 == IF isq THEN c1 + 1 ELSE c1
        q2 == IF isq THEN ~st.quote ELSE st.quote
        saves == (At(s, c2) = SP /\ ~q2) \/ At(s, c2) = NUL
        isenv == ~st.env_done /\ Contains(arg, EQ)
    IN  CASE isq /\ At(s, c2) # NUL ->
                [st EXCEPT !.c = c2, !.quote = q2, !.arg = arg]
          [] saves /\ isenv /\ ~(Len(st.env) < cnt.max_env) ->
                [st EXCEPT !.err = "env_assert"]
          [] saves /\ isenv ->
                [st EXCEPT !.c = SkipBlank(s, c2), !.quote = q2, !.arg = <<>>,
                           !.env = Append(st.env, arg)]
          [] saves /\ ~(cnt.max_args > Len(st.argv)) ->
                [st EXCEPT !.err = "argv_assert"]
          [] saves ->
                [st EXCEPT !.c = SkipBlank(s, c2), !.quote = q2, !.arg = <<>>,
                           !.argv = Append(st.argv, arg), !.env_done = TRUE]
          [] OTHER ->
                [st EXCEPT !.c = SkipBlank(s, IF handled \/ isq THEN c2 ELSE c2 + 1),
                           !.quote = q2, !.arg = arg]

\* The loop at 187-237.  The state after each pass is bound as a value (the
\* one element of a set) so that it is computed once, also where TLC
\* evaluates the step for fairness.
RECURSIVE ParseLoop(_, _, _)
ParseLoop(s, st, cnt) ==
    IF st.c > Len(s) \/ st.err # NULL THEN st
    ELSE CHOOSE r \in {ParseLoop(s, next, cnt) : next \in {ParseBody(s, st, cnt)}} : TRUE

\* The whole call.  The NULL it returns for a blank line is kept as an empty
\* argv: main treats both alike ("Nothing to do").
ParseCommandLine(line) ==
    LET s == Strip(line)
        cnt == [max_args |-> MaxArgsFrom(line), max_env |-> PreCount(line).max_env]
        c0 == SkipBlank(s, 1)
    IN  IF c0 > Len(s)
        THEN [argv |-> <<>>, env |-> <<>>, err |-> NULL]
        ELSE LET st == ParseLoop(s, [c |-> c0, quote |-> FALSE, arg |-> <<>>, argv |-> <<>>,
                                     env |-> <<>>, env_done |-> FALSE, err |-> NULL], cnt)
             IN  [argv |-> st.argv, env |-> st.env, err |-> st.err]

\* What the comments at 141-201 describe: words split at spaces outside
\* quotes, quotes removed, the words before the first word without '='
\* kept for the child's environment.
RECURSIVE RefWords(_, _, _, _, _, _)
RefWords(s, i, quote, cur, open, acc) ==
    CASE i > Len(s) -> IF open THEN Append(acc, cur) ELSE acc
      [] s[i] = QUOTE -> RefWords(s, i + 1, ~quote, cur, TRUE, acc)
      [] s[i] = SP /\ ~quote ->
            RefWords(s, i + 1, quote, <<>>, FALSE, IF open THEN Append(acc, cur) ELSE acc)
      [] OTHER -> RefWords(s, i + 1, quote, Append(cur, s[i]), TRUE, acc)

RefParse(line) ==
    LET w == RefWords(Strip(line), 1, FALSE, <<>>, FALSE, <<>>)
        k == SelectInSeq(w, LAMBDA a : ~Contains(a, EQ))
        nenv == IF k = 0 THEN Len(w) ELSE k - 1
    IN  [argv |-> SubSeq(w, nenv + 1, Len(w)), env |-> SubSeq(w, 1, nenv)]

(***************************************************************************)
(* The redirect scan of main (351-405).                                     *)
(***************************************************************************)
RedirOps == {">", ">>", "<", "2>", "2>>"}
RedirArgs == {<<op>> : op \in RedirOps}
IsRedir(arg) == arg \in RedirArgs
NoRedir == [stdin |-> NULL, stdout |-> NULL, append_stdout |-> FALSE,
            stderr |-> NULL, append_stderr |-> FALSE]

\* 364-392: what one operator and its target set.
SetRedir(r, op, target) ==
    CASE op \in {">", ">>"} ->
            [r EXCEPT !.stdout = target, !.append_stdout = (op = ">>")]
      [] op = "<" -> [r EXCEPT !.stdin = target]
      [] OTHER ->
            [r EXCEPT !.stderr = IF target = <<"&1">> THEN STDOUT ELSE target,
                      !.append_stderr = (op = "2>>")]

RedirScanOnce(av, r) ==
    LET i == ScanTo(av, 1, RedirArgs)
    IN  CASE i > Len(av) -> [ok |-> TRUE, argv |-> av, redir |-> r]
          [] i = 1 \/ i + 1 > Len(av) -> [ok |-> FALSE, argv |-> av, redir |-> r]
          [] OTHER -> [ok |-> TRUE, argv |-> RemoveAt(RemoveAt(av, i), i),
                       redir |-> SetRedir(r, av[i][1], av[i + 1])]

\* 355-405: the while loop finds the first operator; an operator first or
\* last is an error (goto next_input); otherwise the two arguments are
\* removed and the scan restarts at argv[0] (i = -1; i++).
RECURSIVE RedirScan(_, _)
RedirScan(av, r) ==
    LET i == ScanTo(av, 1, RedirArgs)
    IN  CASE i > Len(av) -> [ok |-> TRUE, argv |-> av, redir |-> r]
          [] i = 1 \/ i + 1 > Len(av) -> [ok |-> FALSE, argv |-> av, redir |-> r]
          [] OTHER ->
                RedirScan(RemoveAt(RemoveAt(av, i), i), SetRedir(r, av[i][1], av[i + 1]))

\* The same scan as one left-to-right pass that goes on after each removal.
RECURSIVE RefRedir(_, _, _)
RefRedir(av, from, r) ==
    LET i == ScanTo(av, from, RedirArgs)
    IN  CASE i > Len(av) -> [ok |-> TRUE, argv |-> av, redir |-> r]
          [] i = 1 \/ i + 1 > Len(av) -> [ok |-> FALSE, argv |-> av, redir |-> r]
          [] OTHER ->
                RefRedir(RemoveAt(RemoveAt(av, i), i), i, SetRedir(r, av[i][1], av[i + 1]))

(***************************************************************************)
(* The environment: setenv, unsetenv and the key=value split of export and *)
(* of the child's extra variables.                                          *)
(***************************************************************************)
\* setenv(key, value, 1); an empty name is refused (EINVAL).
SetEnv(e, k, v) ==
    IF k = <<>> THEN e ELSE [x \in DOMAIN e \cup {k} |-> IF x = k THEN v ELSE e[x]]
\* unsetenv(name); an empty name or one with '=' is refused (EINVAL).
UnsetEnv(e, k) ==
    IF k = <<>> \/ Contains(k, EQ) THEN e ELSE [x \in DOMAIN e \ {k} |-> e[x]]
\* *p = 0 at the first '=': the key before it, the value after it.
KeyOf(a) == SubSeq(a, 1, SelectInSeq(a, LAMBDA x : x = EQ) - 1)
ValueOf(a) == SubSeq(a, SelectInSeq(a, LAMBDA x : x = EQ) + 1, Len(a))
\* setenv for each "key=value" argument, in order (export 486-499, child 652-668).
RECURSIVE SetEach(_, _)
SetEach(e, as) ==
    IF as = <<>> THEN e
    ELSE SetEach(IF Contains(Head(as), EQ) THEN SetEnv(e, KeyOf(Head(as)), ValueOf(Head(as)))
                                           ELSE e,
                 Tail(as))

HOME == <<"HOME">>
ROOT == <<"/">>
PATH == <<"PATH">>

VARIABLES
    pc,        \* "prompt" (in fgets), "replace", "run", "child" (in waitpid),
               \* "exited" or "aborted" (an assert failed)
    buf,       \* the line in buf
    p,         \* replace_variables' p, an index into buf
    env,       \* the shell's environment: name -> value
    cwd,       \* the working directory
    last_wd,   \* last_wd of main, the target of "cd -"
    child,     \* what the forked child set up before execvp, or NULL
    nread,     \* lines read so far
    abort,     \* the assert that failed, or NULL
    parsed     \* what parse_command_line returned for buf, or NULL

vars == <<pc, buf, p, env, cwd, last_wd, child, nread, abort, parsed>>

INITRD_PATH == <<"/:/initrd">>
Builtins == {"cd", "pwd", "export", "unset"}

\* The shell at its first prompt: PATH set by main, HOME set at next_input,
\* started in the root directory; last_wd = get_cwd().
Init ==
    /\ pc = "prompt"
    /\ buf = <<>> /\ p = 0
    /\ env = [x \in {PATH, HOME} |-> IF x = PATH THEN INITRD_PATH ELSE ROOT]
    /\ cwd = ROOT /\ last_wd = ROOT
    /\ child = NULL /\ nread = 0 /\ abort = NULL
    /\ parsed = NULL

\* goto next_input / the loop's end: setenv("HOME", "/", 1) before the next
\* fgets.  buf is dead until fgets overwrites it and is cleared here.
ToPrompt(e) ==
    /\ pc' = "prompt"
    /\ env' = SetEnv(e, HOME, ROOT)
    /\ buf' = <<>> /\ p' = 0 /\ parsed' = NULL

\* fgets returns a line.
ReadLine ==
    /\ pc = "prompt" /\ nread < MaxLines
    /\ \E l \in Lines : buf' = l
    /\ p' = 1 /\ pc' = "replace" /\ nread' = nread + 1
    /\ UNCHANGED <<env, cwd, last_wd, child, abort, parsed>>

\* fgets returns NULL (end of input): main returns 0.
Eof ==
    /\ pc = "prompt" /\ pc' = "exited"
    /\ UNCHANGED <<buf, p, env, cwd, last_wd, child, nread, abort, parsed>>

\* One iteration of replace_variables' loop.
ReplaceStep ==
    /\ pc = "replace"
    /\ LET r == ReplaceIter(buf, p, env)
       IN  /\ r.p # 0
           /\ buf' = r.buf /\ p' = r.p
    /\ UNCHANGED <<pc, env, cwd, last_wd, child, nread, abort, parsed>>

\* strchr finds no more '$': replace_variables returns, and main calls
\* parse_command_line on the result.
ReplaceDone ==
    /\ pc = "replace" /\ ReplaceIter(buf, p, env).p = 0
    /\ pc' = "run" /\ parsed' = ParseCommandLine(buf)
    /\ UNCHANGED <<buf, p, env, cwd, last_wd, child, nread, abort>>

Parsed == parsed
Argv == Parsed.argv
Scan == RedirScan(Argv, NoRedir)
Cmd == Scan.argv

\* The outcomes of main after replace_variables (335-691), one per action.
\* An assert of parse_command_line fails: abort() ends the shell.
AssertFails ==
    /\ pc = "run" /\ Parsed.err # NULL
    /\ pc' = "aborted" /\ abort' = Parsed.err
    /\ UNCHANGED <<buf, p, env, cwd, last_wd, child, nread, parsed>>

NoCommand(av) == av = <<>>

\* argv == NULL || argv[0] == NULL: "Nothing to do".
NothingToDo ==
    /\ pc = "run" /\ Parsed.err = NULL /\ NoCommand(Argv)
    /\ ToPrompt(env)
    /\ UNCHANGED <<cwd, last_wd, child, nread, abort>>

\* strcmp(argv[0], "exit") == 0: main returns 0.
Exit ==
    /\ pc = "run" /\ Parsed.err = NULL /\ ~NoCommand(Argv) /\ Argv[1] = <<"exit">>
    /\ pc' = "exited"
    /\ UNCHANGED <<buf, p, env, cwd, last_wd, child, nread, abort, parsed>>

Command ==
    /\ pc = "run" /\ Parsed.err = NULL /\ ~NoCommand(Argv) /\ Argv[1] # <<"exit">>

\* A redirection operator first or last: an error and the next prompt.
RedirError ==
    /\ Command /\ ~Scan.ok
    /\ ToPrompt(env)
    /\ UNCHANGED <<cwd, last_wd, child, nread, abort>>

IsBuiltin(name) == Command /\ Scan.ok /\ Cmd[1] = <<name>>

\* cd (427-460): last_wd is overwritten with get_cwd() before chdir and
\* put back when chdir fails.
CdTarget ==
    CASE Len(Cmd) = 1       -> GetEnv(env, HOME)
      [] Cmd[2] = <<"-">>   -> last_wd
      [] OTHER              -> Cmd[2]

Cd ==
    /\ IsBuiltin("cd")
    /\ IF CdTarget \in Dirs
       THEN cwd' = CdTarget /\ last_wd' = cwd
       ELSE UNCHANGED <<cwd, last_wd>>
    /\ ToPrompt(env)
    /\ UNCHANGED <<child, nread, abort>>

\* pwd (461-473) and export with no arguments only print.
Pwd ==
    /\ IsBuiltin("pwd")
    /\ ToPrompt(env)
    /\ UNCHANGED <<cwd, last_wd, child, nread, abort>>

\* export (474-503): setenv for each argument with '='.
Export ==
    /\ IsBuiltin("export")
    /\ ToPrompt(SetEach(env, Tail(Cmd)))
    /\ UNCHANGED <<cwd, last_wd, child, nread, abort>>

\* unset (504-520): for each argument without '=' the code calls
\* unsetenv(argv[1]).
Unset ==
    /\ IsBuiltin("unset")
    /\ ToPrompt(IF \E i \in 2..Len(Cmd) : ~Contains(Cmd[i], EQ)
                THEN UnsetEnv(env, Cmd[2]) ELSE env)
    /\ UNCHANGED <<cwd, last_wd, child, nread, abort>>

\* The child after fork (552-686): the redirections (freopen of stdout
\* takes its mode from redir_append_stderr), then setenv of the extra
\* variables, then execvp.
ChildOf(r, av, extra) ==
    [argv |-> av, redir |-> r,
     stdout_mode |-> IF r.stdout = NULL THEN NULL
                     ELSE IF r.append_stderr THEN "a" ELSE "w",
     stderr_mode |-> IF r.stderr \in {NULL, STDOUT} THEN NULL
                     ELSE IF r.append_stderr THEN "a" ELSE "w",
     env |-> SetEach(env, extra)]

Spawns == Command /\ Scan.ok /\ Cmd[1] \notin {<<b>> : b \in Builtins}

\* fork() > 0: the parent waits for the child (waitpid).
Fork ==
    /\ Spawns
    /\ pc' = "child" /\ child' = ChildOf(Scan.redir, Cmd, Parsed.env)
    /\ UNCHANGED <<buf, p, env, cwd, last_wd, nread, abort, parsed>>

\* fork() < 0: perror and exit(-1).
ForkFails ==
    /\ Spawns
    /\ pc' = "exited"
    /\ UNCHANGED <<buf, p, env, cwd, last_wd, child, nread, abort, parsed>>

\* waitpid returns -1 once the child has exited: the next prompt.
Wait ==
    /\ pc = "child"
    /\ child' = NULL
    /\ ToPrompt(env)
    /\ UNCHANGED <<cwd, last_wd, nread, abort>>

Run == AssertFails \/ NothingToDo \/ Exit \/ RedirError \/ Cd \/ Pwd \/ Export
       \/ Unset \/ Fork \/ ForkFails

Next == ReadLine \/ Eof \/ ReplaceStep \/ ReplaceDone \/ Run \/ Wait

\* The shell is one runnable process: once it has a line it keeps running
\* until it waits for input or for its child.  The user owes nothing.
Spec == Init /\ [][Next]_vars /\ WF_vars(ReplaceStep \/ ReplaceDone \/ Run \/ Wait)
-----------------------------------------------------------------------------
TypeOK ==
    /\ pc \in {"prompt", "replace", "run", "child", "exited", "aborted"}
    /\ buf \in Seq(Symbols) /\ p \in 0..Len(buf) + 1
    /\ \A k \in DOMAIN env : k \in Seq(Symbols) /\ env[k] \in Seq(Symbols)
    /\ cwd \in Dirs \cup {ROOT} /\ last_wd \in Dirs \cup {ROOT}
    /\ StrLen(buf) < BUF_SIZE
    /\ nread \in 0..MaxLines
    /\ abort \in {NULL, "env_assert", "argv_assert"}

\* The assert at 226 (max_args > *argc) never fails: the worst-case count
\* of arguments made by the loop at 145-153, which skips the byte after
\* every run of spaces, still covers every argument the parser saves.
ArgvFits == abort # "argv_assert"

\* Whenever parse_command_line returns without a failed assert, its argv
\* and the child's extra variables are what the comments of 141-222
\* describe: words split at unquoted spaces, quotes removed, the leading
\* words with '=' set aside for the child.
ParseMatchesReference ==
    pc = "run" /\ Parsed.err = NULL =>
        LET ref == RefParse(buf)
        IN  Parsed.argv = ref.argv /\ Parsed.env = ref.env

\* The child starts execvp with every redirection operator and its target
\* removed from argv, and with the redirections a single left-to-right
\* pass over the words would record (the last one of each stream wins),
\* although the scan restarts at argv[0] after each removal.
ChildSetup ==
    pc = "child" =>
        LET ref == RefRedir(RefParse(buf).argv, 1, NoRedir)
        IN  /\ ref.ok
            /\ child.argv = ref.argv /\ child.redir = ref.redir
            /\ \A i \in 1..Len(child.argv) : ~IsRedir(child.argv[i])

\* Every line fgets returns is handled: replace_variables returns, and the
\* shell comes back to its prompt or ends.
EveryLineAnswered == pc = "replace" ~> pc \in {"prompt", "exited", "aborted"}
====
