-------------------------------- MODULE FileIO --------------------------------
(***************************************************************************)
(* The kernel's file calls (src/src/kernel/fileio.c) over the initrd        *)
(* file system (src/src/kernel/initrd.c), for the current task: its fd     *)
(* table fdtable[] and fd counter _next_fd, its working directory pwd,     *)
(* and one DIR stream.  Only the current task touches its own fdtable and  *)
(* pwd, and a call does not yield, so each call is one step.               *)
(*                                                                         *)
(* Paths are sequences of path components (<<>> is "/").  The namespace   *)
(* the mounted file systems present is given by Dirs and Regs; the initrd  *)
(* is mounted at InitrdMount, and its files are the regular files          *)
(* directly under it.  Other mountpoints' file operations are not in this  *)
(* tree, so open/opendir/stat are only called on paths under the initrd.   *)
(* Component names are compared as equal or not (stricmp's case folding    *)
(* is not modelled).                                                       *)
(*                                                                         *)
(* The calling task is a history: the fds it got from open and has not     *)
(* closed (held), which file each one opened, and the entries its readdir  *)
(* calls returned.                                                         *)
(***************************************************************************)
EXTENDS Integers, Sequences, SequencesExt, FiniteSets

CONSTANTS
    MaxOpenFiles,  \* MAX_OPEN_FILES (fileio.h: 128)
    NFiles,        \* initrd_header->nfiles
    FileName,      \* FileName[i]: file_headers[i].name, a path component
    FileLen,       \* FileLen[i]: file_headers[i].length, in bytes
    NameLen,       \* NameLen[i]: strlen(file_headers[i].name)
    InitrdMount,   \* the initrd mountpoint's path
    Tokens,        \* path components
    Dirs, Regs,    \* the directories and regular files of the namespace
    PathLen,       \* bound: components in a path argument
    NULL

Inos == 0 .. NFiles - 1
NOINO == -1                 \* ino = 0xffffffff: "not found"
Slots == 0 .. MaxOpenFiles - 1

ASSUME /\ NFiles \in Nat /\ MaxOpenFiles \in Nat \ {0}
       /\ InitrdMount \in Dirs
       /\ \A i \in Inos : Append(InitrdMount, FileName[i]) \in Regs
       /\ \A d \in Dirs : ~(IsStrictPrefix(InitrdMount, d))

VARIABLES
    next_fd,   \* current_task->_next_fd
    fdtable,   \* current_task->fdtable[]: [ino, offset, mp # NULL, path # NULL]
    pwd,       \* current_task->pwd (NULL or a path)
    dir,       \* the caller's DIR * (NULL or [pos, len, buflen])
    panic,     \* "none", or the assert/panic that stopped the kernel
    held,      \* history: fds open returned and close has not been given
    opened,    \* history: opened[fd], the file the caller opened as fd
    listed,    \* history: the d_ino of each dirent readdir returned
    ended      \* history: readdir has returned NULL on this DIR

vars == <<next_fd, fdtable, pwd, dir, panic, held, opened, listed, ended>>

(* An fdtable entry as memset(..., 0) leaves it. *)
ZeroFile == [ino |-> 0, offset |-> 0, mp |-> FALSE, path |-> FALSE]

(* The path arguments a caller passes: absolute, or relative to pwd. *)
PathArgs ==
    [abs : {TRUE}, toks : UNION {[1 .. k -> Tokens] : k \in 0 .. PathLen}]
    \cup [abs : {FALSE}, toks : UNION {[1 .. k -> Tokens] : k \in 1 .. PathLen}]

(* task.c's create_task memsets the task (so fdtable is zeroed and         *)
(* _next_fd is 0); pwd is NULL unless the code that starts a process (not  *)
(* in this tree) set it to "/".  init_initrd has mounted the image.        *)
Init ==
    /\ next_fd = 0
    /\ fdtable = [s \in Slots |-> ZeroFile]
    /\ pwd \in {NULL, <<>>}
    /\ dir = NULL
    /\ panic = "none"
    /\ held = {}
    /\ opened = [s \in Slots |-> NOINO]
    /\ listed = <<>>
    /\ ended = FALSE

(* An assert or panic fires: the kernel stops with everything as it is. *)
Halt(why) ==
    /\ panic' = why
    /\ UNCHANGED <<next_fd, fdtable, pwd, dir, held, opened, listed, ended>>

(* find_relpath: a relative path is joined to pwd ("/" when pwd is NULL). *)
FullPath(in) ==
    IF in.abs THEN in.toks
    ELSE (IF pwd = NULL THEN <<>> ELSE pwd) \o in.toks

(* find_mountpoint_for_path picks the initrd for paths under its mount;   *)
(* the mountpoint's path is stripped, leaving "/" for the mount itself.   *)
UnderInitrd(p) == IsPrefix(InitrdMount, p)
RelPath(p) == SubSeq(p, Len(InitrdMount) + 1, Len(p))

-----------------------------------------------------------------------------
(* Mutant: the assert written "_next_fd <= MAX_OPEN_FILES". *)
TableFullLe == next_fd > MaxOpenFiles

(* assert(current_task->_next_fd + 1 <= MAX_OPEN_FILES) fails. *)
TableFull == next_fd + 1 > MaxOpenFiles

(* initrd_open(dev, path, mode): a path with a directory part asserts; a  *)
(* full table asserts; otherwise the slot fdtable[_next_fd++] is taken    *)
(* whether or not the name is found, and only a found file gets mp, path  *)
(* and offset 0 and is returned as the fd.                                *)
InitrdOpen(rel) ==
    \/ /\ Len(rel) > 1
       /\ Halt("open_subdir")
    \/ /\ Len(rel) <= 1
       /\ TableFull
       /\ Halt("open_full")
    \/ /\ Len(rel) <= 1
       /\ ~TableFull
       /\ next_fd' = next_fd + 1
       /\ LET s == next_fd
              hit == {i \in Inos : rel = <<FileName[i]>>}
          IN IF hit # {}
               THEN LET i == CHOOSE i \in hit : \A j \in hit : i <= j IN
                    /\ fdtable' = [fdtable EXCEPT ![s] =
                                    [ino |-> i, offset |-> 0, mp |-> TRUE, path |-> TRUE]]
                    /\ held' = held \cup {s}
                    /\ opened' = [opened EXCEPT ![s] = i]
               ELSE /\ fdtable' = [fdtable EXCEPT ![s].ino = NOINO]
                    /\ UNCHANGED <<held, opened>>
       /\ UNCHANGED <<pwd, dir, panic, listed, ended>>

(* open(path, O_RDONLY) on a path under the initrd. *)
Open(in) ==
    /\ panic = "none"
    /\ UnderInitrd(FullPath(in))
    /\ InitrdOpen(RelPath(FullPath(in)))

(* initrd_read copies up to length bytes from header->offset +           *)
(* file->offset into the caller's buffer (none at or past the end, fewer  *)
(* near it) and never moves file->offset: no kernel state changes.       *)
InitrdRead(fd) ==
    UNCHANGED vars

(* read(fd, buf, length) on an fd the caller holds.  fileio's asserts     *)
(* (fd <= MAX_OPEN_FILES, file->mp != NULL) hold for such an fd; that is  *)
(* HeldFdsLive below.                                                      *)
Read(fd) ==
    /\ panic = "none"
    /\ fd \in held
    /\ fdtable[fd].mp
    /\ InitrdRead(fd)

(* Mutant: initrd_close hands the slot back with _next_fd--. *)
InitrdCloseGiveBack(fd) ==
    /\ fdtable' = [fdtable EXCEPT ![fd] = ZeroFile]
    /\ next_fd' = next_fd - 1
    /\ held' = held \ {fd}
    /\ UNCHANGED <<pwd, dir, panic, opened, listed, ended>>

(* initrd_close: kfree(file->path), then the entry is zeroed. *)
InitrdClose(fd) ==
    /\ fdtable' = [fdtable EXCEPT ![fd] = ZeroFile]
    /\ held' = held \ {fd}
    /\ UNCHANGED <<next_fd, pwd, dir, panic, opened, listed, ended>>

(* close(fd) on an fd the caller holds. *)
Close(fd) ==
    /\ panic = "none"
    /\ fd \in held
    /\ fdtable[fd].mp
    /\ InitrdClose(fd)

-----------------------------------------------------------------------------
(* The dirent layout of initrd_opendir.  struct dirent holds 12 bytes of  *)
(* fixed fields and a name of DIRENT_NAME_LEN bytes (the 256 of the       *)
(* comment at initrd.c:118; the header is not in this tree).              *)
DIRENT_NAME_LEN == 256
DirentSize == 12 + DIRENT_NAME_LEN

(* Mutant: the padding rounds down ("d_reclen &= ~3" without the += 4). *)
RecLenNoPad(namlen) ==
    LET r == 12 + namlen + 1 IN
    IF r % 4 # 0 THEN r - (r % 4) ELSE r

(* d_reclen = 12 + d_namlen + 1, padded up to a multiple of 4. *)
RecLen(namlen) ==
    LET r == 12 + namlen + 1 IN
    IF r % 4 # 0 THEN (r - (r % 4)) + 4 ELSE r

(* dir->_buflen for an image of n files. *)
BufLen(n) == n * (DirentSize - DIRENT_NAME_LEN + 64 + 4) + DirentSize

(* The names are cut to 63 bytes by strlcpy(dent->d_name, ..., 64). *)
RecLens == [i \in Inos |-> RecLen(IF NameLen[i] > 63 THEN 63 ELSE NameLen[i])]

(* RecStart[k]: the dir->len at which record k is written. *)
RecStart == [k \in 0 .. NFiles |-> SumFunctionOnSet(RecLens, 0 .. k - 1)]

(* initrd_opendir(mp, path): only "/" (the image root) may be opened; the *)
(* records are laid out one after another in a zeroed buffer.            *)
InitrdOpendir(rel) ==
    \/ /\ rel # <<>>
       /\ Halt("opendir_subdir")
    \/ /\ rel = <<>>
       /\ dir' = [pos |-> 0, len |-> RecStart[NFiles], buflen |-> BufLen(NFiles)]
       /\ listed' = <<>>
       /\ ended' = FALSE
       /\ UNCHANGED <<next_fd, fdtable, pwd, panic, held, opened>>

(* opendir(path) on a path under the initrd; the caller keeps one DIR. *)
Opendir(in) ==
    /\ panic = "none"
    /\ dir = NULL
    /\ UnderInitrd(FullPath(in))
    /\ InitrdOpendir(RelPath(FullPath(in)))

(* The record that starts at byte pos of the buffer, or NOINO where the   *)
(* zeroed buffer holds d_reclen = 0.                                      *)
RecAt(pos) ==
    IF \E k \in Inos : RecStart[k] = pos
      THEN CHOOSE k \in Inos : RecStart[k] = pos
      ELSE NOINO

(* The asserts of initrd_readdir (lines 161-168, 171) before it returns   *)
(* the record k at pos.                                                    *)
ReaddirAsserts(d, k) ==
    /\ d.len > d.pos
    /\ d.pos % 4 = 0
    /\ d.buflen > d.len
    /\ k # NOINO
    /\ d.pos + DirentSize < d.buflen
    /\ (d.pos + RecLens[k]) % 4 = 0

(* Mutant: the end test "dir->pos > dir->len". *)
AtEndGt(d) == d.len # 0 /\ d.pos > d.len

(* "dir->len != 0 && dir->pos >= dir->len": everything was read. *)
AtEnd(d) == d.len # 0 /\ d.pos >= d.len

(* initrd_readdir: at the end, assert pos == len and return NULL;        *)
(* otherwise return the record at pos and step pos past it.             *)
InitrdReaddir ==
    \/ /\ AtEnd(dir)
       /\ panic' = IF dir.pos = dir.len THEN "none" ELSE "readdir"
       /\ ended' = TRUE
       /\ UNCHANGED <<next_fd, fdtable, pwd, dir, held, opened, listed>>
    \/ /\ ~AtEnd(dir)
       /\ LET k == RecAt(dir.pos) IN
          IF ReaddirAsserts(dir, k)
            THEN /\ dir' = [dir EXCEPT !.pos = @ + RecLens[k]]
                 /\ listed' = Append(listed, k)
                 /\ UNCHANGED <<next_fd, fdtable, pwd, panic, held, opened, ended>>
            ELSE Halt("readdir")

(* readdir(dir) on the caller's open DIR. *)
Readdir ==
    /\ panic = "none"
    /\ dir # NULL
    /\ InitrdReaddir

(* initrd_closedir: dir->buf and the DIR are zeroed and kfree'd. *)
InitrdClosedir ==
    /\ dir' = NULL
    /\ UNCHANGED <<next_fd, fdtable, pwd, panic, held, opened, listed, ended>>

(* closedir(dir) on the caller's open DIR. *)
Closedir ==
    /\ panic = "none"
    /\ dir # NULL
    /\ InitrdClosedir

(* stat(path, buf) on a path under the initrd: init_initrd never sets    *)
(* mp->fops.stat, so assert(mp->fops.stat != NULL) fires.                *)
Stat(in) ==
    /\ panic = "none"
    /\ UnderInitrd(FullPath(in))
    /\ Halt("stat")

-----------------------------------------------------------------------------
(* chdir's check of the new path: "verified" starts at "/"; for each     *)
(* component, the directory verified is listed (opendir/readdir); a      *)
(* directory entry of that name is joined to verified, any other entry of *)
(* that name is an error, and a name not listed leaves verified as it is. *)
(* NULL stands for the error exit.                                        *)
RECURSIVE ChdirWalk(_, _)
ChdirWalk(toks, verified) ==
    IF toks = <<>> THEN verified
    ELSE LET cand == Append(verified, Head(toks)) IN
         IF cand \in Dirs THEN ChdirWalk(Tail(toks), cand)
         ELSE IF cand \in Regs THEN NULL
         ELSE ChdirWalk(Tail(toks), verified)

(* Mutant: the final stricmp(verified, current_task->pwd) is left out. *)
ChdirNoCheck(in) ==
    \/ /\ pwd = NULL
       /\ Halt("chdir_pwd")
    \/ /\ pwd # NULL
       /\ LET path == IF in.abs THEN in.toks ELSE pwd \o in.toks IN
          pwd' = IF ChdirWalk(path, <<>>) # NULL THEN path ELSE pwd
       /\ UNCHANGED <<next_fd, fdtable, dir, panic, held, opened, listed, ended>>

(* chdir(in_path): assert(pwd != NULL); the new path is stored in pwd     *)
(* first; if the check fails or verified differs from it, the old pwd is *)
(* put back (the new buffer is not freed), else the old one is freed.     *)
Chdir(in) ==
    \/ /\ pwd = NULL
       /\ Halt("chdir_pwd")
    \/ /\ pwd # NULL
       /\ LET path == IF in.abs THEN in.toks ELSE pwd \o in.toks IN
          pwd' = IF ChdirWalk(path, <<>>) = path THEN path ELSE pwd
       /\ UNCHANGED <<next_fd, fdtable, dir, panic, held, opened, listed, ended>>

Next ==
    \/ \E in \in PathArgs : Open(in) \/ Opendir(in) \/ Stat(in) \/ Chdir(in)
    \/ \E fd \in Slots : Read(fd)
    \/ \E fd \in Slots : Close(fd)
    \/ Readdir
    \/ Closedir

(* No call waits for anything, and a task is not obliged to make calls:  *)
(* no fairness.                                                          *)
Spec == Init /\ [][Next]_vars

-----------------------------------------------------------------------------
TypeOK ==
    /\ next_fd \in 0 .. MaxOpenFiles
    /\ fdtable \in [Slots -> [ino : Inos \cup {NOINO}, offset : Nat,
                              mp : BOOLEAN, path : BOOLEAN]]
    /\ pwd \in Dirs \cup {NULL} \cup Seq(Tokens)
    /\ dir \in {NULL} \cup [pos : Nat, len : Nat, buflen : Nat]
    /\ panic \in {"none", "open_subdir", "open_full", "opendir_subdir",
                  "readdir", "stat", "chdir_pwd"}
    /\ held \subseteq Slots
    /\ opened \in [Slots -> Inos \cup {NOINO}]
    /\ listed \in Seq(Inos) /\ ended \in BOOLEAN

(* Every fd open returned and the caller has not closed still names the  *)
(* file it opened, with its mountpoint set, whatever opens, failed opens *)
(* and closes of other fds came between: open never hands out a slot in *)
(* use, so fileio's assert(mp != NULL) in read and close cannot fire.     *)
HeldFdsLive ==
    \A fd \in held : fdtable[fd].mp /\ fdtable[fd].ino = opened[fd]

(* readdir on the initrd root returns the image's files once each, in    *)
(* order, with dir->pos at the start of the next record, and once it has *)
(* returned NULL all of them were returned; no assert of initrd_readdir   *)
(* fires on the way.                                                     *)
DirectoryListing ==
    /\ panic # "readdir"
    /\ dir # NULL =>
         /\ listed = [j \in 1 .. Len(listed) |-> j - 1]
         /\ dir.pos = RecStart[Len(listed)]
         /\ ended => Len(listed) = NFiles

(* chdir only ever leaves pwd naming a directory of the namespace: the   *)
(* new path is kept only when every component was found as a directory. *)
PwdIsDirectory == pwd # NULL => pwd \in Dirs

(* The dirent layout initrd_opendir builds is sound: while a DIR is     *)
(* open, each of its records is 4-aligned, holds the 12 fixed bytes and   *)
(* the name with its NUL and less than 4 bytes of padding, fits a struct  *)
(* dirent, and a whole struct dirent read at its start lies inside        *)
(* dir->buf (the asserts at initrd.c:144 and 168).                        *)
DirentLayoutFits ==
    dir # NULL =>
      \A k \in Inos :
        LET n == IF NameLen[k] > 63 THEN 63 ELSE NameLen[k] IN
        /\ RecLens[k] % 4 = 0
        /\ 13 + n <= RecLens[k] /\ RecLens[k] < 17 + n
        /\ RecLens[k] <= DirentSize
        /\ RecStart[k] + DirentSize < dir.buflen

=============================================================================
