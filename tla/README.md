# TLA+ models of the exscapeOS kernel core

This directory holds TLA+ models of the scheduling core of exscapeOS
(`src/src/kernel/`): the task model and scheduler tick, the mutex, the
intrusive list, the deferred-work queue (kernel worker), the file calls
over the initrd and both keyboard drivers, the text console of
`src/lib/monitor.c`, and the user-space shell
`eshell` (`src/src/userspace/eshell/main.c`). Each module is
written from the C source. The TLC configurations check them, and
`PROJECT.json` lists the runs, the mutants, the line map and the findings.

## 1. Inventory

| Component | Source | State | Operations |
|---|---|---|---|
| Task model and scheduler | `task.c` | `ready_queue` (singly linked, `kernel_task` first), `current_task`, per task `state`, `wakeup_time`, `next`; `next_pid`; `task_switching`; the tick counter (timer.c, not in the source) | `create_task`, `kill`, `kill_pid`, `exit_proc`, `sleep`, `getpid`, `scheduler_taskSwitch` (timer IRQ0 and `int 0x7e`), `switch_task`, `init_tasking` |
| Mutex | `mutex.c`, `mutex.h` | `mutex->mutex` (bit 0), `mutex->owner` | `mutex_create`, `mutex_lock` (LOCK BTS, then yield and retry), `mutex_unlock`, `mutex_destroy`, `mutex_is_locked` |
| Intrusive list | `list.c` | `head`, `tail`, `count`; per node `prev`, `next`, `list`, `data` | `list_create`, `list_prepend`, `list_append`, `list_node_insert_before/after`, `list_remove`, `list_destroy`, `list_find_first/last`, `list_node_find_next_predicate`; `list_validate` after every mutation (`LIST_DEBUG` is 1) |
| Kernel worker | `kworker.c` | a list of items (function, payload copy, length, priority), the worker task | `kworker_create`, `kworker_add` (from interrupt context), `kworker_remove`, the drain loop `kworker_task` |
| File I/O, initrd | `fileio.c`, `initrd.c` | per-task `fdtable`, `_next_fd`, `pwd`; a `DIR`'s dirent buffer, `pos`, `len` | `open`, `read`, `close`, `opendir`, `readdir`, `closedir`, `stat`, `chdir` (with `find_relpath`), `initrd_open/read/close/opendir/readdir/closedir`, `init_initrd` |
| Keyboard | `src/src/kernel/keyboard.c`; the older `src/kernel/keyboard.c` | `mod_keys` (Ctrl/Shift/Alt bits); each console's key `struct ringbuffer` (`read_ptr`, `write_ptr`, `counter`, `data`) | `init_keyboard`, `keyboard_callback` (IRQ1) |
| Start-up (the keyboard's part) | `kmain.c` | the kernel console's keybuffer, `virtual_consoles[]` | keybuffer set-up (lines 70-75), `init_keyboard` (151), `virtual_consoles[0]` and the `console_create` loop (256-268) |
| Shell | `userspace/eshell/main.c` | `buf`, the environment, the working directory, `last_wd`; per line `argv`, `extra_env`, the redirections | the read-eval loop of `main`: `fgets`, `replace_variables` (with `str_replace`), `parse_command_line`, the redirect scan, `cd`/`pwd`/`export`/`unset`, `fork` with the child's set-up, `waitpid` |
| Console | `src/lib/monitor.c` | `cursor`, the 80 x 25 cells at `0xb8000`, `print_time`'s `old_sec` | `putchar` (with `scroll`), `print`, `printk`, `clrscr`, `print_time`; `update_cursor` (never called) |
| Rest of start-up, IDT, other user programs | `kmain.c`, `kernel.c`, `idt.c`, `userspace/fork`, `userspace/guess` | hardware set-up | straight-line code |

How the components interact: the timer IRQ and the software interrupt
`0x7e` both call `scheduler_taskSwitch`. It is the only place where
`current_task` changes. Tasks call `sleep`, `mutex_lock` and `kill`. These
change task or mutex state and then raise `int 0x7e`. The kernel worker is
a task created by `create_task`. Its item list is a `list_t`. Interrupt
handlers append to that list while the worker task removes from it. The
keyboard IRQ handler writes the keys into the ring buffer of the current
console, whose reader (the console's `getchar`) is not in this tree; kmain
sets up that buffer and registers the handler during boot. The shell is a
user program: it reaches the kernel only through libc calls (`fgets`,
`chdir`, `getcwd`, `fork`, `waitpid`), which its model treats as atomic
steps with their documented results.

What makes this core hard:

* **Preemption between statements.** There is one CPU. The timer can still
  interrupt a task between any two statements unless interrupts are off, and
  `task_switching` is only cleared inside `create_task` and `kill`. `sleep`,
  `mutex_lock`, `mutex_unlock` and the worker's list edits all run with
  preemption enabled.
* **Interrupt context against task context.** `kworker_add` runs inside an
  ISR. The worker's `list_remove` can be caught half-way through.
* **Self-destruction.** `kill(current_task)` frees the control block. The
  scheduler then still uses its saved `->next`.
* **Time.** The tick counter and the deadlines are `uint32`. The
  milliseconds-to-ticks conversion rounds down.
* **Fairness.** Mutex waiters spin with cooperative yields. The wake-up path
  cuts into the round-robin rotation.

Properties that make each component correct:

* Scheduler: the ready queue is a chain from `kernel_task` with unique ids,
  and `current_task` is in it. A SLEEPING task has a nonzero deadline and a
  RUNNING task has a zero one. No assert or panic fires. Every sleeper wakes, and every runnable task runs.
* Mutex: mutual exclusion; the owner is recorded correctly, so a holder's
  unlock does not assert; progress; no starvation (the spec's promise,
  which the code breaks; see section 4).
* List: `list_validate`'s invariants (head/tail ends, `count` matches the
  forward and backward walks, back references), and each operation does to
  the sequence what its name says.
* Kernel worker: every item added runs exactly once, eventually, and is
  freed only after it ran and left the list, whatever order the worker
  picks in (the code's FIFO and the comment's priority order disagree; see
  the kernel worker section).
* File I/O: an fd a task holds keeps naming its file; descriptors are not used up by opens that were
  closed or failed; readdir lists every file once and its asserts hold;
  `pwd` always names a directory.
* Keyboard: keys reach the reader of the console that was current, in
  order, across the ring buffer's wrap and its full check; the modifier
  bits follow the keys held; no key reaches a ring buffer kmain has not
  set up.
* Shell: every line is answered; the line never outgrows `buf`; the
  parser's pre-counts are enough for what it stores; arguments split as
  the comments say; the child gets exactly the redirections written.

## 2. Plan

Modules, in order of importance:

1. `Sched` (done): the task model and scheduler tick. `MCSched`
   instantiates it.
2. `Mutex` (done): `mutex_lock`/`mutex_unlock` statement by statement under
   round-robin preemption, and `mutex_destroy`.
3. `List` and `ListSpec` (done): the pointer-level list refines the
   abstract sequence. The lookups are RECURSIVE pointer walks, checked
   against definitions on the sequence.
4. `KWorker` and `WorkQueue` (done): `KWorker` composes `List`
   (`L == INSTANCE List`). It adds the interrupt-context `kworker_add` and
   the worker's drain loop, with `list_remove` split into its stores.
   `KWorker` refines `WorkQueue`, a work queue that leaves the run order
   open.
5. `FileIO` (done): the file calls of `fileio.c` over `initrd.c` for one
   task.
6. `Keyboard` (done): `keyboard_callback` as one atomic IRQ step, with the
   keyboard-related steps of `kmain` as the second actor and the buffer's
   reader as the environment.
7. `Eshell` (done): `main`'s read-eval loop of the shell, one action per
   outcome of a line, with `replace_variables` one loop iteration per step
   and `parse_command_line` and the redirect scan as RECURSIVE operators
   checked against reference definitions.
8. `Monitor` and `OldKeyboard` (done): the console of `src/lib/monitor.c`
   and the first keyboard driver `src/kernel/keyboard.c`, which echoes
   every key through `printk`; the screen is checked against the output
   laid out on a page that never scrolls.
9. Still to do: the mutex and the kernel worker on top of `Sched`'s real
   scheduler (sleepers and the wake-up path) instead of the plain ring, if
   the state space allows.

## 3. Modules, runs and what they show

### Sched (`Sched.tla`, `MCSched.tla`)

State: `queue` is the sequence of ids reached from `ready_queue` by
`->next`. The other variables are `current`, `state`, `wakeup`, `next_pid`
and `ticks`. `pc` gives each task's position inside `sleep()`. `sl_start`
and `sl_wait` are `sleep()`'s locals. `halted` means a panic or a
failed assert. Actions:

* `Tick` is IRQ0: the counter advances, then `scheduler_taskSwitch` runs.
* `CreateTask` is one step, because `create_task` disables interrupts.
* `Kill`/`KillPid`/`ExitProc` are one step because `task_switching` is off
  while the queue is edited. A self-kill ends in the forced switch through
  the victim's stale `->next`.
* `SleepBegin`, `SleepMark`, `SleepDeadline` and `SleepYield` are `sleep()`
  split where a tick can land.
* `Yield` is any other `int 0x7e`.

`Switch` is the scheduler's wake-up scan and round-robin choice.

Time: the model counts ticks up to `MaxTicks`. After that, a tick moves every
recorded deadline and start one tick back instead of advancing the counter.
This preserves every comparison the scheduler makes, and it lets liveness be
checked on a finite state space. `TickModulus` is the counter's width: it is
2^16, which the runs never reach. With a 2-bit counter (`TickModulus = MaxTicks = 4`)
`SleepNotEarly` (defined in `Sched`, not part of the `sched` run: with
`sleep()` atomic and no wrap it only restates the deadline store) fails: a deadline that wraps compares as already passed,
which at 100 Hz happens after about 497 days. `sleep()` also rounds the
milliseconds down (15 ms sleeps one tick), where the spec rounds up. The
runs check the code's own deadline, not the spec's rounding.

Bounds: kernel plus three created tasks (`MaxPid = 4`) and 100 Hz
(`MsPerTick = 10`). `sleep` takes 5 ms (below a tick) or 20 ms (two ticks).
`MaxTicks = 3`.

Fairness: `WF(Tick)`, because the PIT fires whatever the tasks do. Also
`SF` on the straight-line steps inside `sleep()`. Nothing forces a task to
create, kill, sleep or yield. `CHECK_DEADLOCK FALSE` is set because a panic
really stops the machine. Outside a halt, `Tick` is always enabled.

| Run | Expect | Shows |
|---|---|---|
| `sched` | pass | `QueueWellFormed`, `WakeupConsistent`, `NoPanic`, `SleepersWake` hold when no tick lands inside `sleep()` (the spec's assumption). |
| `sched_sleep_race` | violation | A tick between `state = SLEEPING` and the deadline store wakes the task at once. Its next `sleep()` asserts. |
| `sched_starvation` | violation | A task sleeping one tick at a time starves `kernel_task` and the tasks after its successor. |

### Mutex (`Mutex.tla`, `MCMutex.tla`)

Three tasks on a ring (the scheduler's rotation with no sleepers). `pc`
marks the statement each task executes next: `bts` (LOCK BTSL, then yield
on failure), `own` (the owner store), `cs`, `clr` (the asserts and the flag
clear) and `nul` (the owner clear). Fairness: `WF(Tick)`, plus `SF` on the
current task's steps inside lock/unlock. A task that is scheduled again and
again gets to run, and the spec assumes every holder unlocks. Calling
`mutex_lock` is never forced.

| Run | Expect | Shows |
|---|---|---|
| `mutex` | pass | Mutual exclusion under any preemption, and progress unless an assert halts. |
| `mutex_unlock_race` | violation | A tick between `mutex->mutex = 0` and `mutex->owner = NULL` erases the next holder's owner, so that holder's unlock asserts. |

`panic` records which function's assert stopped the kernel (`"unlock"` or
`"destroy"`), so `UnlockNeverPanics` is about `mutex_unlock` alone.
`Destroy` is `mutex_destroy` called by a task that does not hold the mutex.
Nobody calls `mutex_lock` on the mutex after it is destroyed. Tasks already
inside `mutex_lock` go on: their next BTS writes into the freed block,
since `mutex_destroy` only checks the flag and the owner. The spec says
nothing about waiters, so no property states it.

### List (`List.tla`, `ListSpec.tla`, `MCList.tla`)

State: `Lists` is a set of `list_t` slots (`alive`, `head`, `tail`,
`count`). `Nodes` is the pool of `node_t` blocks (`nxt`, `prv`, `lst`,
`data`), and `heap` is the set of allocated nodes. Each `list.c` function
runs to completion and is called from one context at a time, so each is
one action:

* `ListCreate`, `ListPrepend` and `ListAppend`.
* `InsertBefore` and `InsertAfter`, including their delegation to
  prepend/append at the ends.
* `ListRemove` and `ListDestroy`.

`list_validate`'s asserts are `ListValid`. A freed node's fields are reset
to NULL, because `kmalloc` overwrites all four before the node is reachable
again. `call` is a history variable naming the function that took the
step. It lets the refinement tie each step to its call.

`ListSpec` is what the spec promises: each list is a sequence of
`<<node, data>>`, and each call inserts at, or removes from, the place its
name says. `Refines` checks `List` against it under the mapping "walk
`->next` from `head`". The lookups `FindFirst`, `FindLast` and
`FindNextPredicate` walk the pointers as the code's loops do (`Scan`,
`ScanBack`). `FindsAgree` compares them with `RefFind*`, which are defined
on the sequence. A predicate is the set of data values it accepts.

Bounds: two lists (so `node->list` matters), three nodes (a middle node,
and a remove with both neighbours) and two data values (so find_first and
find_last differ). Symmetry over the list slots and the data values is used.
Every property is a safety property.

| Run | Expect | Shows |
|---|---|---|
| `list` | pass | `Validate` (list_validate never fails), `NoLeak` (allocated nodes are exactly the nodes on live lists, and the `->prev` chain mirrors `->next`), `FindsAgree` and `Refines` (insert_after really inserts after its node, and so on). |

### File I/O (`FileIO.tla`, `MCFileIO.tla`)

One task's file calls. `fdtable` is `current_task->fdtable[]`, with each
entry reduced to `ino` (`NOINO` for 0xffffffff), `offset`, whether `mp` and
`path` are set. `next_fd` is `_next_fd`. `pwd` is NULL or a path, and `dir`
is the caller's one `DIR` (`pos`, `len`, `_buflen`). Only the current task
touches its own table and `pwd`, and no call yields, so each call is one
action. Each fileio wrapper is an action that calls the initrd function it
dispatches to:

* `Open(in)` runs `find_relpath`, then `InitrdOpen`. A path with a
  directory part asserts (`initrd.c:53`), and so does a full table (line
  57). Otherwise the slot `fdtable[_next_fd++]` is taken *before* the
  lookup, and a missing name returns -1 with the slot spent.
* `Read(fd)` runs `InitrdRead`, which copies bytes out and changes no
  kernel state: it never moves `offset` (see section 4).
* `Close(fd)` runs `InitrdClose`, which zeroes the entry and leaves
  `_next_fd` alone.
* `Opendir`, `Readdir` and `Closedir` follow `initrd_opendir`'s record
  layout (`RecLen`, `RecStart`, `BufLen`) and `initrd_readdir`'s
  end test and asserts.
* `Stat` always asserts: `init_initrd` never sets `fops.stat`.
* `Chdir` asserts on a NULL `pwd`. Otherwise it checks the new path
  component by component (`ChdirWalk`, the `opendir`/`readdir` loop) and
  keeps it only if the result equals the path.

The caller is a history: the fds it holds (`held`), the file each one
opened, and what `readdir` returned. It reads and closes only fds it holds. `create_task` memsets the
task, so the table starts zeroed and `_next_fd` starts at 0. `pwd` starts
NULL, or "/" as the process set-up would leave it (that code is not in this
tree).

Abstractions: paths are sequences of components. The namespace is a
constant (`Dirs`, `Regs`), with the initrd mounted at `InitrdMount` and its
files directly below it. The mount table and the other file systems are
not in this tree, so `open`, `opendir` and `stat` are called only on paths
under the initrd. Names are compared for equality (`stricmp`'s case folding
is left out). The size of `struct dirent` is 12 fixed bytes plus 256 name
bytes, as the comments at `initrd.c:118` and `136` say; the header is not
in the tree.

Bounds: three fd slots, so opens, failed opens and closes interleave before
the table is used up. The namespace has `/a` (the initrd mount), `/b` and
`/f`; the image holds `f` and `b`, of 1 and 3 bytes, with names of 63
bytes and 1 byte. `/a/a` is missing. Paths have up to two components,
absolute or relative. No
fairness is assumed: a task is never obliged to call. `CHECK_DEADLOCK
FALSE` is set because an assert stops the kernel for good.

| Run | Expect | Shows |
|---|---|---|
| `fileio` | pass | `HeldFdsLive` (every fd a task holds names its file with `mp` set, so `read`/`close`'s asserts hold), `DirectoryListing` (readdir returns each file once, in order, then NULL, with no assert), `PwdIsDirectory` (chdir never installs a path with a missing or non-directory component) and `DirentLayoutFits` (records are aligned, padded by less than 4 bytes, and a whole `struct dirent` read at each lies in the buffer). |

### Keyboard (`Keyboard.tla`, `MCKeyboard.tla`)

`keyboard_callback` (`src/src/kernel/keyboard.c:153-303`) runs in IRQ1 on a
single CPU, so the whole handler is one step, `KeyboardCallback(sc)`. Its
disjuncts follow the code's order of early returns: the `0xe0` byte, the
Ctrl+Alt+Delete `reset()` (on the 0xd3 break code of Delete), Alt+F1..F4
(`current_console` switches only to a console `virtual_consoles[]`
already holds), the modifier `switch` (`ModifierUpdate`: a make code sets
the bit, a break code of either key of the class clears it), the
scrollback hotkeys (`last_call` records which `scrollback_*` ran), a key
that maps to 0 (releases, unsupported combinations, empty entries), and
`PutKey`, which holds the `write_ptr` assert, the `counter ==
KEYBUFFER_SIZE` panic and the write with the wrap of `write_ptr`.
`mod_keys` is kept as a set of flags rather than a bitmask. `reset()`
reboots: every kernel variable goes back to its boot value.

`KmainStep` is kmain's side, in kmain's order (`KmainOrder`): the kernel
console's keybuffer set-up (`kmain.c:70-75`), `init_keyboard` (151),
`virtual_consoles[0] = &kernel_console` (256) and the loop that creates
consoles 1.. with `console_create` (262-268). `console.c` is not in the tree;
a created console is taken to have an empty, set-up ring buffer. A
scancode that arrives before `init_keyboard` has no handler and is dropped.
The environment presses and releases keys (`down` is what is physically
held), sends `0xe0` bytes, and reads the oldest key of a console
(`Getchar`). History variables `typed` and `consumed` record what the
handler stored and what the reader took, per console.

`MCKeyboard` has both shift keys, Ctrl, Alt, F1, F2, arrow up, Delete, `d`
and `1`, with their real entries in `kbdmix`, `kbdse_shift` and
`kbdse_alt` (Alt+1 is empty). There are two consoles and `KEYBUFFER_SIZE`
is 2. `KEYBUFFER_SIZE` is not defined in this tree, and 2 is the smallest
size at which the write pointer wraps with a key still unread. At most 6
scancodes are sent. That is enough to fill a buffer, wrap it, switch
consoles, press Ctrl+Alt+Delete, and press and release both shifts. No
fairness is assumed: the reader's code is not in the tree. `CHECK_DEADLOCK
FALSE` is set because the full-buffer panic stops the machine.

| Run | Expect | Shows |
|---|---|---|
| `keyboard` | pass | `KeysInOrder` (per console, what the reader took followed by what is still in the ring equals what the handler stored, across wraps, console switches, resets and the full-buffer panic), `ModsHeld` (a modifier bit is set only while a key of its class is held) and `NoKeyBeforeKeybuffer` (kmain's order keeps `assert(write_ptr != NULL)` from firing, including Alt+Fn during boot). |

### Console and first keyboard driver (`Monitor.tla`, `OldKeyboard.tla`, `MCOldKeyboard.tla`)

`Monitor` models `src/lib/monitor.c`. Its state is `cursor`, `vram` (cell
to character; a cell is a character, `BLANK` for a zero byte, or `BIOS`
for what the loader left; the attribute byte is left out) and
`print_time`'s static `old_sec`.

* `Putchar(st, c)` is `putchar` (64-99) as an operator on the state:
  newline, backspace (never back across a line), a printable character
  written at the cursor with the wrap at column `W`, anything else dropped,
  and then `Scroll` (46-62), which at `y = H` moves every row up and
  blanks the last.
* `PrintStr` is `print`, a `FoldLeft` of `Putchar`. `Printk(s)` is `printk`
  with the formatted text `s` as its input.
* `Clrscr` is `clrscr`. `PrintTime(t)` is `print_time`: nothing when the
  second is unchanged, else it clears the first `TimeClear` cells of the
  bottom row, prints the clock text there and restores the cursor.

`OldKeyboard` extends `Monitor` with `src/kernel/keyboard.c`:
`keyboard_callback` (111-190) is one step, because IRQ1 runs behind an
interrupt gate (`idt.c`, flags `0x8e`). It ignores `0xe0`, sets or clears
the `shift`, `ctrl` and `alt` bytes of `mod_keys` on a modifier code
(`ModifierUpdate`), and otherwise echoes the key with `printk`
(`Echo`: `kbdus[]`, `kbdse_shift[]` with shift, the "Not implemented"
text with ctrl or alt, nothing for a break code or a zero entry). The
keyboard is the environment (`Press`, `Release`, `Prefix`). `clrscr` and
`print_time` interleave between interrupts; their callers are not in the
tree.

Two history variables serve the properties. `held` is the set of modifier
keys that are down. `log` and `base` are what was drawn since the last
`clrscr` and the screen at that point. `Ref` lays `log` out on a page that
never scrolls. `ScreenShowsLog` says the screen is the last `H` rows of
that page and the cursor sits at its end, which is what wrap, scroll and
the clock's save and restore of the cursor together must keep.

Bounds: a 3 x 2 screen, four keys (`a`, `4`, Enter, Backspace) plus the
four modifiers, two clock texts of one cell clearing two cells, and
`MaxLog = 4` entries between two `clrscr` calls. Four entries reach a
wrap on the last row, a scroll by newline, a clock drawn on a scrolled
screen and backspace at column 0. No fairness: nobody has to type.
Deadlock is checked; `clrscr` is always enabled.

| Run | Expect | Shows |
|---|---|---|
| `old_console` | pass | `TypeOK` (the cursor is always on the screen, so the write at `cursor.y*80*2 + cursor.x*2` stays in video memory), `ScreenShowsLog` (the screen is what the echoed output and clocks draw on a page that never scrolls) and `ModsHeld` (a set modifier byte has one of its keys down). |

### Kernel worker (`KWorker.tla`, `WorkQueue.tla`, `MCKWorker.tla`)

`KWorker` uses `List` for `worker->tasks` (one list `WL`).

* `Add(i)` is `kworker_add` from an ISR. Interrupts are off inside an ISR,
  so the step is atomic: `ListAppend`, `list_append`'s own asserts and the
  closing `list_validate`.
* The worker task runs with interrupts enabled. Its steps are `Yield` (the
  empty-list loop), `Pick`, `Run` (the callback), then `list_remove`'s
  stores one by one: `UnlinkPrev`, `UnlinkNext`, `Dec`, `FixHead`,
  `FixTail`, `ValidateStep`. `FreeItem` (the `kfree`s) comes last.
* `Pick` takes the head in both branches, because the priority scan
  compares each item with itself.

With `RemoveAtomic`, no interrupt lands inside `list_remove`. That is what
spec section 5 requires: the list is mutated only with switching disabled.

The comment at line 96 says the highest priority runs first. The scan at
line 101 compares each item with itself, so the code runs the oldest item
first and the priorities have no effect. No run checks either order:
`WorkQueue` leaves the order open on purpose, so that passing says nothing
about it. `PickHighest` in `KWorker` is the comment's pick. With it in
place of `Pick`, `Refines` still holds. With the comment's order stated
as a property, TLC fails it at once with two items of different
priorities.

`WorkQueue` is what the worker promises whatever its order. `pending` is
the items on the list whose function has not run yet, and `done` is `ran`.
An item is added once and run only while it is pending, so each runs
exactly once. Per-item weak fairness (`WF(RunOne(i))` for every `i`) says
that every item added is eventually run, not merely some item. The mutant
`FixHeadSkip` is a `list_remove` that forgets `list->head = elem->next`.
The worker's `list_validate` then halts it with an item still waiting, so
`Refines` fails.

Fairness: `WF` on the worker's steps. The worker is a RUNNING task that
never sleeps, so the round-robin keeps scheduling it. Interrupts are never
forced.

Bounds: three items with distinct priorities and three nodes. An append
can land on a list of length 0, 1 or 2 at every point of a removal.

| Run | Expect | Shows |
|---|---|---|
| `kworker` | pass | `ItemLifecycle` (records are freed once, after they run, and never while on the list) and `Refines` (every item exactly once and eventually, in any order) when removal is not interrupted. |

`RemoveAtomic = FALSE` lets an interrupt land between `list_remove`'s
stores. TLC then finds an append after `elem->next->prev = elem->prev`
that sees `node1->next->prev != node1`, and the ISR's `list_validate`
asserts (`list.c:268`): `NoPanic` in `KWorker` is the property to add
for that check. With `RemoveAtomic` it only repeats `List`'s `Validate`,
so the `kworker` run does not check it. No ISR in the tree calls `kworker_add`, so this
is not a run of its own: set `RemoveAtomic = FALSE` in `MCKWorker.cfg` to
reproduce it.

### Shell (`Eshell.tla`, `MCEshell.tla`)

`main` of `src/src/userspace/eshell/main.c` as one sequential process.
`pc` is where the shell is: `prompt` (in `fgets`), `replace` (inside
`replace_variables`' loop), `run` (after `parse_command_line`), `child`
(in `waitpid`), `exited` or `aborted` (an assert failed). `buf` is the line,
`p` is `replace_variables`' cursor, `env` is the environment (name to
value), and `cwd`/`last_wd` are the working directory and `main`'s
`last_wd`. `parsed` is what `parse_command_line` returned for the line, and
`child` is what the forked child set up before `execvp`. `nread`, the
lines read (bounded by `MaxLines`), is a history. `Cd` is lines 427-460
as one step. It overwrites `last_wd` before `chdir` and restores it on
failure, which in one process is the same as keeping it. So no property
is stated about `cd -`.

Actions: `ReadLine`/`Eof` are `fgets`; `ReplaceStep` is one iteration of
`replace_variables` (`ReplaceIter`: the escape case, the lone-`$` case and
`str_replace` with its fit test), and `ReplaceDone` its exit together with
`parse_command_line`. After that each outcome of the line is an action:
`AssertFails` (an assert of the parser), `NothingToDo`, `Exit`,
`RedirError` (an operator first or last), `Cd`, `Pwd`, `Export`, `Unset`,
`Fork` (the child's redirections and extra environment, then the parent
waits) and `ForkFails`; `Wait` is `waitpid` returning. Every path back to
the prompt is `ToPrompt`, which runs `setenv("HOME", "/", 1)` as
`next_input` does.

`parse_command_line` is `ParseLoop`, one call of `ParseBody` per pass of
its loop, with the pre-count of lines 145-153 as `PreCount` and the
asserts at 213 and 226 as the `err` field. The redirect scan of lines
355-405, which restarts from `argv[0]` after every removal, is `RedirScan`.
Each is checked against a reference definition written from the code's
comments: `RefParse` (words split at spaces outside quotes, the leading
`key=value` words kept for the child) and `RefRedir` (one left-to-right
pass).

Abstraction: the bytes of a line are symbols. A word symbol stands for a
run of printable bytes that holds none of the bytes the code tests (space,
tab, newline, `"`, `=`, `$`, `\`), and `Width` gives its length, so the
length checks of `str_replace` and the fit in `buf` count real bytes.
`getenv` and the environment are functions of names; `chdir` succeeds on
the directories in `Dirs`; printing and the prompt are left out.

Bounds: `BUF_SIZE = 24` bytes stand for the 1024 of `buf`, so that the
substitution `$A $A $A` with `A=xxxxxxxx` reaches the fit test's edge and
its "too long" case. Up to three lines (`MaxLines`), drawn from every line
of at most five symbols over `a`, space, `"` and `=` (which exercises the
quote and pre-count cases), plus eighteen commands that use variables,
builtins, `cd -` after a failed `cd`, and every redirection
operator, including two in a row and `2>&1`. The escaped `\$A` and the
lone `$` are in the four lines of `eshell_dollar_hang`.

Fairness: weak fairness on the shell's own steps once a line is read: it
is one runnable process and nothing else competes with its loop. The user
owes nothing, so `ReadLine` has no fairness. The pass run checks safety
only; `EveryLineAnswered` is checked in the small run `eshell_dollar_hang`
(four lines), because liveness checking over the pass run's line set is
too slow. `CHECK_DEADLOCK FALSE`: the shell ends on `exit`, end of input or
an assert.

| Run | Expect | Shows |
|---|---|---|
| `eshell` | pass | `TypeOK` (the line always fits in `buf`, counting `str_replace`'s truncation), `ArgvFits` (the argv pre-count is never too small for the assert at 226), `ParseMatchesReference` (when no assert fires, `argv` and the child's extra environment are the words the comments describe), `ChildSetup` (the child runs with exactly the arguments and redirections a single scan gives, and no operator left in `argv`). |
| `eshell_dollar_hang` | violation | `EveryLineAnswered`: after `export A=a`, the line `a $` makes `replace_variables` `continue` (lines 84-85) without moving `p`, so `strchr` finds the same `$` forever and the shell never returns to the prompt. |

## 4. Not modelled

Stacks, the TSS and segment registers are left out, as are page
directories, the heap (allocation never fails, as the spec says), the VFS
mount table and the file systems other than the initrd, the drivers
other than the keyboard, and user programs other than the shell.
`idt_install` and `idt_set_gate` (`idt.c`) are straight-line descriptor
set-up; their one consequence for the models is that ISRs are not
interrupted. `isr_handler` prints and calls `panic`, which is not in the
tree; `src/kernel/kernel.c` is an early prototype of the same set-up.
`update_cursor` only writes the CRT ports and no call to it is live.
`putchar` moves the cursor to row 25 before `scroll()`; a `printk` from
IRQ1 landing in between would write below the screen. This generation's
task-context caller is not in the tree, so the model runs `clrscr` and
`print_time` between interrupts. The console drops tabs, and backspace
never crosses a line, as the code does.
`chdir` leaks the new `pwd` string on every failed call
(`fileio.c:140`, `176`). The model follows the `pwd` pointer, not the
heap, so no run checks the leak. For an image with no files, the first
`readdir` fails `assert(dir->len > dir->pos)` (`initrd.c:155-161`). The
`fileio` run's image has files, so no run shows this. `read`/`close`
accept `fd == MAX_OPEN_FILES` (`fileio.c:89`), one past the table. Only an
fd that `open` never returned reaches that, and the model's caller does not
pass one.

Behaviours described but checked by no run (these are the ones a single call or a plain test shows):
`initrd_read` compares, clamps and copies from `file->offset`
(`initrd.c:28-38`) but never adds the length to it, so every `read` of an
open file returns its first bytes again and a loop that reads until 0
never ends on a non-empty file; the model's `Read` changes no state, as
the code does. A mutex waiter can starve: a holder that unlocks and
relocks within its time slice holds the flag each time the waiter runs
(`mutex.c:45`), against the spec's promise (section 8) that `lock()`
eventually succeeds; `LockProgress` shows only that some task acquires. `initrd_open` uses up a
slot on every call, including failed lookups, and `initrd_close` never gives one
back, so after `MAX_OPEN_FILES` opens `open` asserts with no file open
(`initrd.c:55-58`; `HeldFdsLive` checks only that held slots stay the
caller's). Both shift keys drive one `MOD_SHIFT` bit, so releasing one
while the other is held types the next key unshifted (`keyboard.c:208-210`);
`ModsHeld` checks the converse direction, which holds. The older driver
has the same flaw with its one `shift` byte (`src/kernel/keyboard.c:136`).
Also the tick counter wrap and the
rounding down of `sleep()` (see Sched), and `mutex_destroy` passing its
asserts while a task still spins in `mutex_lock` (see Mutex). `getpid` and
`mutex_is_locked` only read state. The heap allocator is taken to be
atomic and infallible, so `kmalloc` from an ISR racing a `kfree` in the
worker is not represented. The kernel worker's payload copy (`memcpy` of
`data`) is abstracted to the item's identity. The write into the freed control block
during a self-kill is not represented; only the stale `->next` it reads is.

Shell behaviours described but checked by no run. The pre-count's `i++`
after its inner `while` skips the byte after each run of spaces
(`main.c:148`), so an `=` right after a space is not counted and the line
` =a` fails `assert(env_i < max_env)` (213); the `eshell` run reaches this
as `AssertFails`. `malloc(strlen(arg + 1))` at 214 allocates two bytes too
few for the `strcpy` after it, a heap overflow the model (which has no
heap) does not represent. The trailing strip at 169 walks before `buf` on
an empty or all-space line. A tab ends the copy loop but is not a
separator for the save at 203, so `a<TAB>b` becomes one argument `ab`;
tabs are left out of the reference inputs. `freopen` of stdout takes its
mode from `redir_append_stderr` (626), so `>` and `>>` both truncate unless
a `2>>` came first; `ChildOf` keeps the code's mode. `unset A B` calls
`unsetenv(argv[1])` for each argument (513), so it removes `A` and never
`B`; `Unset` models this. `setenv` with an empty name is taken to fail
(EINVAL) and leave the environment unchanged.
