------------------------------- MODULE Sched -------------------------------
(***************************************************************************)
(* The exscapeOS task model and scheduler tick (src/src/kernel/task.c).    *)
(*                                                                         *)
(* The singly linked ready queue is a sequence of task ids in list order;  *)
(* kernel_task (id 1) is its head.  Only the current task executes code,   *)
(* so every task operation is an action of `current`.  The timer IRQ and   *)
(* the software interrupt 0x7e both enter scheduler_taskSwitch; the saved  *)
(* stack pointers, TSS and segment bookkeeping of switch_task are          *)
(* abstracted to the choice of the next current task.                      *)
(*                                                                         *)
(* sleep() runs with interrupts enabled, so a timer tick may enter the     *)
(* scheduler between its statements; pc records where the current task    *)
(* is inside sleep().  SleepAtomic = TRUE forbids ticks inside sleep(),    *)
(* which is what the spec (section 5) assumes.                             *)
(***************************************************************************)
EXTENDS Integers, Sequences, SequencesExt, FiniteSets

CONSTANTS
    KERNEL,       \* id of kernel_task (1)
    MaxPid,       \* bound on next_pid: create_task is enabled while next_pid <= MaxPid
    MsPerTick,    \* 1000 / TIMER_HZ
    SleepMs,      \* the millisecond arguments tasks pass to sleep()
    MaxTicks,     \* the model's clock horizon (see Tick)
    TickModulus,  \* 2^w: the width of the uint32 tick counter and wakeup_time
    SleepAtomic   \* TRUE: no timer tick lands inside sleep()

(* Either the counter wraps inside the horizon (MaxTicks = TickModulus) *)
(* or no deadline ever reaches the modulus.                             *)
ASSUME \/ MaxTicks = TickModulus
       \/ MaxTicks + Max(SleepMs) < TickModulus

Pids == 1..MaxPid
RUNNING == "RUNNING"
SLEEPING == "SLEEPING"
PcLabels == {"run", "sl_check", "sl_deadline", "sl_yield"}

VARIABLES
    queue,        \* ready_queue, as the sequence of ids reached by ->next
    current,      \* current_task
    state,        \* task->state
    wakeup,       \* task->wakeup_time
    next_pid,     \* next_pid
    ticks,        \* gettickcount()
    pc,           \* where each task is inside sleep()
    sl_start,     \* sleep(): start_ticks
    sl_wait,      \* sleep(): ticks_to_wait
    halted        \* a panic() or failed assert() has stopped the kernel

vars == <<queue, current, state, wakeup, next_pid, ticks, pc,
          sl_start, sl_wait, halted>>

Alive == Range(queue)
IndexOf(t) == SelectInSeq(queue, LAMBDA x : x = t)

(* kernel_task's static initialiser and init_tasking(). *)
Init ==
    /\ queue = <<KERNEL>>
    /\ current = KERNEL
    /\ state = [t \in Pids |-> RUNNING]
    /\ wakeup = [t \in Pids |-> 0]
    /\ next_pid = KERNEL + 1
    /\ ticks = 0
    /\ pc = [t \in Pids |-> "run"]
    /\ sl_start = [t \in Pids |-> 0]
    /\ sl_wait = [t \in Pids |-> 0]
    /\ halted = FALSE

(***************************************************************************)
(* The timer interrupt handler's counter (timer.c is not in the source):   *)
(* uint32 arithmetic.  Below MaxTicks the counter advances; at MaxTicks   *)
(* the clock is kept relative instead: the counter stays and every        *)
(* recorded time moves one tick back, which preserves every comparison   *)
(* the scheduler makes.  A deadline that is already due stays due (1, not *)
(* 0, which marks a running task).                                        *)
(***************************************************************************)
Saturated == ticks = MaxTicks
NextTick(t) == IF t = MaxTicks THEN t ELSE (t + 1) % TickModulus
ShiftDeadline(f) == [t \in Pids |-> IF Saturated /\ f[t] > 1 THEN f[t] - 1 ELSE f[t]]
ShiftStart(f) == [t \in Pids |-> IF Saturated /\ f[t] > 0 THEN f[t] - 1 ELSE f[t]]

(* The ->next of the task at index i of q, wrapping to ready_queue. *)
Successor(q, i) == IF i > Len(q) THEN 1 ELSE i

(* Position in q of the first candidate, when new_task starts at index  *)
(* `from` and follows ->next, wrapping to the head.                     *)
RotateFrom(q, from) == [k \in 1..Len(q) |-> q[((from - 1 + k - 1) % Len(q)) + 1]]

(* Mutant: the wake-up leaves wakeup_time set (line 239 dropped). *)
SwitchNoReset(q, now, from, wk) ==
    LET due == SelectInSeq(q, LAMBDA x : state[x] = SLEEPING /\ wk[x] <= now)
        order == RotateFrom(q, from)
        pick == SelectInSeq(order, LAMBDA x : state[x] = RUNNING)
    IN  IF due # 0
          THEN /\ current' = q[due]
               /\ state' = [state EXCEPT ![q[due]] = RUNNING]
               /\ wakeup' = wk
               /\ UNCHANGED halted
        ELSE IF pick = 0 THEN halted' = TRUE /\ wakeup' = wk /\ UNCHANGED <<current, state>>
        ELSE current' = order[pick] /\ wakeup' = wk /\ UNCHANGED <<state, halted>>

(* Mutant: the wake-up switches to the task but leaves it SLEEPING      *)
(* (line 240 dropped).                                                   *)
SwitchNoWake(q, now, from, wk) ==
    LET due == SelectInSeq(q, LAMBDA x : state[x] = SLEEPING /\ wk[x] <= now)
        order == RotateFrom(q, from)
        pick == SelectInSeq(order, LAMBDA x : state[x] = RUNNING)
    IN  IF due # 0
          THEN current' = q[due] /\ wakeup' = [wk EXCEPT ![q[due]] = 0] /\ UNCHANGED <<state, halted>>
        ELSE IF pick = 0 THEN halted' = TRUE /\ wakeup' = wk /\ UNCHANGED <<current, state>>
        ELSE current' = order[pick] /\ wakeup' = wk /\ UNCHANGED <<state, halted>>

(* Mutant: sleeping tasks are skipped by an `if` instead of the `while`  *)
(* at line 256, so only one sleeping task is passed over.                *)
SwitchSkipOnce(q, now, from, wk) ==
    LET due == SelectInSeq(q, LAMBDA x : state[x] = SLEEPING /\ wk[x] <= now)
        order == RotateFrom(q, from)
        pick == IF state[order[1]] = RUNNING \/ Len(order) = 1 THEN 1 ELSE 2
    IN  IF due # 0
          THEN /\ current' = q[due]
               /\ state' = [state EXCEPT ![q[due]] = RUNNING]
               /\ wakeup' = [wk EXCEPT ![q[due]] = 0]
               /\ UNCHANGED halted
        ELSE current' = order[pick] /\ wakeup' = wk /\ UNCHANGED <<state, halted>>

(***************************************************************************)
(* scheduler_taskSwitch(), from the wake-up scan on: q is the ready queue, *)
(* now the tick count it reads, and from the index of current_task->next  *)
(* (or the head when that is NULL), wk the wakeup times.  It wakes the     *)
(* first sleeping task whose wakeup_time has passed, or else picks the     *)
(* next RUNNING task round-robin, or panics when every task sleeps.        *)
(***************************************************************************)
Switch(q, now, from, wk) ==
    LET due == SelectInSeq(q, LAMBDA x : state[x] = SLEEPING /\ wk[x] <= now)
        order == RotateFrom(q, from)
        pick == SelectInSeq(order, LAMBDA x : state[x] = RUNNING)
    IN  IF due # 0
          THEN /\ current' = q[due]
               /\ state' = [state EXCEPT ![q[due]] = RUNNING]
               /\ wakeup' = [wk EXCEPT ![q[due]] = 0]
               /\ UNCHANGED halted
        ELSE IF pick = 0
          THEN /\ halted' = TRUE
               /\ wakeup' = wk
               /\ UNCHANGED <<current, state>>
        ELSE /\ current' = order[pick]
             /\ wakeup' = wk
             /\ UNCHANGED <<state, halted>>

(* scheduler_taskSwitch() entered with the current task still queued:   *)
(* a no-op while kernel_task is the only task.                          *)
Schedule(now, wk) ==
    IF current = KERNEL /\ Len(queue) = 1
      THEN /\ wakeup' = wk
           /\ UNCHANGED <<current, state, halted>>
      ELSE Switch(queue, now, Successor(queue, IndexOf(current) + 1), wk)

----------------------------------------------------------------------------
(* IRQ0: the tick counter advances, then the scheduler runs.  The timer  *)
(* may fire wherever the current task is, except inside sleep() when     *)
(* SleepAtomic.                                                          *)
Tick ==
    /\ ~halted
    /\ SleepAtomic => pc[current] = "run"
    /\ ticks' = NextTick(ticks)
    /\ sl_start' = ShiftStart(sl_start)
    /\ Schedule(NextTick(ticks), ShiftDeadline(wakeup))
    /\ UNCHANGED <<queue, next_pid, pc, sl_wait>>

(* Mutant: task->id = ++next_pid instead of next_pid++. *)
CreateTaskPreInc ==
    /\ ~halted
    /\ pc[current] = "run"
    /\ next_pid <= MaxPid
    /\ queue' = Append(queue, next_pid + 1)
    /\ next_pid' = next_pid + 1
    /\ state' = [state EXCEPT ![next_pid] = RUNNING]
    /\ wakeup' = [wakeup EXCEPT ![next_pid] = 0]
    /\ pc' = [pc EXCEPT ![next_pid] = "run"]
    /\ UNCHANGED <<current, ticks, sl_start, sl_wait, halted>>

(* create_task(): interrupts are disabled throughout, so it is one step. *)
CreateTask ==
    /\ ~halted
    /\ pc[current] = "run"
    /\ next_pid <= MaxPid
    /\ queue' = Append(queue, next_pid)
    /\ next_pid' = next_pid + 1
    /\ state' = [state EXCEPT ![next_pid] = RUNNING]
    /\ wakeup' = [wakeup EXCEPT ![next_pid] = 0]
    /\ pc' = [pc EXCEPT ![next_pid] = "run"]
    /\ UNCHANGED <<current, ticks, sl_start, sl_wait, halted>>

(* Mutant: kill() returns to a killed current task without the int 0x7e. *)
KillNoSwitch(task) ==
    /\ queue' = RemoveAt(queue, IndexOf(task))
    /\ UNCHANGED <<current, state, wakeup, halted, next_pid, ticks, pc, sl_start, sl_wait>>

(* kill(task) on a queued task other than kernel_task.  task_switching is *)
(* off while the queue is edited, so no tick can interleave.  When the    *)
(* victim is current, int 0x7e follows: the scheduler saves into the freed *)
(* block and reads its stale ->next, the victim's successor.             *)
Kill(task) ==
    LET i == IndexOf(task)
        q == RemoveAt(queue, i)
    IN  /\ queue' = q
        /\ IF task = current
             THEN Switch(q, ticks, Successor(q, i), wakeup)
             ELSE UNCHANGED <<current, state, wakeup, halted>>
        /\ UNCHANGED <<next_pid, ticks, pc, sl_start, sl_wait>>

(* kill_pid(pid): the search stops at the first match; an unknown pid    *)
(* returns false.  kill_pid(1) fails kill()'s assert and is not issued.  *)
KillPid(pid) ==
    /\ ~halted
    /\ pc[current] = "run"
    /\ pid # KERNEL
    /\ IF pid \in Alive THEN Kill(pid) ELSE UNCHANGED vars

(* exit_proc(): the return address of every task started by create_task. *)
ExitProc ==
    /\ ~halted
    /\ pc[current] = "run"
    /\ current # KERNEL
    /\ Kill(current)

----------------------------------------------------------------------------
(* sleep(ms), lines up to the gettickcount() read and the tick count    *)
(* computation (floor division, at least one tick).  sleep(0) returns    *)
(* at once; kernel_task never calls sleep (the assert at line 299).      *)
TicksToWait(ms) == IF ms \div MsPerTick = 0 THEN 1 ELSE ms \div MsPerTick

SleepBegin(ms) ==
    /\ ~halted
    /\ pc[current] = "run"
    /\ current # KERNEL
    /\ ms > 0
    /\ pc' = [pc EXCEPT ![current] = "sl_check"]
    /\ sl_start' = [sl_start EXCEPT ![current] = ticks]
    /\ sl_wait' = [sl_wait EXCEPT ![current] = TicksToWait(ms)]
    /\ UNCHANGED <<queue, current, state, wakeup, next_pid, ticks, halted>>

(* The sanity asserts, then state = TASK_SLEEPING. *)
SleepMark ==
    /\ ~halted
    /\ pc[current] = "sl_check"
    /\ IF state[current] # SLEEPING /\ wakeup[current] = 0
         THEN /\ state' = [state EXCEPT ![current] = SLEEPING]
              /\ pc' = [pc EXCEPT ![current] = "sl_deadline"]
              /\ UNCHANGED halted
         ELSE /\ halted' = TRUE
              /\ UNCHANGED <<state, pc>>
    /\ UNCHANGED <<queue, current, wakeup, next_pid, ticks, sl_start, sl_wait>>

(* wakeup_time = start_ticks + ticks_to_wait, in uint32 arithmetic. *)
SleepDeadline ==
    /\ ~halted
    /\ pc[current] = "sl_deadline"
    /\ wakeup' = [wakeup EXCEPT ![current] =
                    (sl_start[current] + sl_wait[current]) % TickModulus]
    /\ pc' = [pc EXCEPT ![current] = "sl_yield"]
    /\ UNCHANGED <<queue, current, state, next_pid, ticks, sl_start, sl_wait, halted>>

(* int 0x7e: the scheduler runs without a tick; sleep() returns when the *)
(* task is next scheduled.                                               *)
SleepYield ==
    /\ ~halted
    /\ pc[current] = "sl_yield"
    /\ pc' = [pc EXCEPT ![current] = "run"]
    /\ Schedule(ticks, wakeup)
    /\ UNCHANGED <<queue, next_pid, ticks, sl_start, sl_wait>>

(* int 0x7e issued by any other caller (mutex_lock contention, an idle  *)
(* kernel worker).                                                       *)
Yield ==
    /\ ~halted
    /\ pc[current] = "run"
    /\ Schedule(ticks, wakeup)
    /\ UNCHANGED <<queue, next_pid, ticks, pc, sl_start, sl_wait>>

Next ==
    \/ Tick
    \/ CreateTask
    \/ \E pid \in (Pids \ {KERNEL}) : KillPid(pid)
    \/ ExitProc
    \/ \E ms \in SleepMs : SleepBegin(ms)
    \/ SleepMark
    \/ SleepDeadline
    \/ SleepYield
    \/ Yield

(* The PIT fires every 10 ms whatever the tasks do, and a task inside   *)
(* sleep() runs its straight-line code on to the int 0x7e.  Nothing      *)
(* obliges a task to create, kill, sleep or yield.                       *)
SleepSteps == SleepMark \/ SleepDeadline \/ SleepYield
Spec == Init /\ [][Next]_vars /\ WF_vars(Tick) /\ SF_vars(SleepSteps)

----------------------------------------------------------------------------
(* Type invariant. *)
TypeOK ==
    /\ queue \in Seq(Pids)
    /\ current \in Pids
    /\ state \in [Pids -> {RUNNING, SLEEPING}]
    /\ wakeup \in [Pids -> 0..(TickModulus - 1)]
    /\ next_pid \in (KERNEL + 1)..(MaxPid + 1)
    /\ ticks \in 0..MaxTicks
    /\ pc \in [Pids -> PcLabels]
    /\ halted \in BOOLEAN

(* Whatever sequence of create_task, kill, kill_pid and exit_proc calls   *)
(* the tasks make, the ready queue stays a chain that starts at           *)
(* kernel_task, holds every id once and only ids already handed out, and  *)
(* contains the task the scheduler considers current.                    *)
QueueWellFormed ==
    /\ queue[1] = KERNEL
    /\ IsInjective(queue)
    /\ \A i \in DOMAIN queue : queue[i] < next_pid
    /\ current \in Alive

(* Outside sleep(), a queued task is SLEEPING exactly when its           *)
(* wakeup_time is nonzero: the scheduler's wake-up resets both fields,   *)
(* and sleep() sets both.                                                *)
WakeupConsistent ==
    \A t \in Alive :
        pc[t] = "run" => (state[t] = SLEEPING <=> wakeup[t] # 0)

(* No assert() or panic() of task.c fires: sleep()'s sanity checks hold  *)
(* and the scheduler always finds a task that is not SLEEPING.           *)
NoPanic == ~halted

(* Elapsed ticks since a task's sleep() read the tick counter. *)
Elapsed(t) == (ticks' - sl_start'[t]) % TickModulus

(* Not part of a run: with sleep() atomic and a counter that never     *)
(* wraps it only restates the deadline store.  With TickModulus and      *)
(* MaxTicks set to 4 in MCSched.cfg, TLC finds it violated (README).     *)
(* A task that sleep()s is only resumed by the scheduler's wake-up once   *)
(* at least the ticks_to_wait that sleep() computed have elapsed since it *)
(* read the counter.                                                     *)
SleepNotEarly ==
    [][\A t \in Alive :
         state[t] = SLEEPING /\ state'[t] = RUNNING => Elapsed(t) >= sl_wait[t]
      ]_vars

(* Every sleeping task is eventually woken by the timer (or killed). *)
SleepersWake ==
    \A t \in Pids \ {KERNEL} :
        (t \in Alive /\ state[t] = SLEEPING) ~> (t \notin Alive \/ state[t] = RUNNING)

(* Round-robin rotation: a runnable task eventually becomes current (or  *)
(* is killed), however the other tasks sleep.                            *)
RunnableEventuallyRuns ==
    \A t \in Pids :
        (t \in Alive /\ state[t] = RUNNING) ~> (t \notin Alive \/ current = t)

=============================================================================
