------------------------------- MODULE Mutex -------------------------------
(***************************************************************************)
(* mutex_t (src/src/kernel/mutex.c) shared by N kernel tasks on one CPU.   *)
(*                                                                         *)
(* Only the current task executes.  The timer IRQ may preempt it between   *)
(* any two statements, and a failed LOCK BTS yields with int 0x7e; both    *)
(* enter the scheduler, which with no sleeping task moves current to the   *)
(* next task of the ready queue (Sched's round-robin, here the ring        *)
(* 1..N).  pc is the statement each task will execute next:                *)
(*   "ncs"  outside mutex_lock/mutex_unlock, not holding the mutex         *)
(*   "bts"  in mutex_lock's loop, about to execute LOCK BTSL               *)
(*   "own"  the BTS succeeded; mutex->owner = current_task is next         *)
(*   "cs"   mutex_lock returned: the task holds the mutex                  *)
(*   "clr"  in mutex_unlock: the asserts and mutex->mutex = 0 are next     *)
(*   "nul"  mutex->owner = NULL is next                                    *)
(***************************************************************************)
EXTENDS Integers

CONSTANT N   \* number of tasks sharing the mutex

Tasks == 1..N
NULL == 0
Holding == {"own", "cs", "clr"}

VARIABLES
    flag,     \* mutex->mutex, bit 0
    owner,    \* mutex->owner (NULL = 0)
    pc,       \* the next statement of each task
    current,  \* current_task
    panic,    \* "none", or the function whose assert() stopped the kernel
    destroyed \* mutex_destroy has kfree'd the mutex

vars == <<flag, owner, pc, current, panic, destroyed>>

(* mutex_create() has run before any task uses the mutex. *)
Init ==
    /\ flag = 0
    /\ owner = NULL
    /\ pc = [t \in Tasks |-> "ncs"]
    /\ current \in Tasks
    /\ panic = "none"
    /\ destroyed = FALSE

(* The next task round-robin after t. *)
NextTask(t) == (t % N) + 1

(* Timer IRQ: the scheduler moves on to the next task. *)
Tick ==
    /\ panic = "none"
    /\ current' = NextTask(current)
    /\ UNCHANGED <<flag, owner, pc, panic, destroyed>>

(* The current task calls mutex_lock(). *)
Lock ==
    /\ panic = "none"
    /\ ~destroyed
    /\ pc[current] = "ncs"
    /\ pc' = [pc EXCEPT ![current] = "bts"]
    /\ UNCHANGED <<flag, owner, current, panic, destroyed>>

(* Mutant: BTL instead of BTSL, which tests the bit without setting it. *)
TestAndSetNoSet ==
    /\ panic = "none"
    /\ pc[current] = "bts"
    /\ IF flag = 0
         THEN pc' = [pc EXCEPT ![current] = "own"] /\ UNCHANGED current
         ELSE current' = NextTask(current) /\ UNCHANGED pc
    /\ UNCHANGED <<flag, owner, panic, destroyed>>

(* Mutant: LOCK INCL instead of LOCK BTSL. *)
TestAndSetInc ==
    /\ panic = "none"
    /\ pc[current] = "bts"
    /\ flag' = flag + 1
    /\ IF flag = 0
         THEN pc' = [pc EXCEPT ![current] = "own"] /\ UNCHANGED current
         ELSE current' = NextTask(current) /\ UNCHANGED pc
    /\ UNCHANGED <<owner, panic, destroyed>>

(* LOCK BTSL; SETNC: atomically set bit 0 and learn whether it was clear. *)
(* On failure, int 0x7e (task_switching is on) and retry.                *)
TestAndSet ==
    /\ panic = "none"
    /\ pc[current] = "bts"
    /\ flag' = 1
    /\ IF flag = 0
         THEN /\ pc' = [pc EXCEPT ![current] = "own"]
              /\ UNCHANGED current
         ELSE /\ current' = NextTask(current)
              /\ UNCHANGED pc
    /\ UNCHANGED <<owner, panic, destroyed>>

(* mutex->owner = current_task; mutex_lock returns. *)
SetOwner ==
    /\ panic = "none"
    /\ pc[current] = "own"
    /\ owner' = current
    /\ pc' = [pc EXCEPT ![current] = "cs"]
    /\ UNCHANGED <<flag, current, panic, destroyed>>

(* The holder calls mutex_unlock(). *)
Unlock ==
    /\ panic = "none"
    /\ pc[current] = "cs"
    /\ pc' = [pc EXCEPT ![current] = "clr"]
    /\ UNCHANGED <<flag, owner, current, panic, destroyed>>

(* Mutant: mutex_unlock forgets mutex->mutex = 0. *)
ClearFlagKeep ==
    /\ panic = "none"
    /\ pc[current] = "clr"
    /\ IF flag # 0 /\ owner = current
         THEN pc' = [pc EXCEPT ![current] = "nul"] /\ UNCHANGED panic
         ELSE panic' = "unlock" /\ UNCHANGED pc
    /\ UNCHANGED <<flag, owner, current, destroyed>>

(* assert(mutex->mutex != 0); assert(mutex->owner == current_task);      *)
(* mutex->mutex = 0.                                                      *)
ClearFlag ==
    /\ panic = "none"
    /\ pc[current] = "clr"
    /\ IF flag # 0 /\ owner = current
         THEN /\ flag' = 0
              /\ pc' = [pc EXCEPT ![current] = "nul"]
              /\ UNCHANGED panic
         ELSE /\ panic' = "unlock"
              /\ UNCHANGED <<flag, pc>>
    /\ UNCHANGED <<owner, current, destroyed>>

(* mutex->owner = NULL; mutex_unlock returns. *)
ClearOwner ==
    /\ panic = "none"
    /\ pc[current] = "nul"
    /\ owner' = NULL
    /\ pc' = [pc EXCEPT ![current] = "ncs"]
    /\ UNCHANGED <<flag, current, panic, destroyed>>

(* The current task calls mutex_destroy(): assert(mutex->mutex == 0);   *)
(* assert(mutex->owner == NULL); kfree(mutex).  Tasks already inside     *)
(* mutex_lock go on using the freed block; nobody calls mutex_lock on it *)
(* again.                                                                *)
Destroy ==
    /\ panic = "none"
    /\ ~destroyed
    /\ pc[current] = "ncs"
    /\ IF flag = 0 /\ owner = NULL
         THEN destroyed' = TRUE /\ UNCHANGED panic
         ELSE panic' = "destroy" /\ UNCHANGED destroyed
    /\ UNCHANGED <<flag, owner, pc, current>>

(* The steps a task takes once it is inside mutex_lock or mutex_unlock,  *)
(* or holds the mutex.                                                   *)
Step == TestAndSet \/ SetOwner \/ Unlock \/ ClearFlag \/ ClearOwner

Next == Tick \/ Lock \/ Destroy \/ Step

(***************************************************************************)
(* The PIT preempts the current task every 10 ms.  A task that is         *)
(* scheduled again and again executes its next statement, so the steps    *)
(* of the current task are strongly fair; every holder eventually calls  *)
(* mutex_unlock (the spec's assumption).  Calling mutex_lock is never     *)
(* forced.                                                                *)
(***************************************************************************)
Spec == Init /\ [][Next]_vars /\ WF_vars(Tick) /\ \A t \in Tasks : SF_vars(current = t /\ Step)

----------------------------------------------------------------------------
TypeOK ==
    /\ flag \in {0, 1}
    /\ owner \in Tasks \cup {NULL}
    /\ pc \in [Tasks -> {"ncs", "bts", "own", "cs", "clr", "nul"}]
    /\ current \in Tasks
    /\ panic \in {"none", "unlock", "destroy"}
    /\ destroyed \in BOOLEAN

(* At most one task is between a successful BTS and the store that       *)
(* clears the flag in mutex_unlock, however the timer interleaves them.  *)
MutualExclusion ==
    \A s, t \in Tasks : pc[s] \in Holding /\ pc[t] \in Holding => s = t

(* mutex_unlock() called by the task that holds the mutex never trips    *)
(* its own owner assert.                                                 *)
UnlockNeverPanics == panic # "unlock"

(* While no assert has stopped the kernel, a task spinning in mutex_lock *)
(* is followed by some task acquiring the mutex.                         *)
LockProgress ==
    (\E t \in Tasks : pc[t] = "bts") ~> (panic # "none" \/ \E t \in Tasks : pc[t] = "cs")

=============================================================================
