------------------------------- MODULE KWorker -------------------------------
(***************************************************************************)
(* A kernel worker (src/src/kernel/kworker.c): interrupt handlers hand    *)
(* items to kworker_add, which appends them to worker->tasks, and the     *)
(* worker task's drain loop runs and removes them.  The list is List's    *)
(* one list WL.  kworker_add runs in an ISR, so it is one atomic step     *)
(* (list_append and its list_validate included).  The worker task runs    *)
(* with interrupts enabled, so an IRQ may land between any two of its     *)
(* statements; its list_remove is split into the stores it makes.  With   *)
(* RemoveAtomic, no IRQ lands inside the worker's list_remove (as if it   *)
(* ran with interrupts disabled, which spec section 5 requires).          *)
(* Items stand for the kworker_task_t records; each is added at most once. *)
(***************************************************************************)
EXTENDS Integers, Sequences, SequencesExt

CONSTANTS
    WL,            \* worker->tasks
    Nodes,         \* node_t blocks
    Items,         \* the work items interrupt handlers submit
    Prio,          \* Prio[i]: the priority passed to kworker_add
    RemoveAtomic   \* no IRQ inside the worker's list_remove

VARIABLES alive, head, tail, count, nxt, prv, lst, data, heap, call,
          w_pc,       \* the worker task's next statement
          w_node,     \* the node the drain loop picked
          submitted,  \* history: items in the order kworker_add appended them
          ran,        \* history: items in the order their function ran
          freed,      \* items whose record was kfree'd by kworker_remove
          halted      \* an assert (list_validate) stopped the kernel

listVars == <<alive, head, tail, count, nxt, prv, lst, data, heap, call>>
vars == <<listVars, w_pc, w_node, submitted, ran, freed, halted>>

L == INSTANCE List WITH Lists <- {WL}, Data <- Items

NULL == L!NULL
Removing == {"unlink_prev", "unlink_next", "dec", "fix_head", "fix_tail", "validate", "free"}

(* kworker_create(): list_create() has run; the worker waits for work. *)
Init ==
    /\ alive = [l \in {WL} |-> TRUE]
    /\ head = [l \in {WL} |-> NULL]
    /\ tail = [l \in {WL} |-> NULL]
    /\ count = [l \in {WL} |-> 0]
    /\ nxt = [n \in Nodes |-> NULL]
    /\ prv = [n \in Nodes |-> NULL]
    /\ lst = [n \in Nodes |-> NULL]
    /\ data = [n \in Nodes |-> NULL]
    /\ heap = {}
    /\ call = L!Call("create", WL, NULL, NULL)
    /\ w_pc = "size"
    /\ w_node = NULL
    /\ submitted = <<>>
    /\ ran = <<>>
    /\ freed = {}
    /\ halted = FALSE

(* list_append's own asserts (list.c:129, 145-146) on the state it finds. *)
AppendAsserts ==
    IF tail[WL] # NULL THEN nxt[tail[WL]] = NULL ELSE head[WL] = NULL /\ count[WL] = 0

(* An ISR calls kworker_add(worker, func, data, length, prio): the item  *)
(* record is kmalloc'd and list_append'ed; list_validate runs at its end. *)
Add(i) ==
    /\ ~halted
    /\ RemoveAtomic => w_pc \notin Removing
    /\ i \notin Range(submitted)
    /\ L!ListAppend(WL, i)
    /\ halted' = ~(AppendAsserts /\ L!ListValid(WL)')
    /\ submitted' = Append(submitted, i)
    /\ UNCHANGED <<w_pc, w_node, ran, freed>>

(* while (list_size(worker->tasks) == 0) int $0x7e; *)
Yield ==
    /\ ~halted
    /\ w_pc = "size"
    /\ count[WL] = 0
    /\ UNCHANGED vars

(* The pick the comment at line 96 intends: line 101 compared with the   *)
(* running maximum, so the scan takes the first item of the highest      *)
(* priority.  Not the code; Refines holds with it in place of Pick too.  *)
PickHighest ==
    /\ ~halted
    /\ w_pc = "size"
    /\ count[WL] > 0
    /\ LET w == L!Walk(WL)
           k == CHOOSE k \in DOMAIN w :
                   /\ \A j \in DOMAIN w : Prio[data[w[j]]] <= Prio[data[w[k]]]
                   /\ \A j \in 1..(k - 1) : Prio[data[w[j]]] < Prio[data[w[k]]]
       IN w_node' = w[k]
    /\ w_pc' = "run"
    /\ UNCHANGED <<listVars, submitted, ran, freed, halted>>

(* A list_size() of 1 takes worker->tasks->head; a larger one scans for   *)
(* the maximum priority, but compares each item with itself (line 101), *)
(* so max stays worker->tasks->head.  Both pick the head.                *)
Pick ==
    /\ ~halted
    /\ w_pc = "size"
    /\ count[WL] > 0
    /\ w_node' = head[WL]
    /\ w_pc' = "run"
    /\ UNCHANGED <<listVars, submitted, ran, freed, halted>>

(* Mutant: kfree(task) moved before kworker_remove's list_remove. *)
RunAndFree ==
    /\ ~halted
    /\ w_pc = "run"
    /\ ran' = Append(ran, data[w_node])
    /\ freed' = freed \cup {data[w_node]}
    /\ w_pc' = "unlink_prev"
    /\ UNCHANGED <<listVars, w_node, submitted, halted>>

(* task->function(task->data, task->length) *)
Run ==
    /\ ~halted
    /\ w_pc = "run"
    /\ ran' = Append(ran, data[w_node])
    /\ w_pc' = "unlink_prev"
    /\ UNCHANGED <<listVars, w_node, submitted, freed, halted>>

(* One statement of the worker's list_remove, changing only the list     *)
(* fields in upd, then going on to label to.                             *)
RemoveStep(from, to, upd) ==
    /\ ~halted
    /\ w_pc = from
    /\ upd
    /\ w_pc' = to
    /\ UNCHANGED <<alive, lst, data, heap, call, w_node, submitted, ran, freed, halted>>

(* kworker_remove: kfree(task->data); then in list_remove,               *)
(* "if (elem->prev != NULL) elem->prev->next = elem->next;"              *)
UnlinkPrev ==
    LET e == w_node IN
    RemoveStep("unlink_prev", "unlink_next",
        /\ nxt' = IF prv[e] # NULL THEN [nxt EXCEPT ![prv[e]] = nxt[e]] ELSE nxt
        /\ UNCHANGED <<prv, count, head, tail>>)

(* "if (elem->next != NULL) elem->next->prev = elem->prev;" *)
UnlinkNext ==
    LET e == w_node IN
    RemoveStep("unlink_next", "dec",
        /\ prv' = IF nxt[e] # NULL THEN [prv EXCEPT ![nxt[e]] = prv[e]] ELSE prv
        /\ UNCHANGED <<nxt, count, head, tail>>)

(* Mutant: "list->count++" typed for "list->count--". *)
DecInc ==
    RemoveStep("dec", "fix_head",
        /\ count' = [count EXCEPT ![WL] = @ + 1]
        /\ UNCHANGED <<nxt, prv, head, tail>>)

(* "list->count--;" *)
Dec ==
    RemoveStep("dec", "fix_head",
        /\ count' = [count EXCEPT ![WL] = @ - 1]
        /\ UNCHANGED <<nxt, prv, head, tail>>)

(* Mutant: list_remove without the head update. *)
FixHeadSkip ==
    RemoveStep("fix_head", "fix_tail", UNCHANGED <<nxt, prv, count, head, tail>>)

(* "if (elem == list->head) list->head = elem->next;" *)
FixHead ==
    LET e == w_node IN
    RemoveStep("fix_head", "fix_tail",
        /\ head' = IF e = head[WL] THEN [head EXCEPT ![WL] = nxt[e]] ELSE head
        /\ UNCHANGED <<nxt, prv, count, tail>>)

(* Mutant: list_remove without the tail update. *)
FixTailSkip ==
    RemoveStep("fix_tail", "validate", UNCHANGED <<nxt, prv, count, head, tail>>)

(* "if (elem == list->tail) list->tail = elem->prev;" *)
FixTail ==
    LET e == w_node IN
    RemoveStep("fix_tail", "validate",
        /\ tail' = IF e = tail[WL] THEN [tail EXCEPT ![WL] = prv[e]] ELSE tail
        /\ UNCHANGED <<nxt, prv, count, head>>)

(* list_validate(list) at the end of list_remove. *)
ValidateStep ==
    /\ ~halted
    /\ w_pc = "validate"
    /\ IF L!ListValid(WL)
         THEN w_pc' = "free" /\ UNCHANGED halted
         ELSE halted' = TRUE /\ UNCHANGED w_pc
    /\ UNCHANGED <<listVars, w_node, submitted, ran, freed>>

(* kfree(elem) ends list_remove; kworker_remove then does kfree(task).   *)
(* The drain loop starts over.                                           *)
FreeItem ==
    /\ ~halted
    /\ w_pc = "free"
    /\ L!FreeNodes({w_node}, nxt, prv)
    /\ freed' = freed \cup {data[w_node]}
    /\ w_pc' = "size"
    /\ w_node' = NULL
    /\ UNCHANGED <<alive, head, tail, count, call, submitted, ran, halted>>

Worker == Pick \/ Run \/ UnlinkPrev \/ UnlinkNext \/ Dec \/ FixHead \/ FixTail
          \/ ValidateStep \/ FreeItem

Next == (\E i \in Items : Add(i)) \/ Yield \/ Worker

(***************************************************************************)
(* The worker is an ordinary RUNNING task that never sleeps, so the      *)
(* round-robin scheduler keeps giving it the CPU: its steps are weakly    *)
(* fair.  Interrupts, and so kworker_add, are never forced.               *)
(***************************************************************************)
Spec == Init /\ [][Next]_vars /\ WF_vars(Worker)

----------------------------------------------------------------------------
TypeOK ==
    /\ L!TypeOK
    /\ w_pc \in {"size", "run"} \cup Removing
    /\ w_node \in Nodes \cup {NULL}
    /\ submitted \in Seq(Items) /\ ran \in Seq(Items)
    /\ freed \subseteq Items
    /\ halted \in BOOLEAN

(* Checked by hand with RemoveAtomic = FALSE, where TLC finds it         *)
(* violated (see README); with RemoveAtomic it repeats List's Validate.  *)
(* No assert fires: neither list_validate (in the ISR's list_append or   *)
(* at the end of the worker's list_remove) nor list_append's own checks, *)
(* whatever point of the worker's list_remove an interrupt lands on.    *)
NoPanic == ~halted

(* kworker_remove frees an item's record only after its function ran,   *)
(* and exactly once: between two picks every item that ran is freed, and *)
(* no node still on worker->tasks holds a freed record.                 *)
ItemLifecycle ==
    /\ freed \subseteq Range(ran)
    /\ w_pc = "size" => freed = Range(ran)
    /\ \A n \in Range(L!Walk(WL)) : data[n] \notin freed

(* The worker implements the work queue (WorkQueue): the items on       *)
(* worker->tasks whose function has not run are the waiting items; an    *)
(* ISR's kworker_add adds one, a function call runs one, every other step *)
(* leaves them alone; and every item added is eventually run, exactly    *)
(* once.  kworker_remove must take the node it ran off the list, and the *)
(* drain loop must keep coming back for the rest.                         *)
Pending == {data[n] : n \in Range(L!Walk(WL))} \ Range(ran)

Queue == INSTANCE WorkQueue WITH pending <- Pending, done <- ran

Refines == Queue!Spec

=============================================================================
