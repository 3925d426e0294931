------------------------------ MODULE WorkQueue -----------------------------
(***************************************************************************)
(* What a kernel worker promises whatever order it picks its items in:    *)
(* items handed to kworker_add are run one at a time, each exactly once,  *)
(* and every item added is eventually run.  The order is left open on    *)
(* purpose: the comment at kworker.c:96 promises the highest priority     *)
(* first, the scan at line 101 gives the oldest first, and this module    *)
(* takes neither side.                                                    *)
(***************************************************************************)
EXTENDS Sequences, SequencesExt

CONSTANT Items

VARIABLES
    pending,   \* items added and not yet run
    done       \* items in the order they were run

avars == <<pending, done>>

Init == pending = {} /\ done = <<>>

(* An item record is added once: it is neither waiting nor already run. *)
Enqueue(i) ==
    /\ i \notin pending \cup Range(done)
    /\ pending' = pending \cup {i}
    /\ UNCHANGED done

RunOne(i) ==
    /\ i \in pending
    /\ done' = Append(done, i)
    /\ pending' = pending \ {i}

Next == \E i \in Items : Enqueue(i) \/ RunOne(i)

(* Every waiting item is eventually run, not merely some item. *)
Spec == Init /\ [][Next]_avars /\ \A i \in Items : WF_avars(RunOne(i))

=============================================================================
