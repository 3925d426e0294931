------------------------------ MODULE ListSpec ------------------------------
(***************************************************************************)
(* What a list_t promises its callers (spec section 4.5): each list is an  *)
(* ordered sequence of entries <<node, data>>, and a node is in at most    *)
(* one list.  Each operation changes the sequence as its name says:       *)
(* prepend and append put one new node at the front or the back,          *)
(* insert_before/insert_after put it next to the given node, remove takes  *)
(* exactly the given node out, destroy empties and frees the list.  call   *)
(* records the operation that made the last step, so that each step is     *)
(* tied to the call that made it.                                          *)
(***************************************************************************)
EXTENDS Integers, Sequences, SequencesExt

CONSTANTS Lists, Nodes, Data, NULL

VARIABLES alive, elems, call

avars == <<alive, elems, call>>

NodesOf(l) == {e[1] : e \in Range(elems[l])}
InUse == UNION {NodesOf(l) : l \in Lists}
Pos(l, n) == CHOOSE i \in DOMAIN elems[l] : elems[l][i][1] = n
Call(op, l, n, d) == [op |-> op, list |-> l, node |-> n, data |-> d]

Init ==
    /\ alive = [l \in Lists |-> FALSE]
    /\ elems = [l \in Lists |-> <<>>]
    /\ call = Call("none", NULL, NULL, NULL)

(* Some fresh node n holding d goes in at position i of list l. *)
InsertAtPos(l, i, d) ==
    \E n \in Nodes \ InUse :
        elems' = [elems EXCEPT ![l] = InsertAt(@, i, <<n, d>>)]

ListCreate(l) ==
    /\ ~alive[l]
    /\ alive' = [alive EXCEPT ![l] = TRUE]
    /\ call' = Call("create", l, NULL, NULL)
    /\ UNCHANGED elems

ListPrepend(l, d) ==
    /\ alive[l]
    /\ InsertAtPos(l, 1, d)
    /\ call' = Call("prepend", l, NULL, d)
    /\ UNCHANGED alive

ListAppend(l, d) ==
    /\ alive[l]
    /\ InsertAtPos(l, Len(elems[l]) + 1, d)
    /\ call' = Call("append", l, NULL, d)
    /\ UNCHANGED alive

InsertBefore(l, r, d) ==
    /\ r \in NodesOf(l)
    /\ InsertAtPos(l, Pos(l, r), d)
    /\ call' = Call("insert_before", l, r, d)
    /\ UNCHANGED alive

InsertAfter(l, r, d) ==
    /\ r \in NodesOf(l)
    /\ InsertAtPos(l, Pos(l, r) + 1, d)
    /\ call' = Call("insert_after", l, r, d)
    /\ UNCHANGED alive

ListRemove(l, r) ==
    /\ r \in NodesOf(l)
    /\ elems' = [elems EXCEPT ![l] = RemoveAt(@, Pos(l, r))]
    /\ call' = Call("remove", l, r, NULL)
    /\ UNCHANGED alive

ListDestroy(l) ==
    /\ alive[l]
    /\ alive' = [alive EXCEPT ![l] = FALSE]
    /\ elems' = [elems EXCEPT ![l] = <<>>]
    /\ call' = Call("destroy", l, NULL, NULL)

Next ==
    \E l \in Lists :
        \/ ListCreate(l) \/ ListDestroy(l)
        \/ \E d \in Data : ListPrepend(l, d) \/ ListAppend(l, d)
        \/ \E r \in Nodes, d \in Data : InsertBefore(l, r, d) \/ InsertAfter(l, r, d)
        \/ \E r \in Nodes : ListRemove(l, r)

Spec == Init /\ [][Next]_avars

=============================================================================
