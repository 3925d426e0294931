-------------------------------- MODULE List --------------------------------
(***************************************************************************)
(* The doubly linked list of src/src/kernel/list.c at the level of its     *)
(* pointers.  Lists is a set of list_t slots; Nodes is the heap's supply  *)
(* of node_t blocks (kmalloc never fails while one is free).  Each        *)
(* function runs to completion, so each is one action; list_validate()    *)
(* runs at its end (LIST_DEBUG is 1) and its asserts are the invariant     *)
(* Validate.  A freed node's fields are reset: kmalloc overwrites all four *)
(* before the node is reachable again, so their stale values are never    *)
(* read.  call is a history variable naming the function that made the     *)
(* last step; it is not in the code.                                       *)
(***************************************************************************)
EXTENDS Integers, Sequences, SequencesExt

CONSTANTS Lists, Nodes, Data

NULL == 0
ASSUME NULL \notin Nodes

VARIABLES
    alive,  \* the list_t has been created and not destroyed
    head, tail, count,      \* list->head, list->tail, list->count
    nxt, prv, lst, data,    \* node->next, node->prev, node->list, node->data
    heap,   \* nodes allocated by kmalloc and not yet freed
    call    \* history: the last function called

vars == <<alive, head, tail, count, nxt, prv, lst, data, heap, call>>
links == <<nxt, prv, lst, data, heap>>

Free == Nodes \ heap
Call(op, l, n, d) == [op |-> op, list |-> l, node |-> n, data |-> d]

Init ==
    /\ alive = [l \in Lists |-> FALSE]
    /\ head = [l \in Lists |-> NULL]
    /\ tail = [l \in Lists |-> NULL]
    /\ count = [l \in Lists |-> 0]
    /\ nxt = [n \in Nodes |-> NULL]
    /\ prv = [n \in Nodes |-> NULL]
    /\ lst = [n \in Nodes |-> NULL]
    /\ data = [n \in Nodes |-> NULL]
    /\ heap = {}
    /\ call = Call("none", NULL, NULL, NULL)

(* The nodes reached from n by ->next (or ->prev), at most fuel of them. *)
RECURSIVE Chain(_, _, _)
Chain(link, n, fuel) ==
    IF n = NULL \/ fuel = 0 THEN <<>> ELSE <<n>> \o Chain(link, link[n], fuel - 1)

Fuel == Cardinality(Nodes) + 1
Walk(l) == Chain(nxt, head[l], Fuel)
BackWalk(l) == Chain(prv, tail[l], Fuel)

(* kmalloc a node n and fill in new->data and new->list; the caller sets *)
(* its prev/next.                                                        *)
NewNode(n, l, d) ==
    /\ heap' = heap \cup {n}
    /\ lst' = [lst EXCEPT ![n] = l]
    /\ data' = [data EXCEPT ![n] = d]

(* list_create() *)
ListCreate(l) ==
    /\ ~alive[l]
    /\ alive' = [alive EXCEPT ![l] = TRUE]
    /\ head' = [head EXCEPT ![l] = NULL]
    /\ tail' = [tail EXCEPT ![l] = NULL]
    /\ count' = [count EXCEPT ![l] = 0]
    /\ call' = Call("create", l, NULL, NULL)
    /\ UNCHANGED links

(* The body of list_prepend(list, data) with the new node n. *)
DoPrepend(l, d, n) ==
    /\ NewNode(n, l, d)
    /\ nxt' = [nxt EXCEPT ![n] = head[l]]
    /\ IF head[l] # NULL
         THEN /\ prv' = [prv EXCEPT ![n] = NULL, ![head[l]] = n]
              /\ UNCHANGED tail
         ELSE /\ prv' = [prv EXCEPT ![n] = NULL]
              /\ tail' = [tail EXCEPT ![l] = n]
    /\ head' = [head EXCEPT ![l] = n]
    /\ count' = [count EXCEPT ![l] = @ + 1]

(* The body of list_append(list, data) with the new node n. *)
DoAppend(l, d, n) ==
    /\ NewNode(n, l, d)
    /\ prv' = [prv EXCEPT ![n] = tail[l]]
    /\ IF tail[l] # NULL
         THEN /\ nxt' = [nxt EXCEPT ![n] = NULL, ![tail[l]] = n]
              /\ UNCHANGED head
         ELSE /\ nxt' = [nxt EXCEPT ![n] = NULL]
              /\ head' = [head EXCEPT ![l] = n]
    /\ tail' = [tail EXCEPT ![l] = n]
    /\ count' = [count EXCEPT ![l] = @ + 1]

ListPrepend(l, d) ==
    /\ alive[l]
    /\ \E n \in Free : DoPrepend(l, d, n)
    /\ call' = Call("prepend", l, NULL, d)
    /\ UNCHANGED alive

ListAppend(l, d) ==
    /\ alive[l]
    /\ \E n \in Free : DoAppend(l, d, n)
    /\ call' = Call("append", l, NULL, d)
    /\ UNCHANGED alive

(* list_node_insert_before(node, data): at the head it is list_prepend; *)
(* otherwise new goes between node->prev and node.                      *)
InsertBefore(r, d) ==
    LET l == lst[r] IN
    /\ r \in heap
    /\ \E n \in Free :
          IF prv[r] = NULL
            THEN DoPrepend(l, d, n)
            ELSE /\ NewNode(n, l, d)
                 /\ prv' = [prv EXCEPT ![n] = prv[r], ![r] = n]
                 /\ nxt' = [nxt EXCEPT ![n] = r, ![prv[r]] = n]
                 /\ count' = [count EXCEPT ![l] = @ + 1]
                 /\ UNCHANGED <<head, tail>>
    /\ call' = Call("insert_before", l, r, d)
    /\ UNCHANGED alive

(* Mutant: the middle case of insert_after copied from insert_before,   *)
(* so the new node lands in front of node.                             *)
InsertAfterAsBefore(r, d) ==
    LET l == lst[r] IN
    /\ r \in heap
    /\ \E n \in Free :
          IF nxt[r] = NULL
            THEN DoAppend(l, d, n)
            ELSE /\ NewNode(n, l, d)
                 /\ prv' = [prv EXCEPT ![n] = prv[r], ![r] = n]
                 /\ nxt' = [nxt EXCEPT ![n] = r, ![prv[r]] = n]
                 /\ count' = [count EXCEPT ![l] = @ + 1]
                 /\ UNCHANGED <<head, tail>>
    /\ call' = Call("insert_after", l, r, d)
    /\ UNCHANGED alive

(* list_node_insert_after(node, data): at the tail it is list_append;   *)
(* otherwise new goes between node and node->next.                      *)
InsertAfter(r, d) ==
    LET l == lst[r] IN
    /\ r \in heap
    /\ \E n \in Free :
          IF nxt[r] = NULL
            THEN DoAppend(l, d, n)
            ELSE /\ NewNode(n, l, d)
                 /\ prv' = [prv EXCEPT ![n] = r, ![nxt[r]] = n]
                 /\ nxt' = [nxt EXCEPT ![n] = nxt[r], ![r] = n]
                 /\ count' = [count EXCEPT ![l] = @ + 1]
                 /\ UNCHANGED <<head, tail>>
    /\ call' = Call("insert_after", l, r, d)
    /\ UNCHANGED alive

(* kfree() of the nodes in S: their fields are never read again. *)
FreeNodes(S, nx, pv) ==
    /\ heap' = heap \ S
    /\ nxt' = [n \in Nodes |-> IF n \in S THEN NULL ELSE nx[n]]
    /\ prv' = [n \in Nodes |-> IF n \in S THEN NULL ELSE pv[n]]
    /\ lst' = [n \in Nodes |-> IF n \in S THEN NULL ELSE lst[n]]
    /\ data' = [n \in Nodes |-> IF n \in S THEN NULL ELSE data[n]]

(* Mutant: list_remove without list->count--. *)
ListRemoveNoDec(l, e) ==
    /\ e \in heap
    /\ lst[e] = l
    /\ FreeNodes({e},
                 IF prv[e] # NULL THEN [nxt EXCEPT ![prv[e]] = nxt[e]] ELSE nxt,
                 IF nxt[e] # NULL THEN [prv EXCEPT ![nxt[e]] = prv[e]] ELSE prv)
    /\ head' = IF e = head[l] THEN [head EXCEPT ![l] = nxt[e]] ELSE head
    /\ tail' = IF e = tail[l] THEN [tail EXCEPT ![l] = prv[e]] ELSE tail
    /\ call' = Call("remove", l, e, NULL)
    /\ UNCHANGED <<alive, count>>

(* Mutant: list_remove forgets "if (elem == list->head) list->head =    *)
(* elem->next".                                                          *)
ListRemoveKeepHead(l, e) ==
    /\ e \in heap
    /\ lst[e] = l
    /\ FreeNodes({e},
                 IF prv[e] # NULL THEN [nxt EXCEPT ![prv[e]] = nxt[e]] ELSE nxt,
                 IF nxt[e] # NULL THEN [prv EXCEPT ![nxt[e]] = prv[e]] ELSE prv)
    /\ count' = [count EXCEPT ![l] = @ - 1]
    /\ tail' = IF e = tail[l] THEN [tail EXCEPT ![l] = prv[e]] ELSE tail
    /\ call' = Call("remove", l, e, NULL)
    /\ UNCHANGED <<alive, head>>

(* list_remove(list, elem): unlink elem from its neighbours, fix count,  *)
(* head and tail, then kfree(elem).  Callers pass a node of the list    *)
(* (assert(elem->list == list)).                                        *)
ListRemove(l, e) ==
    /\ e \in heap
    /\ lst[e] = l
    /\ FreeNodes({e},
                 IF prv[e] # NULL THEN [nxt EXCEPT ![prv[e]] = nxt[e]] ELSE nxt,
                 IF nxt[e] # NULL THEN [prv EXCEPT ![nxt[e]] = prv[e]] ELSE prv)
    /\ count' = [count EXCEPT ![l] = @ - 1]
    /\ head' = IF e = head[l] THEN [head EXCEPT ![l] = nxt[e]] ELSE head
    /\ tail' = IF e = tail[l] THEN [tail EXCEPT ![l] = prv[e]] ELSE tail
    /\ call' = Call("remove", l, e, NULL)
    /\ UNCHANGED alive

(* Mutant: list_destroy frees only the head node. *)
ListDestroyHeadOnly(l) ==
    /\ alive[l]
    /\ FreeNodes({head[l]} \ {NULL}, nxt, prv)
    /\ alive' = [alive EXCEPT ![l] = FALSE]
    /\ head' = [head EXCEPT ![l] = NULL]
    /\ tail' = [tail EXCEPT ![l] = NULL]
    /\ count' = [count EXCEPT ![l] = 0]
    /\ call' = Call("destroy", l, NULL, NULL)

(* list_destroy(list): kfree every node from head along ->next, clear    *)
(* the list and kfree it.                                               *)
ListDestroy(l) ==
    /\ alive[l]
    /\ FreeNodes(Range(Walk(l)), nxt, prv)
    /\ alive' = [alive EXCEPT ![l] = FALSE]
    /\ head' = [head EXCEPT ![l] = NULL]
    /\ tail' = [tail EXCEPT ![l] = NULL]
    /\ count' = [count EXCEPT ![l] = 0]
    /\ call' = Call("destroy", l, NULL, NULL)

Next ==
    \/ \E l \in Lists :
          \/ ListCreate(l) \/ ListDestroy(l)
          \/ \E d \in Data : ListPrepend(l, d) \/ ListAppend(l, d)
          \/ \E e \in Nodes : ListRemove(l, e)
    \/ \E r \in Nodes, d \in Data : InsertBefore(r, d) \/ InsertAfter(r, d)

Spec == Init /\ [][Next]_vars

----------------------------------------------------------------------------
(***************************************************************************)
(* The lookups, as the code walks the pointers.  Scan(it, stop, P) is the *)
(* loop "for (it = ...; it != stop; it = it->next) if (P(it)) return it;" *)
(* (NULL when it reaches stop).  A predicate is modelled by the set P of  *)
(* data values it accepts.                                                *)
(***************************************************************************)
RECURSIVE Scan(_, _, _, _)
Scan(it, stop, P, fuel) ==
    IF it = stop \/ it = NULL \/ fuel = 0 THEN NULL
    ELSE IF data[it] \in P THEN it
    ELSE Scan(nxt[it], stop, P, fuel - 1)

(* list_find_first(list, data) *)
FindFirst(l, d) == Scan(head[l], NULL, {d}, Fuel)

(* list_find_last(list, data): the same loop from tail along ->prev. *)
RECURSIVE ScanBack(_, _, _)
ScanBack(it, d, fuel) ==
    IF it = NULL \/ fuel = 0 THEN NULL
    ELSE IF data[it] = d THEN it
    ELSE ScanBack(prv[it], d, fuel - 1)

FindLast(l, d) == ScanBack(tail[l], d, Fuel)

(* Mutant: the wrap-around loop runs "it != node->next", testing node. *)
FindNextPredicateIncl(r, P) ==
    LET first == Scan(nxt[r], NULL, P, Fuel)
    IN IF first # NULL THEN first ELSE Scan(head[lst[r]], nxt[r], P, Fuel)

(* list_node_find_next_predicate(node, pred): from node->next to the end, *)
(* then from the head up to, not including, node.                         *)
FindNextPredicate(r, P) ==
    LET first == Scan(nxt[r], NULL, P, Fuel)
    IN IF first # NULL THEN first ELSE Scan(head[lst[r]], r, P, Fuel)

----------------------------------------------------------------------------
(* The same lookups defined on the sequence the list stands for. *)
Entries(l) == IF alive[l] THEN [i \in 1..Len(Walk(l)) |-> <<Walk(l)[i], data[Walk(l)[i]]>>]
                          ELSE <<>>
NodeAt(s, i) == IF i = 0 THEN NULL ELSE s[i][1]
RefFindFirst(l, d) == NodeAt(Entries(l), SelectInSeq(Entries(l), LAMBDA e : e[2] = d))
RefFindLast(l, d) == NodeAt(Entries(l), SelectLastInSeq(Entries(l), LAMBDA e : e[2] = d))
RefFindNext(l, r, P) ==
    LET s == Entries(l)
        i == SelectInSeq(s, LAMBDA e : e[1] = r)
        rot == SubSeq(s, i + 1, Len(s)) \o SubSeq(s, 1, i - 1)
    IN NodeAt(rot, SelectInSeq(rot, LAMBDA e : e[2] \in P))

----------------------------------------------------------------------------
TypeOK ==
    /\ alive \in [Lists -> BOOLEAN]
    /\ head \in [Lists -> Nodes \cup {NULL}]
    /\ tail \in [Lists -> Nodes \cup {NULL}]
    /\ count \in [Lists -> 0..Cardinality(Nodes)]
    /\ nxt \in [Nodes -> Nodes \cup {NULL}]
    /\ prv \in [Nodes -> Nodes \cup {NULL}]
    /\ lst \in [Nodes -> Lists \cup {NULL}]
    /\ data \in [Nodes -> Data \cup {NULL}]
    /\ heap \subseteq Nodes

(* list_validate(list) (list.c:15-44), which every mutator calls before  *)
(* it returns: it never fails on a live list, whatever the sequence of    *)
(* calls.  Its loop is the forward walk; its link check is "it->next->prev *)
(* == it".                                                                *)
ListValid(l) ==
    LET w == Walk(l) IN
    /\ count[l] = 0 => head[l] = NULL /\ tail[l] = NULL
    /\ count[l] # 0 =>
          /\ head[l] # NULL /\ tail[l] # NULL
          /\ count[l] > 1 => head[l] # tail[l]
          /\ prv[head[l]] = NULL
          /\ nxt[tail[l]] = NULL
          /\ \A i \in DOMAIN w : lst[w[i]] = l /\ (nxt[w[i]] # NULL => prv[nxt[w[i]]] = w[i])
          /\ Len(w) = count[l]

Validate == \A l \in Lists : alive[l] => ListValid(l)

(* No leak and no sharing: every node kmalloc'd by a list function and  *)
(* not yet kfree'd is on exactly one live list's ->next chain, and the  *)
(* ->prev chain from the tail visits the same nodes in reverse.  A      *)
(* remove or destroy that misses a kfree, or an insert that links a node *)
(* into only one direction, breaks it.                                  *)
NoLeak ==
    /\ heap = UNION {Range(Walk(l)) : l \in {k \in Lists : alive[k]}}
    /\ \A l \in Lists : alive[l] => BackWalk(l) = Reverse(Walk(l))

(* The pointer-walking lookups return what their definitions on the      *)
(* sequence say, on every reachable list: find_first the first match,     *)
(* find_last the last, find_next_predicate the first match after node,   *)
(* wrapping round and never node itself.  find_first and find_last       *)
(* assert a non-empty list (list.c:307, 324), so only those are compared. *)
FindsAgree ==
    \A l \in Lists : alive[l] =>
        /\ head[l] # NULL => \A d \in Data : FindFirst(l, d) = RefFindFirst(l, d)
        /\ tail[l] # NULL => \A d \in Data : FindLast(l, d) = RefFindLast(l, d)
        /\ \A r \in Range(Walk(l)), P \in SUBSET Data :
              FindNextPredicate(r, P) = RefFindNext(l, r, P)

(* Refinement: under the mapping "walk ->next from head", every call     *)
(* changes the list the way ListSpec says that call does.                 *)
Abs == INSTANCE ListSpec WITH
           elems <- [l \in Lists |-> Entries(l)]

Refines == Abs!Spec

=============================================================================
