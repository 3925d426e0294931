------------------------------- MODULE MCList -------------------------------
(* Two list_t slots (so node->list matters), three node_t blocks (enough  *)
(* for a middle node, and for a remove with both neighbours present) and  *)
(* two data values (enough for find_first and find_last to differ).      *)
EXTENDS List, TLC

CONSTANTS L1, L2, D1, D2

MCLists == {L1, L2}
MCNodes == 1..3
MCData == {D1, D2}
MCSymmetry == Permutations(MCLists) \cup Permutations(MCData)
=============================================================================
