------------------------------ MODULE MCMutex ------------------------------
(* Three tasks contend for one mutex: enough for a waiter, a holder and *)
(* a task still finishing an earlier mutex_unlock.                      *)
EXTENDS Mutex

MCN == 3
=============================================================================
