\* A timer tick between mutex_unlock's two stores.
CONSTANT N <- MCN
SPECIFICATION Spec
INVARIANT UnlockNeverPanics
CHECK_DEADLOCK FALSE
