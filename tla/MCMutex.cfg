\* Mutual exclusion and progress of mutex_lock/mutex_unlock under preemption.
\* An assert in mutex_unlock or mutex_destroy stops the kernel, so such states have no successor.
CONSTANT N <- MCN
SPECIFICATION Spec
INVARIANT TypeOK
INVARIANT MutualExclusion
PROPERTY LockProgress
CHECK_DEADLOCK FALSE
