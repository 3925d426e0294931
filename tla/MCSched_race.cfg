\* A timer tick between sleep()'s state and wakeup_time stores.
CONSTANTS
    KERNEL <- MCKernel
    MaxPid <- MCMaxPid
    MsPerTick <- MCMsPerTick
    SleepMs <- MCSleepMs
    MaxTicks <- MCMaxTicks
    TickModulus <- MCTickModulus
    SleepAtomic = FALSE
SPECIFICATION Spec
INVARIANT NoPanic
CHECK_DEADLOCK FALSE
