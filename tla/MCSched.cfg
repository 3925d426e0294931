\* Scheduler safety and liveness with sleep() free of timer ticks.
CONSTANTS
    KERNEL <- MCKernel
    MaxPid <- MCMaxPid
    MsPerTick <- MCMsPerTick
    SleepMs <- MCSleepMs
    MaxTicks <- MCMaxTicks
    TickModulus <- MCTickModulus
    SleepAtomic = TRUE
SPECIFICATION Spec
INVARIANT TypeOK
INVARIANT QueueWellFormed
INVARIANT WakeupConsistent
INVARIANT NoPanic
PROPERTY SleepersWake
CHECK_DEADLOCK FALSE
