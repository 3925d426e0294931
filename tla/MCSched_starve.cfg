\* Round-robin rotation when one task sleeps one tick at a time.
CONSTANTS
    KERNEL <- MCKernel
    MaxPid <- MCMaxPid
    MsPerTick <- MCMsPerTick
    SleepMs <- MCSleepMs
    MaxTicks <- MCMaxTicks
    TickModulus <- MCTickModulus
    SleepAtomic = TRUE
SPECIFICATION Spec
PROPERTY RunnableEventuallyRuns
CHECK_DEADLOCK FALSE
