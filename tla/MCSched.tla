------------------------------ MODULE MCSched ------------------------------
(* Instantiates Sched for TLC: kernel_task plus up to three created     *)
(* tasks, the 100 Hz PIT, and sleep() arguments below and above one tick *)
EXTENDS Sched

MCKernel == 1
MCMaxPid == 4
MCMsPerTick == 10           \* TIMER_HZ = 100
MCSleepMs == {5, 20}        \* shorter than a tick, and two ticks
MCMaxTicks == 3
MCTickModulus == 2^16       \* never reached within the horizon
=============================================================================
