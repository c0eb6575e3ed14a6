SPECIFICATION FairSpec
CONSTANTS
    a = a
    b = b
    Jobs = {a}
    KindsOf <- MCKindsOf
    SlowKill = FALSE
    MaxMail = 1
    MaxFaults = 1
    MaxOps = 1
INVARIANTS NeverDeaf DemandSetIdle CrashDrained RightsAccounted OneInstance
PROPERTIES DemandServed RemovalCompletes ShutdownCompletes
CHECK_DEADLOCK FALSE
