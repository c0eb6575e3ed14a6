SPECIFICATION Spec
CONSTANTS
    a = a
    b = b
    Jobs = {a}
    KindsOf <- MCEarlyKindsOf
    SlowKill = FALSE
    MaxMail = 1
    MaxFaults = 1
    MaxOps = 1
INVARIANTS NeverDeaf
CHECK_DEADLOCK FALSE
