SPECIFICATION Spec
CONSTANTS
    Procs = {p1, p2, p3, p4}
    Fds = {1, 2, 3, 4}
    MaxChans = 1
INVARIANTS OnlyTheDead
CHECK_DEADLOCK FALSE
