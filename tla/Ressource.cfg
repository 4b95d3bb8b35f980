SPECIFICATION Spec
CONSTANTS
    Size = 2
    Freq = 2
    Width = 4
    Device = eth0
    Pids = {p1, p2}
    MaxGrowth = 5
    MaxPasses = 4
INVARIANTS RateIsExact NeverOvercounts WritesOwnRow ClientComplete
\* the bounds on growth and passes end a behaviour
CHECK_DEADLOCK FALSE
