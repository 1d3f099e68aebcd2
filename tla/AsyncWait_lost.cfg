SPECIFICATION WaitSpec
CONSTANTS
    CpuCounts = {1, 2}
    None = none
    Callers = {w1}
    Owner = o
    Waiters = {w1, o}
    Completers = {d1, d2}
    TheSet = set
    Words = {w1, set}
    MaxCalls = 2
    BatchSize = 2
    Profiles = {{}}
PROPERTIES CallAlwaysReturns
CHECK_DEADLOCK FALSE
