SPECIFICATION FairSpec
CONSTANTS
    Cpus = {c1}
    Bsp = c1
    Tasks = {cl, ini, k1, t1}
    Idle = idle
    None = none
    Resident = cl
    FirstTask = ini
    UserTasks = {t1}
    Mortal = {k1, t1}
    SchedFlaws = {}
    MaxQueue = 2
INVARIANTS QueuedIsSaved NoPanic
PROPERTIES TerminatedIsFinal QueuedRuns
