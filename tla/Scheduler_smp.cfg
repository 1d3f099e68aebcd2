SPECIFICATION Spec
CONSTANTS
    Cpus = {c1, c2}
    Bsp = c1
    Tasks = {cl, ini, t1}
    Idle = idle
    None = none
    Resident = cl
    FirstTask = ini
    UserTasks = {t1}
    Mortal = {}
    SchedFlaws = {}
    MaxQueue = 1
INVARIANTS TypeOK NoRunnableLost
CHECK_DEADLOCK FALSE
