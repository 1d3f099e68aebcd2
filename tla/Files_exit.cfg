SPECIFICATION FilesSpec
CONSTANTS
    CpuCounts = {1}
    None = none
    FileTasks = {p, c}
    Mortal = {c}
    Discipline = {"idle", "share"}
    Cleaner = cleaner
    Slots = {1, 2}
    IoIndexes = {1, 2}
    Instances = {1, 2}
    OpIds = {1, 2}
INVARIANTS HeldIsOpen
CHECK_DEADLOCK FALSE
