SPECIFICATION Spec
CONSTANTS
    t1 = t1
    t2 = t2
    Threads = {t1, t2}
    t3 = t3
    Procs = {t1, t2, t3}
    Tools = {"scatter"}
    MaxCtx = 2
    LineBytes = 1
    Ents = 2
    NBytes = 3
    PageBytes = 2
    BitsPerByte = 1
    Accesses <- KernelAccesses
    MaxMangled = 0
SYMMETRY Interchangeable
INVARIANTS ReadsRegular FaultsExplained
PROPERTY Implements
CHECK_DEADLOCK FALSE
