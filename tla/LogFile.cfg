\* Three threads of two processes append short and long lines to a log of little
\* more than one; file operations fail, processes die or hang.  The threads may all rest in the end.
CONSTANTS
    t1 = t1
    t2 = t2
    t3 = t3
    p1 = p1
    p2 = p2
    None = None
    Processes = {p1, p2}
    Threads = {t1, t2, t3}
    ProcessOf <- MCProcessOf
    LineSizes = {1, 2}
    LongestLine = 2
    MaximumLogSize = 2
    WriteBudget = 4
    FaultBudget = 1
    DeathBudget = 2
SPECIFICATION FairSpec
INVARIANTS TypeOK RecentLinesKept LogBounded
PROPERTIES WriteEnds
CHECK_DEADLOCK FALSE
