CONSTANTS
    Threads = {t1, t2}
    VPages = {0, 1, 2, 3, 4}
    DPages = {0, 1, 2, 3, 4}
    FPages = {0, 1, 2}
    TotalFlexible = 2
    PoolPages = {3, 4}
    Programs <- ReleasePrograms
    CacheSize = 2
    MaxGeneration = 8
    NoThread = NoThread
SPECIFICATION Spec
CHECK_DEADLOCK FALSE
INVARIANT CommitBacked
