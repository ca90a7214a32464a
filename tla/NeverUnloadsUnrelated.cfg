SPECIFICATION ServiceSpec
CONSTANTS
    t1 = t1
    t2 = t2
    Trees = {t1, t2}
    Pids = {1, 2}
    MaxFailures = 2
PROPERTIES NeverUnloadsUnrelated
