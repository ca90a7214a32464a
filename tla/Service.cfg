SPECIFICATION FairServiceSpec
CONSTANTS
    t1 = t1
    t2 = t2
    Trees = {t1, t2}
    Pids = {1, 2}
    MaxFailures = 2
INVARIANTS Manageable
PROPERTIES ForeignFilesKept RefusesForeignOnly UninstalledIsGone JobServes UnloadedStops
