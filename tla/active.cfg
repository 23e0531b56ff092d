CONSTANTS
    f1 = f1
    f2 = f2
    j1 = j1
    Fds <- TwoFds
    Watches <- ThreeWatches
    Jobs <- OneJob
SPECIFICATION FairSpec
INVARIANTS WatchlistConsistent NoLostWakeup
PROPERTIES JobsRun RoundDrainsTodoList WatchedFdServed DestructorReturns
