SPECIFICATION MCSpec
CONSTANTS
    w1 = w1
    w2 = w2
    workers = workers
    Workers <- MCWorkers
    Senders <- MCWorkers
    Resolvers = {workers}
    ResolverOf <- MCResolverOf
    CacheSeconds = 1
    DefaultSeconds = 1
    MinStale = 1
    FileEnabled = TRUE
    MaxTime = 4
    MaxSyncs = 1
    Runs = {r1}
    Retries = 3
    NoRun = NoRun
    Parts = 2
    ChatwootEnabled = TRUE
INVARIANTS
    RuntimeRecent
    LogTellsTruth
    EndedRunIsClosed
    AnswerOnce
PROPERTIES
    FinishedIsFinal
SYMMETRY Symmetry
CHECK_DEADLOCK FALSE
