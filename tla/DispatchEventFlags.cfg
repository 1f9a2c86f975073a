SPECIFICATION FairSpec
CONSTANTS
    Ops = {f1, f2, f3}
    NumWorkers = 2
    Producers = {main, other}
    Owner = main
    NoOp = none
    NoOne = nobody
INVARIANTS NoneStranded QuietAtCleanup
PROPERTIES ImplementsExecutor DestructorReturns
