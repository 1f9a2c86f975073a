SPECIFICATION FairSpec
CONSTANTS
    Ops = {f1, f2, f3}
    Workers = {w1, w2, w3}
    Producers = {main, other}
    Owner = main
    NoOp = none
    NoOne = nobody
    MaxSpurious = 1
INVARIANT NoLostWakeup
PROPERTIES ImplementsExecutor DestructorReturns OperationsRun
