SPECIFICATION FairSpec
CONSTANTS
    Ops = {f1, f2, f3}
    Clients = {main, other}
    Owner = main
    Self = self
    NoOp = none
    NoOne = nobody
    QueueSize = 0
    MaxSpurious = 1
INVARIANTS NoLostWakeup ProcessOnWholeObject
PROPERTIES ImplementsExecutor DestructorReturns
