SPECIFICATION FairSpec
CONSTANTS
    Clients = {c1, c2}
    Isr = isr
    NoOne = nobody
INVARIANTS OneTransfer AnsweredOnce
PROPERTIES BuffersReturned TransferEnds
