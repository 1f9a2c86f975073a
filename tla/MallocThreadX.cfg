SPECIFICATION MXFairSpec
CONSTANTS
    None = none
    Threads = {t1, t2, t3}
    Units = {u1, u2}
    MaxOwned = 1
    Checked = TRUE
INVARIANTS PoolBeforeUse HandedOutOnce
PROPERTY WaitEnds
