SPECIFICATION ConcurrentSpec
CONSTANTS
    Data = {a}
    Slots = 3
    WordSize = 16
INVARIANT SizeWithinCapacity
