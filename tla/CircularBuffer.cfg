SPECIFICATION Spec
CONSTANTS
    Data = {a, b}
    Slots = 4
    Modulo = TRUE
PROPERTY ImplementsFifo
