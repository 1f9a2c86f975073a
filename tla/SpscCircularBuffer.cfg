SPECIFICATION Spec
CONSTANTS
    Data = {a, b}
    Slots = 3
    WordSize = 16
INVARIANTS NoSlotRace AnswersStayTrue
PROPERTIES PeekFaithful ImplementsFifo
