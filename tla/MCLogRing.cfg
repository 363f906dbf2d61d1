SPECIFICATION Spec
CONSTANTS
    RING_SIZE = 4
    SeqMod = 10
    Lines = {a, b}
    Readers = {r1}
    HalfMaxes <- MCHalfMaxes
    DefaultMax = 2
    MaxMax = 3
INVARIANTS ReadMatchesLog NoSilentLoss
PROPERTY ImplementsStream
