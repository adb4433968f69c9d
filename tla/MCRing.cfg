\* Three usable slots of four, two messages to tell order and loss apart.
SPECIFICATION RingSpec
CONSTANTS
    RING_SIZE = 4
    Messages = {a, b}
    NoMessage = none
INVARIANTS NoTornMessage
PROPERTIES IsFifo
