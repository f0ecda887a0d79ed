SPECIFICATION Spec
CONSTANTS
    BASE = 4
    WORD = 16
    INT_MOD = 8
    UNIX_OFFSET = 2
    CLOCK_B = 2
    Times = {3, 7}
    Zones = {0, 1}
    Turns = {0, 6}
    LastTime = 8
PROPERTIES PairConsistent
