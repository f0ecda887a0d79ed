SPECIFICATION Spec
CONSTANTS
    SAMPLES = 4
    COUNT_MOD = 8
    SUM_MOD = 64
    MV_MULT = 5
    MV_DIV = 3
    BASE = 4
    INITIAL_MV = 2
    Uses <- DutyRead
PROPERTIES DutyFull
