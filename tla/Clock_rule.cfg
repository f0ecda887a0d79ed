SPECIFICATION Spec
CONSTANTS
    BASE = 4
    WORD = 16
    INT_MOD = 8
    UNIX_OFFSET = 2
    CLOCK_B = 2
    Times = {5}
    Zones = {1, 15}
    Turns = {0, 6}
    LastTime = 5
INVARIANTS TypeOK TicksCounted RuleInForce
PROPERTIES ImplementsWallClock
