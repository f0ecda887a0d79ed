SPECIFICATION Spec
CONSTANTS
    WORD = 16
    INT_MOD = 8
    UNIX_OFFSET = 2
    Zones <- FixedZones
    Nows = {5}
    Stray = {1, 0}
    Unset = Unset
INVARIANTS OffsetShown
CHECK_DEADLOCK FALSE
