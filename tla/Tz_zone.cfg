SPECIFICATION Spec
CONSTANTS
    WORD = 16
    INT_MOD = 8
    UNIX_OFFSET = 2
    Zones <- SomeZones
    Nows = {0, 2, 5, 7, 11}
    Stray = {1, 0}
    Unset = Unset
INVARIANTS SearchSound RuleRight FileClosed
PROPERTIES Ends
CHECK_DEADLOCK FALSE
