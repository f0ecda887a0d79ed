SPECIFICATION Spec
CONSTANTS
    RX_LEN = 2
    TX_LEN = 4
    BUFLEN_MOD = 8
    Char = {x, y}
    Alpha = {x}
    NUL = NUL
    None = None
    After <- AfterValue
    Polite = FALSE
    MaxChars = 4
    WITH_ASCII = TRUE
    WITH_MODBUS = TRUE
    Replies = {0, 3}
    MaxLines = 1
PROPERTIES FramesIntact
