SPECIFICATION Spec
CONSTANTS
    RX_LEN = 2
    TX_LEN = 4
    BUFLEN_MOD = 8
    Char = {x}
    Alpha = {x}
    NUL = NUL
    None = None
    After <- AfterValue
    Polite = FALSE
    MaxChars = 4
    WITH_ASCII = TRUE
    WITH_MODBUS = TRUE
    Replies = {3}
    MaxLines = 1
PROPERTIES ListenFirst
