SPECIFICATION Spec
CONSTANTS
    TX_LEN = 80
    RX_LEN = 80
    VERSION_LEN = 30
    MAX_SECOND = 2
    None = None
    Lines <- SomeLines
    Torn <- TornValues
INVARIANTS SuccessKept AnswerComplete AnswerFits ErrorShown
PROPERTIES ImplementsAssignments
