SPECIFICATION Spec
CONSTANTS
    TX_LEN = 16
    WORD = 32
    BITS = 2
    Requests <- SomeRequests
    Torn <- TornValues
INVARIANTS TypeOK SuccessKept AnswerMatches AnswerFits
PROPERTIES ImplementsAssignments
