SPECIFICATION Spec
CONSTANTS
    LineMax = 2
    PayloadMax = 2
    UserBytes = {"a", "p", "backspace", "newline"}
    AnswerLengths = {1, 3}
    MaxRequests = 2
    MaxTyped = 3
    MaxOutputs = 1
INVARIANTS TypeOK LinesArriveAsTyped AnswersLagByTimeouts
CHECK_DEADLOCK FALSE
