CONSTANTS
    c1 = c1
    c2 = c2
    Callers = {c1, c2}
    Used <- Services
    Slots = 1
    MaxCalls = 1
    MaxRequests = 1
    MaxConnects = 1
SPECIFICATION Spec
INVARIANTS BufferKept NoHandlerLeft AnswerMatches
SYMMETRY Symmetry
CHECK_DEADLOCK FALSE
