SPECIFICATION Spec
CONSTANTS
    Inputs <- MCInputs
    SegmentSizes = {1, 2, 7, 200}
    HTTP_MAX_HEADER_SIZE = 150
    ULLONG_MAX = 255
INVARIANTS
    ReadsMessages
    StaysInBounds
PROPERTIES
    ExecuteReturns
CHECK_DEADLOCK FALSE
