SPECIFICATION Spec
CONSTANTS
    Nil = Nil
    NameSteps = 16
    Headers <- MCHeaders
    Bytes <- MCBytes
    MaxLength = 20
INVARIANTS
    NamesSolveTheirEquations
    FramesReadAsTheirMessages
    BodiesAreNoResponses
PROPERTY
    LaterBytesChangeNothing
CHECK_DEADLOCK FALSE
