SPECIFICATION Spec
CONSTANTS
    Nil = Nil
    Unset = Unset
    NotANumber = NotANumber
    Settings <- MCSettings
    DefaultQueries = 3
    MaxWorkers = 2
    MaxQueries = 3
    Candidates = 2
    Attempts = 1
    Networks <- UDPFirst
    Replies <- NoFailure
INVARIANTS
    TypeOK
    ReportAddsUp
    LoadGenInv
    ResponsesWereAskedFor
    
PROPERTY
    AlwaysExits
