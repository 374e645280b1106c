SPECIFICATION NativeSpec
CONSTANTS
    Requests = {hello, r1, r2, r3}
    Hello = hello
    Unparsable = {r1}
    MayExpire = {hello, r1}
    Room = 1
    MaxQueue = 2
    MaxControl = 1
    None = None
    Nil = Nil
    Encoder = encoder
    Observers = {o1, o2}
    Revisions = {0, 1}
    MaxFrames = 2
    MaxClears = 1
    MaxPolicies = 1
    MaxRequests = 2
INVARIANTS
    NativeTypeOK
    WriterAwake WireIsFramed ShutOwesNothing
    AnswerImageMatches OnePreparation
PROPERTIES
    ServesCalls RequestsSettle EagerPreparationServes
CHECK_DEADLOCK FALSE
